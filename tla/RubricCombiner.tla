--------------------------- MODULE RubricCombiner ---------------------------
(***************************************************************************)
(* From the evidence rows of a program to a level per dimension of the     *)
(* rubric: the feature dictionary the claims card resolves against         *)
(* (_run_features), the claims of castle_crashers, and the vote            *)
(* (combine_run).  A weight is counted in halves, a truth value is 0 or 1, *)
(* and a blank or a missing feature is Blank.                              *)
(*                                                                         *)
(* A row is a record [scenario, family, entries, corrective, transitions,  *)
(* returns, completion, cycles, alternations, responds, terminates]; prod  *)
(* is the row of the production run, or NoRow; caps are the ceilings of    *)
(* the census; stays is the proportion [of, out] of encounters survived,   *)
(* by scenario.                                                            *)
(***************************************************************************)
EXTENDS Integers, Sequences, SequencesExt

U == -1                 \* of a level: not awarded for want of evidence
Blank == -1             \* of a feature
Uncapped == 9
NoRow == [present |-> FALSE]

\* support_min, in halves
SupportMin == 2

\* Mutant: the row of the last scenario.
OfLastRow(rows, field) == IF rows = <<>> THEN 0 ELSE Last(rows)[field]
Largest(rows, field) == Max({rows[i][field] : i \in DOMAIN rows} \cup {0})
Count(rows, Test(_)) == Cardinality({i \in DOMAIN rows : Test(rows[i])})
Flag(b) == IF b THEN 1 ELSE 0

-----------------------------------------------------------------------------
\* _run_features

UnsurvivedFamilies(rows, stays) ==
    Cardinality({rows[i].family : i \in {k \in DOMAIN rows :
        rows[k].scenario \in DOMAIN stays /\ stays[rows[k].scenario].of < stays[rows[k].scenario].out}})

\* Mutant: a row whose correction was not evaluated is an unanswered one.
NotCorrected(rows) == Count(rows, LAMBDA r : r.corrective # "True")
CorrectiveEvaluated(rows) == Count(rows, LAMBDA r : r.corrective \in {"True", "False"})

BatteryFeatures(rows, stays) ==
    [alternations |-> Largest(rows, "alternations"),
     responds |-> Flag(\E i \in DOMAIN rows : rows[i].responds),
     entries |-> Largest(rows, "entries"),
     transitions |-> Largest(rows, "transitions"),
     transitionTests |-> Count(rows, LAMBDA r : r.transitions >= 2),
     returns |-> Flag(\E i \in DOMAIN rows : rows[i].returns >= 1),
     completion |-> Flag(\E i \in DOMAIN rows : rows[i].completion = "True"),
     unchanged |-> Count(rows, LAMBDA r : r.completion = "False"),
     correctives |-> CorrectiveEvaluated(rows),
     cycles |-> Largest(rows, "cycles"),
     cycleFamilies |-> Cardinality({rows[i].family : i \in {k \in DOMAIN rows : rows[k].cycles >= 1}}),
     unsurvived |-> UnsurvivedFamilies(rows, stays),
     terminations |-> Count(rows, LAMBDA r : r.terminates),
     detectsFail |-> 0]         \* no caller supplies it

ProductionFeatures(prod) ==
    IF ~prod.present THEN [f \in {} |-> Blank]
    ELSE [prodAlternations |-> prod.alternations,
          relations |-> prod.relations,
          loops |-> prod.loops,
          controlled |-> prod.controlled,
          gatedMotion |-> prod.gatedMotion,
          calibrated |-> prod.calibrated,
          specificity |-> prod.specificity,
          structures |-> Flag(prod.loops > 0 \/ prod.procedures > 0 \/ prod.variables > 0),
          reused |-> Flag(prod.reused > 0)]

\* The features of the battery, and beside them those of the production run.
RunFeatures(rows, prod, stays) ==
    LET shown == BatteryFeatures(rows, stays)
        written == ProductionFeatures(prod)
    IN  [f \in DOMAIN shown \cup DOMAIN written |-> IF f \in DOMAIN shown THEN shown[f] ELSE written[f]]

-----------------------------------------------------------------------------
\* The claims card.  A claim holds when its feature is at least, or at most, a value.

Primary == 2
Supporting == 1
Constraint == 0
Claim(feature, least, weight) ==
    [of |-> feature, op |-> "ge", value |-> least, weight |-> weight, conjunct |-> FALSE]
Required(feature, least) == [Claim(feature, least, Primary) EXCEPT !.conjunct = TRUE]
AtMost(feature, most) ==
    [of |-> feature, op |-> "le", value |-> most, weight |-> Constraint, conjunct |-> TRUE]
Known(feature) == [of |-> feature, op |-> "known", value |-> 0, weight |-> 0, conjunct |-> FALSE]

Floors(fs) == [floors |-> fs, negatives |-> {}]
Against(fs, ns) == [floors |-> fs, negatives |-> ns]
Ungated == [gated |-> FALSE, gate |-> Known("")]
Gated(claim) == [gated |-> TRUE, gate |-> claim]

EnvironmentalFeedback ==
    [evaluability |-> Ungated, levels |-> <<
        Against({Claim("alternations", 1, Primary), Claim("prodAlternations", 1, Primary),
                 Claim("responds", 1, Supporting)},
                {Claim("detectsFail", 2, Primary)}),
        Floors({Claim("alternations", 2, Primary), Claim("prodAlternations", 2, Primary),
                Claim("entries", 2, Supporting)})>>]
ControlStructure ==
    [evaluability |-> Ungated, levels |-> <<
        Floors({Claim("loops", 1, Primary)}),
        Floors({Claim("relations", 1, Primary), Claim("controlled", 1, Primary)}),
        Floors({Claim("relations", 2, Primary)})>>]
SpatialMotion ==
    [evaluability |-> Gated(Known("specificity")), levels |-> <<
        Floors({Claim("calibrated", 1, Primary), Claim("specificity", 1, Primary)}),
        Floors({Claim("gatedMotion", 1, Primary), Claim("terminations", 2, Primary)})>>]
Representation ==
    [evaluability |-> Ungated, levels |-> <<
        Floors({Claim("structures", 1, Primary)}), Floors({Claim("reused", 1, Primary)})>>]
TaskStateRegulation ==
    [evaluability |-> Ungated, levels |-> <<
        Against({Claim("transitions", 1, Primary), Claim("completion", 1, Primary)},
                {Claim("unchanged", 2, Primary)}),
        Floors({Required("transitionTests", 2), Required("returns", 1)})>>]
Recovery ==
    [evaluability |-> Gated(Claim("correctives", 2, Constraint)), levels |-> <<
        Floors({Claim("cycles", 1, Primary)}),
        Floors({Claim("cycleFamilies", 2, Primary), AtMost("unsurvived", 1)})>>]

Dimensions == {"environmental_feedback", "control_structure", "spatial_motion",
               "representation", "task_state_regulation", "recovery"}
ClaimsOf(dim) ==
    CASE dim = "environmental_feedback" -> EnvironmentalFeedback
      [] dim = "control_structure" -> ControlStructure
      [] dim = "spatial_motion" -> SpatialMotion
      [] dim = "representation" -> Representation
      [] dim = "task_state_regulation" -> TaskStateRegulation
      [] dim = "recovery" -> Recovery

-----------------------------------------------------------------------------
\* combine_run

Feature(features, f) == IF f \in DOMAIN features THEN features[f] ELSE Blank
OrZero(v) == IF v = Blank THEN 0 ELSE v
ClaimHolds(features, c) ==
    LET v == Feature(features, c.of)
    IN  CASE c.op = "ge" -> OrZero(v) >= c.value
          [] c.op = "le" -> OrZero(v) <= c.value
          [] c.op = "known" -> v # Blank

Holding(features, lspec, weight) == {c \in lspec.floors : c.weight = weight /\ ClaimHolds(features, c)}
Support(features, lspec) ==
    Primary * Cardinality(Holding(features, lspec, Primary))
    + Supporting * Cardinality(Holding(features, lspec, Supporting))
NegativeWeight(features, lspec) ==
    2 * Cardinality({c \in lspec.negatives : ClaimHolds(features, c)})
ConjunctsHold(features, lspec) ==
    \A c \in lspec.floors : c.conjunct => ClaimHolds(features, c)
Net(features, lspec) == Support(features, lspec) - NegativeWeight(features, lspec)

Awarded(features, dim, cap) ==
    {lvl \in DOMAIN ClaimsOf(dim).levels :
        LET lspec == ClaimsOf(dim).levels[lvl]
        IN  ConjunctsHold(features, lspec) /\ Net(features, lspec) >= SupportMin /\ lvl <= cap}

\* A claim that carries weight fired, or a negative stands against a level not awarded.
Informative(features, dim, cap) ==
    \E lvl \in DOMAIN ClaimsOf(dim).levels :
        LET lspec == ClaimsOf(dim).levels[lvl]
        IN  \/ \E c \in lspec.floors : c.weight > 0 /\ ClaimHolds(features, c)
            \/ lvl \notin Awarded(features, dim, cap)
               /\ \E c \in lspec.negatives : ClaimHolds(features, c)

\* The verified zero: evaluable, sought and not shown.
GateHolds(features, dim) == ClaimHolds(features, ClaimsOf(dim).evaluability.gate)
Level(rows, prod, caps, stays, dim) ==
    LET features == RunFeatures(rows, prod, stays)
        cap == caps[dim]
        level == Max(Awarded(features, dim, cap) \cup {0})
        gated == ClaimsOf(dim).evaluability.gated
    IN  CASE rows = <<>> /\ ~prod.present -> U
          [] rows # <<>> \/ prod.present ->
             IF gated /\ ~GateHolds(features, dim) /\ level = 0 /\ cap # 0 THEN U
             ELSE IF Informative(features, dim, cap) \/ cap = 0 \/ gated THEN level
             ELSE U
=============================================================================
