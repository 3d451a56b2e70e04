---------------------------- MODULE BatteryRollup ----------------------------
(***************************************************************************)
(* The banded roll-up of the battery: per goal, the flat mean of its check *)
(* over the valid tests, cut into the rungs of the card.  A result is a    *)
(* record [abstained, reason, of, out]; a score is a number of Scale-ths.   *)
(* The dominant reason of a U and the calibrated probability are left out. *)
(***************************************************************************)
EXTENDS Integers, Sequences, SequencesExt

Scale == 300

\* [min, band], highest first, and sparse_min_valid
Rungs(goal) ==
    CASE goal = "clear_debris_zone" ->
            <<[min |-> 105, band |-> "broad_systematic"], [min |-> 30, band |-> "meaningful_multi_condition"],
              [min |-> 6, band |-> "narrow_inconsistent"], [min |-> 0, band |-> "little_no_capability"]>>
      [] goal = "remain_on_island" ->
            <<[min |-> 150, band |-> "boundary_safe"], [min |-> 30, band |-> "condition_dependent"],
              [min |-> 0, band |-> "boundary_unsafe"]>>
SparseMin(goal) == IF goal = "clear_debris_zone" THEN 8 ELSE 5

\* Mutant: an abstained test scores zero.
EveryResult(results) == DOMAIN results
Valid(results) == {i \in DOMAIN results : ~results[i].abstained}
Sum(results) ==
    LET upTo[i \in 0..Len(results)] ==
            IF i = 0 THEN 0
            ELSE IF i \in Valid(results)
                 THEN upTo[i - 1] + (Scale * results[i].of) \div results[i].out
                 ELSE upTo[i - 1]
    IN  upTo[Len(results)]

BandFor(goal, sum, n) ==
    LET held == {i \in DOMAIN Rungs(goal) : sum >= Rungs(goal)[i].min * n}
    IN  IF held = {} THEN Rungs(goal)[Len(Rungs(goal))].band ELSE Rungs(goal)[Min(held)].band

GoalBand(goal, results) ==
    LET valid == Valid(results)
        n == Cardinality(valid)
    IN  [band |-> IF valid = {} THEN "U" ELSE BandFor(goal, Sum(results), n),
         valid |-> n, abstained |-> Len(results) - n,
         certainty |-> IF valid # {} /\ n < SparseMin(goal) THEN "reduced" ELSE "full"]
=============================================================================
