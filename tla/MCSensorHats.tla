---------------------------- MODULE MCSensorHats ----------------------------
(***************************************************************************)
(* Small worlds for SensorHats: a main-simulation run (no push) under both *)
(* drivers with every kind of hat, and test cases with a pushed piece, a   *)
(* late piece, a placed boundary and a recovery event behind a retreat.    *)
(***************************************************************************)
EXTENDS SensorHats

BothSigns == {-1, 1}

Card(coop, push, rule, at, late, events, kinds) ==
    [coop |-> coop, push |-> push, rule |-> rule, at |-> at, late |-> late,
     events |-> events, hats |-> kinds]
Event(id, at, after, retreat, ahead, piece) ==
    [id |-> id, at |-> at, after |-> after, retreat |-> retreat, ahead |-> ahead, piece |-> piece]

MainRuns == {Card(coop, FALSE, "extension", 3, 0, <<>>, kinds) :
                coop \in BOOLEAN, kinds \in {<<"eye", "timer">>, <<"bumper", "loses">>}}
Encounter == Event("encounter_1", 1, "", Never, 3, -3)
Recovery == Event("recovery_1", Never, "encounter_1", 2, 2, 3)
TestCases == {Card(FALSE, TRUE, rule, 3, 1, <<>>, <<"bumper">>) :
                rule \in {"extension", "slip_band", "displacement"}}
             \cup {Card(FALSE, TRUE, "extension", Nowhere, 0, <<Encounter, Recovery>>, <<"ring">>)}
EveryCard == MainRuns \cup TestCases
PushedCards == {Card(FALSE, TRUE, "extension", 3, 0, <<>>, <<"bumper">>)}
=============================================================================
