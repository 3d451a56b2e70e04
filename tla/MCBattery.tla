----------------------------- MODULE MCBattery -----------------------------
(***************************************************************************)
(* Small batteries for Battery: T6 (the robot starts at the edge, a piece  *)
(* behind it, a recovery event behind a retreat), T3 (a piece on the way   *)
(* to the edge) and T7 (a static piece on the card's own island).  A unit  *)
(* is about a tenth of a metre of the cards.                               *)
(***************************************************************************)
EXTENDS Battery

Card(id, family, at, events, requires) ==
    [id |-> id, family |-> family, push |-> TRUE, rule |-> "extension", late |-> 0,
     at |-> at, events |-> events, requires |-> requires]
Event(id, at, after, retreat, ahead, piece) ==
    [id |-> id, at |-> at, after |-> after, retreat |-> retreat, ahead |-> ahead, piece |-> piece]

T6 == Card("t6a", "t6_reengagement", Nowhere,
           <<Event("encounter_1", Never, "", Never, 1, -7),
             Event("recovery_1", Never, "encounter_1", 4, Nowhere, Nowhere)>>, "recovery_1")
T3 == Card("t3a", "t3_block_boundary", Nowhere,
           <<Event("encounter_1", Never, "", Never, 6, 4)>>, "")
T7 == Card("t7a", "t7_managed_clearing", 3, <<>>, "")
T7b == [T7 EXCEPT !.id = "t7b", !.at = -3]

Caps(feedback, structure, representation) ==
    [dim \in Dimensions |->
        CASE dim \in {"environmental_feedback", "task_state_regulation", "recovery"} -> feedback
          [] dim = "control_structure" -> structure
          [] dim = "representation" -> representation
          [] OTHER -> Uncapped]
Plain == [present |-> TRUE, alternations |-> 0, relations |-> 0, loops |-> 0, controlled |-> 0,
          gatedMotion |-> 0, calibrated |-> 0, specificity |-> Blank, procedures |-> 0,
          variables |-> 0, reused |-> 0]
Looping == [Plain EXCEPT !.alternations = 2, !.relations = 1, !.loops = 1, !.specificity = 0]

Battery(tests, row, caps) == [tests |-> tests, row |-> row, caps |-> caps]
SomeBatteries == {Battery(<<T6, T3>>, NoRow, Caps(Uncapped, Uncapped, Uncapped)),
                  Battery(<<T3, T7>>, Plain, Caps(1, 0, 0)),
                  Battery(<<T7, T7b>>, Looping, Caps(Uncapped, Uncapped, Uncapped))}
StaticBattery == {Battery(<<T7>>, NoRow, Caps(Uncapped, Uncapped, Uncapped))}

DriveLengths == {-5, -2, 2, 5}
FourThenThree == <<4, 3>>
ThreeThenThree == <<3, 3>>
SomeCodes == {[alternations |-> 0, responds |-> FALSE, terminates |-> FALSE],
              [alternations |-> 2, responds |-> TRUE, terminates |-> TRUE]}
OneCode == {[alternations |-> 0, responds |-> FALSE, terminates |-> FALSE]}
=============================================================================
