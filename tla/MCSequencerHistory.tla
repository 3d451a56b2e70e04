------------------------- MODULE MCSequencerHistory -------------------------
(***************************************************************************)
(* A small instance of SequencerHistory for TLC.                           *)
(***************************************************************************)
EXTENDS SequencerHistory

Forward == {1}

\* A message nobody receives, one with one receiver and one with two.
MixedReceivers == [k \in Keys |-> CASE k = "none" -> 0 [] k = "go" -> 1 [] OTHER -> 2]

At(kind, k) == [kind |-> kind, k |-> k]

\* Reached by driving, by the cap only just, never; by turning; by what a sibling does.
GatingConds == {At("position", 2), At("position", 4), At("position", 12), At("heading", 2),
                At("variable", 1), At("drive_moving", 1), At("drive_done", 1)}
=============================================================================
