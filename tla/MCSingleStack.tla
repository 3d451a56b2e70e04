---------------------------- MODULE MCSingleStack ----------------------------
(***************************************************************************)
(* Small instances of SingleStack for TLC.                                 *)
(***************************************************************************)
EXTENDS SingleStack

BothSigns == {-1, 1}
TwoReceivers == [k \in Keys |-> IF k = "k1" THEN 1 ELSE 2]

Rotations == {-1, 1}

At(kind, k) == [kind |-> kind, k |-> k]
WaitConds == {At("position", 2), At("position", 9), At("timer", 3), At("variable", 1),
              At("drive_done", 1)}
=============================================================================
