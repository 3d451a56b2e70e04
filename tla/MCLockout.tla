------------------------------ MODULE MCLockout ------------------------------
(***************************************************************************)
(* Small instances of Lockout for TLC.                                     *)
(***************************************************************************)
EXTENDS Lockout

BothSigns == {-1, 1}
Forward == {1}
OneReceiver == [k \in Keys |-> 1]

At(kind, k) == [kind |-> kind, k |-> k]

\* Reached by the winner's drive, and never.
SomeConds == {At("position", 2), At("variable", 1)}
=============================================================================
