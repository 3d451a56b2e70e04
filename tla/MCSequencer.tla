----------------------------- MODULE MCSequencer -----------------------------
(***************************************************************************)
(* Small instances of Sequencer for TLC: the constants the configurations  *)
(* cannot write down themselves.                                           *)
(***************************************************************************)
EXTENDS Sequencer

BothSigns == {-1, 1}
Forward == {1}

\* A message nobody receives, one with one receiver and one with two.
MixedReceivers == [k \in Keys |-> CASE k = "none" -> 0 [] k = "go" -> 1 [] OTHER -> 2]

At(kind, k) == [kind |-> kind, k |-> k]

\* Nobody ever sets the variable.
NeverCond == {At("variable", 1)}
=============================================================================
