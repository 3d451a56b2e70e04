------------------------------ MODULE ScoredRun ------------------------------
(***************************************************************************)
(* A run as it is simulated, with the profile and the timeline that would  *)
(* be computed if it ended now.  The run may end at any entry, so what     *)
(* holds in every state holds of every simulation of these moves.          *)
(***************************************************************************)
EXTENDS Timeline

vars == <<trace, params, authored>>

Init == /\ TraceInit
        /\ params \in Params
        /\ authored \in 0..2

\* A boost is only simulated when the code names it.
Next == /\ TraceNext
        /\ magnet' # magnet => authored = 2
        /\ UNCHANGED <<params, authored>>

Spec == Init /\ [][Next]_vars

TypeOK == /\ path \in Seq([step : Nat, x : World, block : {"drive_for", "drive", "turn", "magnet"}])
          /\ x \in World /\ cells \subseteq Region
          /\ \A n \in {step, anchor, contact, magnet} : n \in Nat \/ n = None

\* where the events of an indicator lead: the rung one of them ends at and none leaves
Final(name) ==
    LET last == {e \in MainEvents(name, FullSim) :
                    \A f \in MainEvents(name, FullSim) : f.from # e.to}
    IN  IF last = {} THEN StartRung(name) ELSE (CHOOSE e \in last : TRUE).to

(***************************************************************************)
(* Two instruments, one answer: where the timeline's scored events leave   *)
(* an indicator is the rung the profile reports, although the timeline     *)
(* scans the full path and cuts, and the profile cuts and then measures.   *)
(* Coverage is set apart where the simulator sampled finer than the        *)
(* recorded positions can tell: there the two do disagree.                 *)
(***************************************************************************)
TimelineEndsAtProfile ==
    \A name \in Indicators :
        LET i == Profile(FullSim)[name]
        IN  IF i.abstained THEN MainEvents(name, FullSim) = {}
            ELSE \/ Final(name) = i.rung
                 \/ name = "debris_zone_coverage" /\ Finer /\ ExitIndex(FullSim) = Len(path)

(***************************************************************************)
(* What happens after the exit cannot move an event before it: the         *)
(* running minima, and for coverage the binary search run over a longer    *)
(* path, find the same first crossings.                                    *)
(***************************************************************************)
ExitHidesNothing ==
    \A name \in Scanned :
        \/ MainEvents(name, FullSim) = Events(name, ScoredSim(FullSim))
        \/ name = "debris_zone_coverage" /\ Finer /\ ExitIndex(FullSim) = Len(path)

(***************************************************************************)
(* Under an override evidence may come from the path after the simulated   *)
(* exit, where simulation and reality disagreed.  No such rung reaches the *)
(* reader unmarked.                                                        *)
(***************************************************************************)
PostExitEvidenceIsMarked ==
    Overridden(FullSim) =>
        \A name \in Scanned :
            (\E e \in MainEvents(name, FullSim) : e.at > ExitIndex(FullSim))
                => name \in PostSimExit(FullSim)

(***************************************************************************)
(* Execution, profile and verdict each test the GPS against the island.    *)
(* They agree: an overridden exit is never reported as a disagreement,     *)
(* blamed on a slip over the edge, on a cap or a stall, or left            *)
(* unattributed, and the two final positions are compared.                 *)
(***************************************************************************)
OverrideIsAccountedFor ==
    Overridden(FullSim) =>
        /\ Agreement(FullSim) /\ PositionError(FullSim) # None
        /\ \A trouble \in {"none", "capped", "stalled", "sensor", "edge_zone"} :
               Verdict(FullSim, trouble) \in {"agree", "override"}
=============================================================================
