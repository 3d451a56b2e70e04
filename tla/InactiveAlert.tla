---------------------------- MODULE InactiveAlert ----------------------------
(***************************************************************************)
(* The inactive trigger of learner_models/triggers.py and the host around  *)
(* it: events of the student arrive, and whenever the host cares to poll   *)
(* it asks detect_inactive_trigger, given the time of the last event and   *)
(* the last fire it stored, and stores what fires (the README's DB seam).  *)
(***************************************************************************)
EXTENDS Integers, SequencesExt

CONSTANTS InactiveTriggerSeconds, ReAlertSeconds

ASSUME AlertAssumption == InactiveTriggerSeconds \in Nat \ {0} /\ ReAlertSeconds \in Nat \ {0}

VARIABLES
    now,        \* the host's clock
    lastEvent,  \* when the most recent event happened
    fires,      \* the stored fires, each [index, at, since]
    polled      \* when the host polled last

alertVars == <<now, lastEvent, fires, polled>>

Never == -1
InactiveRunIndex == -1

AlertInit == now = 0 /\ lastEvent = Never /\ fires = <<>> /\ polled = Never

IsIdle == lastEvent # Never /\ now - lastEvent >= InactiveTriggerSeconds

\* The student acted after the last fire, so this is a new idle streak.
NewStreak == lastEvent > Last(fires).at

\* Mutant: the fire of this streak is not looked at.
DueWhileIdle == IsIdle

\* detect_inactive_trigger: whether a fire is due, and its run_index.
Due == IsIdle /\ (fires = <<>> \/ NewStreak \/ now - Last(fires).at >= ReAlertSeconds)
NextIndex == IF fires = <<>> THEN InactiveRunIndex ELSE Last(fires).index - 1

\* The student acts now; an event without a timestamp moves nothing.
Act(timed) ==
    /\ lastEvent' = IF timed THEN now' ELSE lastEvent
    /\ UNCHANGED <<fires, polled>>

Poll ==
    /\ fires' = IF Due THEN Append(fires, [index |-> NextIndex, at |-> now, since |-> lastEvent])
                ELSE fires
    /\ polled' = now
    /\ UNCHANGED <<now, lastEvent>>

Tick == now' = now + 1 /\ UNCHANGED <<lastEvent, fires, polled>>

-----------------------------------------------------------------------------
\* "fire, re-alert, resolve": a student who is idle when the host polls has, after the
\* poll, a fire that is of this idle streak and not older than the re-alert time.  And
\* nobody is alerted twice for the same idleness: two fires are a re-alert time apart, or
\* the student acted between them; every fire has an index of its own, which is what the
\* host's UNIQUE constraint dedupes on.
AlertsFollowIdleness ==
    /\ polled = now /\ IsIdle => /\ fires # <<>>
                                 /\ Last(fires).at >= lastEvent
                                 /\ now - Last(fires).at < ReAlertSeconds
    /\ \A i, j \in DOMAIN fires : i < j =>
        /\ fires[j].index # fires[i].index
        /\ fires[j].at >= fires[i].at + ReAlertSeconds \/ fires[j].since > fires[i].at
=============================================================================
