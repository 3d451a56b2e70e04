---------------------------- MODULE ProfileStream ----------------------------
(***************************************************************************)
(* goal_strategy/streaming.py: GoalProfileStream, one per host, each       *)
(* feeding one student's session to the profiler as the events arrive and  *)
(* associating outcomes when they turn up, next to the batch adapter       *)
(* goal_profiles_from_events.  Every profile is a call through the caches  *)
(* of ResultCache, which all hosts share.                                  *)
(*                                                                         *)
(* An event is [type, xml, playground], an outcome [params, id], and an id *)
(* [session, index] or a given one.                                        *)
(***************************************************************************)
EXTENDS ResultCache

CONSTANT Workloads   \* [events, limit, outcomes, diagnostics, releases, cards, edits, clears]

ASSUME WorkloadAssumption == \A w \in Workloads : w.limit \in Nat

VARIABLES
    workload,
    runs,       \* the runs of each stream, None once released
    records,    \* what is kept of each to profile it again
    previous,   \* _previous_playground
    consumed,   \* _event_index
    diagnostics,
    pending,    \* the push or associate_outcome that each host is in
    arrived,    \* history: every event pushed, whether its push raised, its outcome
    clears      \* history: how often the caches were cleared

streamVars == <<runs, records, previous, consumed, diagnostics, pending, arrived>>
hostVars == <<workload, streamVars, clears, cacheVars>>

None == "None"
NoId == [session |-> None, index |-> 0]
NoOutcome == [params |-> None, id |-> NoId]
Released == [index |-> None]

StreamInit ==
    /\ workload \in Workloads
    /\ runs = [h \in Hosts |-> <<>>]
    /\ records = [h \in Hosts |-> <<>>]
    /\ previous = [h \in Hosts |-> None]
    /\ consumed = [h \in Hosts |-> 0]
    /\ diagnostics = [h \in Hosts |-> <<>>]
    /\ pending = [h \in Hosts |-> Idle]
    /\ arrived = [h \in Hosts |-> <<>>]
    /\ clears = 0
    /\ CacheInit /\ cards \in workload.cards

\* program_id: the outcome's, or one made of the session and the run's index.
ProgramId(h, index, outcome) == IF outcome.id # NoId THEN outcome.id
                                ELSE [session |-> h, index |-> index]
ProfileKey(record, outcome) ==
    [xml |-> record.xml, playground |-> record.playground, params |-> outcome.params]

\* What _profile_run adds to the profiler's answer.
RunOf(result, record, index) ==
    [index |-> index, event |-> record.event, inherited |-> record.inherited, result |-> result]

\* _profile_run, as far as the profiler: for the run `index` with these inputs.
Profile(h, record, index, outcome, what) ==
    /\ BeginCall(h, ProfileKey(record, outcome), ProgramId(h, index, outcome))
    /\ pending' = [pending EXCEPT ![h] = [what |-> what, record |-> record, index |-> index,
                                          outcome |-> outcome]]

\* push of an event that is no run.
PushOther(h, ev) ==
    /\ pending[h] = Idle /\ ev.type # "runProject"
    /\ consumed' = [consumed EXCEPT ![h] = @ + 1]
    /\ diagnostics' = [diagnostics EXCEPT ![h] =
         CASE ev.type = "invalid" -> Append(@, <<consumed[h], "invalid_event">>)
           [] ev.type = "playgroundData" -> Append(@, <<consumed[h], "unassociated_outcome">>)
           [] OTHER -> @]
    /\ arrived' = [arrived EXCEPT ![h] = Append(@, [ev |-> ev, ok |-> TRUE, outcome |-> NoOutcome])]
    /\ UNCHANGED <<runs, records, previous, pending, cacheVars>>

PushRun(h, ev, outcome) ==
    LET record == [xml |-> ev.xml, event |-> consumed[h], inherited |-> ev.playground = None,
                   playground |-> IF ev.playground = None THEN previous[h] ELSE ev.playground]
    IN  /\ pending[h] = Idle /\ ev.type = "runProject"
        /\ consumed' = [consumed EXCEPT ![h] = @ + 1]
        /\ Profile(h, record, Len(runs[h]), outcome, "push")
        /\ arrived' = [arrived EXCEPT ![h] = Append(@, [ev |-> ev, ok |-> FALSE, outcome |-> outcome])]
        /\ UNCHANGED <<runs, records, previous, diagnostics>>

\* The answer is there: push appends the run, associate_outcome replaces it.
FinishPush(h) ==
    LET p == pending[h]
    IN  /\ runs' = [runs EXCEPT ![h] = Append(@, RunOf(call[h].result, p.record, p.index))]
        /\ records' = [records EXCEPT ![h] = Append(@, p.record)]
        /\ previous' = [previous EXCEPT ![h] = p.record.playground]
        /\ arrived' = [arrived EXCEPT ![h][Len(arrived[h])].ok = TRUE]

\* The events of a host that became its runs, and where its k-th run arrived.
RunsIn(s) == {j \in DOMAIN s : s[j].ev.type = "runProject" /\ s[j].ok}
Position(h, k) == CHOOSE j \in RunsIn(arrived[h]) :
                      Cardinality({i \in RunsIn(arrived[h]) : i <= j}) = k

FinishAssociate(h) ==
    LET p == pending[h]
    IN  /\ runs' = [runs EXCEPT ![h][p.index + 1] = RunOf(call[h].result, p.record, p.index)]
        /\ arrived' = [arrived EXCEPT ![h][Position(h, p.index + 1)].outcome = p.outcome]
        /\ UNCHANGED <<records, previous>>

Return(h) ==
    /\ Answered(h)
    /\ IF pending[h].what = "push" THEN FinishPush(h) ELSE FinishAssociate(h)
    /\ call' = [call EXCEPT ![h] = Idle]
    /\ pending' = [pending EXCEPT ![h] = Idle]
    /\ UNCHANGED <<consumed, diagnostics, disk, cards, aliases, results, toClear, settled,
                   began, overlapped>>

\* The profiler raised: the exception leaves push or associate_outcome, half-way.
Raise(h) ==
    /\ At(h, "raised")
    /\ call' = [call EXCEPT ![h] = Idle]
    /\ pending' = [pending EXCEPT ![h] = Idle]
    /\ UNCHANGED <<runs, records, previous, consumed, diagnostics, arrived, disk, cards,
                   aliases, results, toClear, settled, began, overlapped>>

HasInputs(h, index) == index < Len(runs[h]) /\ records[h][index + 1] # Released

\* associate_outcome, for a run that was released or never seen, ...
OutcomeUnused(h, index) ==
    /\ pending[h] = Idle
    /\ ~HasInputs(h, index)
    /\ diagnostics' = [diagnostics EXCEPT ![h] = Append(@,
         <<index, IF index >= Len(runs[h]) THEN "outcome_without_run" ELSE "outcome_run_released">>)]
    /\ UNCHANGED <<runs, records, previous, consumed, pending, arrived, cacheVars>>

\* ... or for one whose inputs are kept: it is profiled again.
AssociateOutcome(h, index, outcome) ==
    /\ pending[h] = Idle /\ HasInputs(h, index)
    /\ Profile(h, records[h][index + 1], index, outcome, "associate")
    /\ UNCHANGED <<runs, records, previous, consumed, diagnostics, arrived>>

\* Mutant: only the result is dropped.
InputsKept(h, index) ==
    /\ pending[h] = Idle /\ index < Len(runs[h])
    /\ runs' = [runs EXCEPT ![h][index + 1] = Released]
    /\ UNCHANGED <<records, previous, consumed, diagnostics, pending, arrived, cacheVars>>

Release(h, index) ==
    /\ pending[h] = Idle /\ index < Len(runs[h])
    /\ runs' = [runs EXCEPT ![h][index + 1] = Released]
    /\ records' = [records EXCEPT ![h][index + 1] = Released]
    /\ UNCHANGED <<previous, consumed, diagnostics, pending, arrived, cacheVars>>
=============================================================================
