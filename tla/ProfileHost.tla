----------------------------- MODULE ProfileHost -----------------------------
(***************************************************************************)
(* Hosts in several threads, each with a stream of its own, over the       *)
(* caches they share; the cards are edited and the caches cleared while    *)
(* they work.  A workload bounds what comes: the events, how many a host   *)
(* gets, the outcomes known at once and later, releases, edits and clears. *)
(***************************************************************************)
EXTENDS ProfileStream

SumOf(F(_)) == MapThenSumSet(F, Hosts)

Feeds(h) ==
    \E ev \in workload.events :
        /\ SumOf(LAMBDA g : Len(arrived[g])) < workload.limit
        /\ PushOther(h, ev) \/ \E o \in workload.outcomes \cup {NoOutcome} : PushRun(h, ev, o)

Learns(h) ==
    \E index \in 0..workload.limit, o \in workload.outcomes :
        \/ AssociateOutcome(h, index, o)
        \/ Len(diagnostics[h]) < workload.diagnostics /\ OutcomeUnused(h, index)

Releases(h) == workload.releases /\ \E index \in 0..(workload.limit - 1) : Release(h, index)

Works(h) ==
    \/ Feeds(h) \/ Learns(h) \/ Releases(h)
    \/ CallStep(h) /\ UNCHANGED streamVars
    \/ Return(h) \/ Raise(h)

Edits  == disk <= workload.edits /\ EditCards /\ UNCHANGED <<streamVars, clears>>
Clears == /\ \/ clears < workload.clears /\ BeginClear /\ clears' = clears + 1
             \/ ClearNext /\ UNCHANGED clears
          /\ UNCHANGED streamVars

HostNext ==
    /\ \/ (\E h \in Hosts : Works(h)) /\ UNCHANGED clears
       \/ Edits \/ Clears
    /\ UNCHANGED workload

HostSpec == StreamInit /\ [][HostNext]_hostVars

-----------------------------------------------------------------------------
(***************************************************************************)
(* goal_profiles_from_events over the events that the stream consumed,     *)
(* with every outcome that is known by now supplied up front: the stream   *)
(* without its history and the profiler without its caches.                *)
(***************************************************************************)
\* previous_playground after the first n events.
NamedIn(s, n) == {i \in RunsIn(s) : i <= n /\ s[i].ev.playground # None}
PlaygroundAfter(s, n) == IF NamedIn(s, n) = {} THEN None ELSE s[Max(NamedIn(s, n))].ev.playground

BatchRun(h, k) ==
    LET j   == Position(h, k)
        a   == arrived[h][j]
        key == [xml |-> a.ev.xml, params |-> a.outcome.params,
                playground |-> PlaygroundAfter(arrived[h], j)]
    IN  [index |-> k - 1, event |-> j - 1, inherited |-> a.ev.playground = None,
         key |-> key, id |-> ProgramId(h, k - 1, a.outcome), status |-> Status(key)]

Shown(run) == [index |-> run.index, event |-> run.event, inherited |-> run.inherited,
               key |-> run.result.key, id |-> run.result.id, status |-> run.result.status]

\* "the runs a stream has emitted after k events are identical to
\* goal_profiles_from_events over those same k events", and an outcome associated later
\* "yields exactly the run the batch call produces with the outcome supplied up front"
\* (README): whatever other hosts put into the cache, or evict from it, and whatever was
\* released.  As long as the cards are well-formed every runProject event has its run, also
\* when the engine fails on its program: otherwise "every later run's global index shifts
\* onto the wrong program" (_compute_result).
PrefixIdentity ==
    \A h \in Hosts :
        /\ Len(runs[h]) = Cardinality(RunsIn(arrived[h]))
        /\ \A k \in DOMAIN runs[h] : runs[h][k] # Released => Shown(runs[h][k]) = BatchRun(h, k)
        /\ \A i \in DOMAIN arrived[h] :
              arrived[h][i].ev.type = "runProject" /\ ~arrived[h][i].ok
                  => \/ i = Len(arrived[h]) /\ pending[h] # Idle
                     \/ \E v \in Malformed : v <= disk

\* A released run stays released: no late outcome, nor one that was under way, brings it
\* back, and its record goes with it.
ReleasedForGood ==
    [][\A h \in Hosts : \A k \in DOMAIN runs[h] :
         runs[h][k] = Released => runs'[h][k] = Released /\ records'[h][k] = Released]_hostVars
=============================================================================
