----------------------------- MODULE RunTriggers -----------------------------
(***************************************************************************)
(* learner_models/run_sequence.py, distance.py and triggers.py: the edit   *)
(* distance of every run to the run before it (RunDistanceStream, with the *)
(* distances memoized in a bounded LRU that all streams share), and the    *)
(* four momentary triggers read off the sequence of distances.             *)
(*                                                                         *)
(* A workspace is a member of Xmls; what APTED computes is the constant    *)
(* EditDistance.                                                           *)
(***************************************************************************)
EXTENDS Integers, SequencesExt

CONSTANTS
    Xmls, Playgrounds,
    EditDistance,    \* compute_edit_distance of two workspaces
    Oversized,       \* workspaces with more than MAX_DIFF_BLOCKS blocks
    CacheMax,        \* _CACHE_MAX
    WheelSpinZeroRuns, ResilienceZeroRuns, ExplorerEditDistance,
    IterativeThreshold   \* ITERATIVE_THRESHOLDS, with the default where unlisted

NoPlayground == "none"
ASSUME DistanceAssumption ==
    /\ EditDistance \in [Xmls \X Xmls -> Nat]
    /\ \A x \in Xmls : EditDistance[x, x] = 0
    /\ Oversized \subseteq Xmls
    /\ CacheMax \in Nat \ {0}
    /\ IterativeThreshold \in [Playgrounds \cup {NoPlayground} -> Nat \ {0}]
    /\ WheelSpinZeroRuns \in Nat \ {0} /\ ResilienceZeroRuns \in Nat \ {0}
    /\ ExplorerEditDistance \in Nat \ {0}

VARIABLES
    runs,       \* RunDistanceStream.runs, each with its workspace (_prev is the last's)
    cache       \* _distance_cache, the oldest entry first

runVars == <<runs, cache>>

NoDist == -1

RunsInit == runs = <<>> /\ cache = <<>>

PrevPlayground == IF runs = <<>> THEN NoPlayground ELSE Last(runs).playground
\* A run that does not name its playground continues the current one.
Effective(pg) == IF pg = NoPlayground THEN PrevPlayground ELSE pg

\* Mutant: the cache is keyed on the new workspace only.
KeyOfCurrent(a, b) == <<b, b>>
Key(a, b) == <<a, b>>

Positions(k) == {i \in DOMAIN cache : cache[i].key = k}
Hit(k) == Positions(k) # {}
Touched(k) ==
    LET i == CHOOSE j \in Positions(k) : TRUE
    IN  Append(RemoveAt(cache, i), cache[i])
Stored(k, d) ==
    LET longer == Append(cache, [key |-> k, dist |-> d])
    IN  IF Len(longer) > CacheMax THEN Tail(longer) ELSE longer

\* edit_distance_for: identical workspaces are not looked up, oversized ones not stored.
Compared(a, b, dist) ==
    CASE a = b -> dist = 0 /\ cache' = cache
      [] a # b /\ Hit(Key(a, b)) ->
            /\ cache' = Touched(Key(a, b))
            /\ dist = Last(cache').dist
      [] a # b /\ ~Hit(Key(a, b)) /\ {a, b} \cap Oversized # {} ->
            dist = NoDist /\ cache' = cache
      [] OTHER ->
            /\ dist = EditDistance[a, b]
            /\ cache' = Stored(Key(a, b), dist)

\* There is nothing to compare the run with.
FirstOfStretch(pg) == runs = <<>> \/ Effective(pg) # PrevPlayground

Distances == {NoDist, 0} \cup {EditDistance[p] : p \in Xmls \X Xmls}

\* RunDistanceStream.push of a runProject event.
PushRun(xml, pg) ==
    \E d \in Distances :
        /\ IF FirstOfStretch(pg) THEN d = NoDist /\ cache' = cache
                                 ELSE Compared(Last(runs).xml, xml, d)
        /\ runs' = Append(runs, [dist |-> d, playground |-> Effective(pg), xml |-> xml])

\* clear_cache, at any time.
ClearCache == cache # <<>> /\ cache' = <<>> /\ UNCHANGED runs

-----------------------------------------------------------------------------
(***************************************************************************)
(* detect_run_triggers: one pass over the distances of a stretch, with the *)
(* counters and arming flags as they are after each run.                   *)
(***************************************************************************)
Fresh == [zeros |-> 0, wheelArmed |-> TRUE, edits |-> 0, iterArmed |-> TRUE, fires |-> {}]

\* Mutant: a row of just the threshold is missed.
RecoveredLate(st, d) == d > 0 /\ st.zeros > ResilienceZeroRuns
Recovered(st, d) == d > 0 /\ st.zeros >= ResilienceZeroRuns

After(st, i, d, threshold) ==
    IF d = NoDist THEN st
    ELSE LET zeros == IF d = 0 THEN st.zeros + 1 ELSE 0
             edits == IF d = 0 THEN 0 ELSE st.edits + 1
             wheel == d = 0 /\ zeros >= WheelSpinZeroRuns /\ st.wheelArmed
             iter  == d > 0 /\ edits >= threshold /\ st.iterArmed
         IN  [zeros |-> zeros,
              wheelArmed |-> d > 0 \/ (st.wheelArmed /\ ~wheel),
              edits |-> edits,
              iterArmed |-> d = 0 \/ (st.iterArmed /\ ~iter),
              fires |-> st.fires
                \cup (IF Recovered(st, d) THEN {<<"resilience", i>>} ELSE {})
                \cup (IF wheel THEN {<<"wheel_spin", i>>} ELSE {})
                \cup (IF d >= ExplorerEditDistance THEN {<<"explorer", i>>} ELSE {})
                \cup (IF iter THEN {<<"iterative", i>>} ELSE {})]

\* Mutant: every fire is reported at the last run of the stretch.
ReportedLate(rs, i, j) ==
    LET State[k \in (i - 1)..j] ==
            IF k < i THEN Fresh
            ELSE After(State[k - 1], k, rs[k].dist, IterativeThreshold[rs[i].playground])
    IN  {<<f[1], j>> : f \in State[j].fires}

\* The runs from i to j, all on one playground, with global run indices.
DetectRunTriggers(rs, i, j) ==
    LET State[k \in (i - 1)..j] ==
            IF k < i THEN Fresh
            ELSE After(State[k - 1], k, rs[k].dist, IterativeThreshold[rs[i].playground])
    IN  State[j].fires

\* The stretch of runs on one playground that begins at i ends here.
StretchEnd(rs, i) ==
    Min({Len(rs)} \cup {j \in i..(Len(rs) - 1) : rs[j + 1].playground # rs[i].playground})

DetectRunTriggersByPlayground(rs) ==
    LET From[i \in 1..(Len(rs) + 1)] ==
            IF i > Len(rs) THEN {}
            ELSE DetectRunTriggers(rs, i, StretchEnd(rs, i)) \cup From[StretchEnd(rs, i) + 1]
    IN  From[1]

Fires == DetectRunTriggersByPlayground(runs)

-----------------------------------------------------------------------------
(***************************************************************************)
(* Properties.                                                             *)
(***************************************************************************)
\* The run is the first on its playground since the student came to it.
Switched(i) == i = 1 \/ runs[i - 1].playground # runs[i].playground

\* "distance is None for the first run overall and also for the first run after a
\* playground switch" (compute_run_edit_distances), None for an oversized pair, and else
\* the true distance to the run before, whatever the cache holds, evicts or forgets.
DistancesAreTrue ==
    \A i \in DOMAIN runs :
        runs[i].dist =
            IF Switched(i) THEN NoDist
            ELSE IF runs[i - 1].xml = runs[i].xml THEN 0
            ELSE IF {runs[i - 1].xml, runs[i].xml} \cap Oversized # {} THEN NoDist
            ELSE EditDistance[runs[i - 1].xml, runs[i].xml]

\* The stretch of runs up to i in which every one was compared and was (or was not)
\* identical to the one before; runs that were not compared do not count.
InARow(i, Good(_)) ==
    LET same == {j \in 1..i : \A k \in (j + 1)..i : ~Switched(k)}
        row  == {j \in same : runs[j].dist # NoDist /\ \A k \in j..i : runs[k].dist # NoDist
                                                                     => Good(runs[k].dist)}
    IN  Cardinality(row)
Zeros(i) == InARow(i, LAMBDA d : d = 0)
Edits(i) == InARow(i, LAMBDA d : d > 0)

\* What the README's table of triggers says, read off the distances alone: wheel_spin at
\* the run that completes a row of re-runs and not again within the row, resilience at
\* the edit that ends a long enough row, iterative at the edit that completes a row of
\* edits, explorer at every big rewrite; and rows end with the playground.
TriggersMeanWhatTheySay ==
    LET fired == Fires IN
    \A i \in DOMAIN runs :
        LET d == runs[i].dist
        IN  /\ <<"wheel_spin", i>> \in fired <=> d = 0 /\ Zeros(i) = WheelSpinZeroRuns
            /\ <<"resilience", i>> \in fired
                 <=> d > 0 /\ i > 1 /\ ~Switched(i) /\ Zeros(i - 1) >= ResilienceZeroRuns
            /\ <<"explorer", i>> \in fired <=> d >= ExplorerEditDistance
            /\ <<"iterative", i>> \in fired
                 <=> d > 0 /\ Edits(i) = IterativeThreshold[runs[i].playground]

\* "callers can re-run it and dedupe on run_index": detecting again after further runs
\* fires nothing new at a run already seen and takes nothing back.
FiresAreFinal ==
    [][Fires = {f \in Fires' : f[2] \in DOMAIN runs}]_runs
=============================================================================
