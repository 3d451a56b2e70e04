# Verification of agent-lm-packages

TLA+ models of the code in `src/`, checked with TLC on small instances and, for the
core, proved with TLAPS for all of them.  Line numbers are those of the commit in
`src/`; `PROJECT.json` maps every definition that models code to the lines it
translates.

## 1. The system

The repository holds three packages for an agent that watches students program a
VEX robot.  All are plain Python: no server, no threads of their own; a host
pushes a student's log events into them and asks for results.

| Component | State | Operations | Hard behaviour |
|---|---|---|---|
| Cooperative scheduler (`goal_strategy/detector/simulation/simulate_path.py`, `_Sequencer`, `_SeqThread` and the blocks of `execute_block`) | per `when_started` stack a generator with a status, a wake time, a condition; the one active motion, the queue of interrupted ones, the armed continuous motion; the broadcast guard; the simulated clock | resume a thread, execute one block, park it, advance the clock to the next event, gate what no event can wake, end the run | interleaving of the stacks at every yield; supersession of one stack's motion by another; `throw()` into a suspended generator; budgets that cut motions |
| Sequential driver (same file, `execute_block` without a sequencer) | pose, clock, armed motion | one block at a time, run to its end | must agree with the scheduler on single-stack programs (gate G3) |
| Block interpreter (same file) | call stack, loops, procedures, variables, expression evaluation | execute a stack | recursion and execution budgets |
| Sensor hats and world events (same file) | per hat its last state and its latch; the acquired bodies, the hat that is being served; of a test case the events that fired and when | sample the hats along a move and between blocks, serve them inline, fire world events, run off at the end | a detection lost, or answered twice; a handler that moves the robot through its own and other hats' detections; a world that changes in the middle of a move |
| World geometry (same file) | robot pose, pushed pieces, the path with its step numbers, coverage | move, push, sense, merge short slices into one entry of the path | facts recorded by the number of an entry, entries merged; floating-point geometry |
| Workspace parser (`detector/parsing`) | none | XML to block program | which stacks are live |
| Profile adapter (`adapter.py`, `config.py`) | LRU caches of results and of parsed cards | profile one run, clear the caches | caches shared by concurrent hosts; compute outside the lock |
| Profile stream (`streaming.py`) | runs, the inputs to re-profile them, diagnostics | `push`, `associate_outcome`, `release` | late outcomes; a push that fails half-way |
| Execution and profile scoring (`execution.py`, `profile.py`, `indicators.py`) | none | cut a simulation at its exit, or not; score it | abstention; an exit that an outcome overrides |
| Fidelity and timeline (`fidelity.py`, `timeline.py`) | none | say when each rung changed; compare the end of the run with the observed one | two computations of one thing that must agree |
| Battery, rubric and rollup (`testcases.py`, `battery_*.py`, `rubric_*.py`, `rollup_online.py`) | the rows of evidence so far | simulate the designed worlds, check them, read evidence from the same runs, vote | two independent scans of one walk; abstention; evidence after a failure; the same scores online and offline |
| Episodes (`learner_models/episodes.py`) | open episode, closed ones, pauses, RUNs awaiting a pause | `push`, `result`, `forget_before` | incremental and batch form must agree |
| Run distances and triggers (`learner_models/run_sequence.py`, `distance.py`, `triggers.py`) | the last run, a locked LRU of distances; counters per playground stretch | `push`, the detectors | re-arming; host that polls late |
| Workspace tracker (`log_parser_delta_engine`) | blocks, parents, roots, liveness, the XML they were built from | `process_log`, the renderers | skipped rebuilds; reachability of My Blocks |
| Offline tools (`cli.py`, `*_sweep.py`, `ccp_runs.py`, `dryrun.py`, ...) | files | batch jobs | none |

How they interact.  A host pushes every event of a student into the episode
segmenter, the run distances, the workspace tracker and the profile stream.  A
`runProject` event makes the stream call the adapter; the adapter parses the
workspace, runs the simulator once for the profile and several times more for the
battery, and scores what the simulator's trace shows; the profile comes back as the
run's result, and the run indices join it with the run distances and the triggers.
The simulator is one Python thread: its concurrency is that of the robot's
`when_started` stacks, which `_Sequencer` interleaves as generators.  Real threads
meet only in the module-level caches (`adapter._RESULT_CACHE`, the `lru_cache`s of
`config.py` and `adapter.py`, `distance._distance_cache`).

What makes each of the modelled components correct:

* scheduler: one drivetrain, last write wins; a motion has one owner, who comes back when it is
  over or cut, and never twice or never; time passes only together with displacement
  and never past the budget; the run ends with nobody parked; a single stack behaves as
  under the sequential driver (gate G3);
* stream and adapter: what a host sees is what the batch call would give, however calls,
  outcomes and other hosts interleave, and caches are invisible;
* episodes: the incremental form is the batch form, also in its windowed use;
* distances and triggers: a trigger is a function of the distances alone, fires once, at
  the run that completes it, and the memo is invisible;
* workspace tracker: after every event, the stacks shown active and the blocks counted
  runnable are those that the last workspace can run, and a rebuild ends;
* idle alerts: an idle student is flagged at the next poll, and once per re-alert time;
* sensor hats: a detection is answered at the next chance and once, and bodies are
  pushed, never passed;
* scoring: the timeline ends where the profile stands, and what an exit hides, an
  override brings back marked;
* battery: the check and the evidence see the same encounters, nothing after a failure is
  evidence, recovery is earned, and abstaining costs nothing.

## 2. The modules

| Module | Models | State and actions |
|---|---|---|
| `Drivetrain` | what the simulator promises of the drivetrain (`BUILD_SPEC` 2.4, OI-28): an abstract specification | a cell with at most one motion, the pose and the clock; `Command`, `Elapse`, `RunOff` |
| `Sequencer` | `_Sequencer`, `_SeqThread` and the blocks of `execute_block` it interleaves | per thread `status`, `wake`, `cond` (`_SeqThread`), `frames` (the broadcasts its generator is inside of); `active`, `resumeQ`, `pending`; the sweep's `cursor`; one action per block, per resumption, per kind of clock advance, per gated thread |
| `SequencerHistory` | the same with history variables | when a sleeper is due, how often a runnable thread was passed over |
| `Lockout` | the same under the OI-7 lockout, where one stack is given the drivetrain | the last motion the winner ordered, and where the robot was then |
| `SingleStack` | the sequential driver's blocks, run in lockstep with `Sequencer` for N = 1 | the sequential driver's pose, clock and armed motion; `BothMove`, `BothSignal` |
| `World` | `_advance_world`, `_move` and the sensor predicates, as operators on a record | the pose, one piece, the island, the world events that fired and when |
| `SensorHats` | the deferred event stacks beside a main stack, under both drivers | `prev`, `latched`, `acquired` of the hats (`_hat_prev_state`, `_sensor_hats_latched`, `_hat_acquired`), the `phase` of the host loop, the drive under way with what is left of it; one action per block and per point at which the code serves, ends or restarts a handler |
| `PathTrace` | the path of `_Simulator` and the facts that name one of its steps | `path`, `step`, `anchor` of the merging, `cells`, `contact`, `magnet`; a marched or a plain move, a slice that is merged or not, a turn, the magnet |
| `ProfileScore`, `Timeline`, `ScoredRun` | `prepare_execution` and the indicators; the scanners of `timeline`; both for a run that may end at any entry | the trace, and the outcome and the magnet states it is scored with |
| `BatteryEvidence` | the `stays_on_island` check and `scenario_evidence` on one run | none: operators on the record of a run |
| `RubricCombiner`, `BatteryRollup` | the features, the claims and the vote; the bands of the goals | none |
| `Battery` | a program in the scenarios of a battery, one after the other | `sim`, the run of the present scenario, `act`, when its world began to change, `rows`, `results`, `survived`; a drive, a turn, a look, the end of a scenario |
| `SequencerProofs`, `SingleStackProofs`, `LearnerSessionProofs`, `WorldProofs`, `SensorHatsProofs`, `BatteryProofs`, `ProfileHostProofs`, `ScoredRunProofs` | the theorems of section 5 | |
| `SessionSegmenter` | `episodes.py`, batch (`SegmentSession`, by recursive functions) and incremental (`SegmenterPush`, `ForgetBefore`, `Result`) | `closed`, `open`, `inactive`, `postRun`, `awaiting` as in the class |
| `RunTriggers` | `run_sequence.py`, the memo of `distance.py`, the momentary triggers | `runs`, the LRU `cache`; `PushRun`, `ClearCache`; `Fires` |
| `InactiveAlert` | `detect_inactive_trigger` and the host's two storage touch-points | `lastEvent`, `fires`; `Act`, `Poll` |
| `Workspace` | `smart_delta_engine` and the liveness rules of `liveness.py` | the flat maps as `roots`, `blocks`, `parents`, `orphans`, and `workspace`, the XML they came from; `ProcessLog`; `TakeStack` and `VisitBlock`, the work lists of `split_stacks` and `executed_blocks`; `Register`, the rest of the rebuild; `RunnableIds` walks the maps as `_runnable_ids` does |
| `LearnerSession` | composes the four as the live loop of `learner_models/README.md` | `Push` drives all of them with one event; the next event waits until `process_log` has returned |
| `ResultCache` | the result cache, the card cache and the alias cache, with calls of several threads and `cache_clear()` | `disk`, `cards`, `aliases`, `results`, per host the `call` it is in, a step for each thing another thread can get between |
| `ProfileStream` | `GoalProfileStream` on top of it | `runs`, `records`, `previous`, `consumed`, `diagnostics` as in the class; `PushRun`/`Return`/`Raise` are the begin and the ends of a profiling call |
| `ProfileHost` | composes hosts, card edits and clears; `BatchRun` is `goal_profiles_from_events` | |

`MC...` modules hold only constants: small sets, workloads, conditions.

What the models abstract.  In `Sequencer` the program is not fixed: a running thread may
execute any block of `Menu`, so one run covers every program over these blocks (with
budget `ExecutionBudget`).  Velocities are one unit per unit of time, so a distance, an
angle and a time are integers of one unit, the grain at which the march solvers look;
conditions are thresholds on one reporter.  A generator between two yields is the
sequence of actions from `Resume` until `running` is 0 again, and nothing else runs then.
`throw()` into a parked generator is `UnmetGate`, which leaves the generator running
when the condition sat in a broadcast receiver.  In the learner models an event type
stands for its class, a workspace is an opaque XML string, which only `Workspace` looks
into (through the constant `Parse`), and APTED the constant `EditDistance`.  In
`Workspace` a block stands for an element and the id it is registered under; shadows,
fields and coordinates are left out, and the work lists are sets, so every order of
popping them is checked.  In the host models one card stands for all and a result is known by its
key and by the card versions it was computed from.

The robot of `World` and `PathTrace` lives on a line and faces one of its two directions;
a unit of length is what lies between two samples of a detection, so that a march stops
at integers.  That keeps what the properties are about (which step, before or after the
push, inside or beyond the edge, how far back) and drops headings, the plane and the
cell raster.  A cell that a move clips between two samples is a member of `Clipped`,
seen only when the move begins or ends there.  Hats are eye, bumper, ring, timer and "object
lost"; handlers are any blocks of `HatMenu`.  Under the cooperative driver the main stack is
parked while a second stack, which only looks around, takes its slices.  Left out of
`SensorHats`: the loop clock, the time budget, a hat in the middle of a turn, graze pushes,
and continuous turns (those are in `Sequencer`).  In `PathTrace` the magnet is mounted at the
centre, the origin of a path is on the island, and the cleared weight is not counted.

In `Battery` a program is a free sequence of drives, turns and looks.  What its code
says without being run (`code_evidence`, the response latency of its waits) is a choice
among `Codes`.  The thresholds keep their order, a unit being about a tenth of a metre
of the cards.  Borderline flags, subtags, calibrated probabilities and the checks the
roll-up does not read are left out.

## 3. The runs

| Run | Question | Bounds |
|---|---|---|
| `Sequencer_clock` | do budget, loop clock, takeover frames and the queue of `resume_after` keep the clock and the drivetrain in order, and does every run end? | 3 threads, 4 blocks of nearly the whole menu (motions, sleeps, loops, stops, broadcasts), budget 5: it ends inside every kind of interval; absolute turns in both directions; a wait that is never met |
| `History_gating` | can stacks that command, cut, wait, broadcast and stop each other break the broadcast guard, or come back from a motion too early or never; is a wait given up only when nothing would meet it, is the sweep fair, and does a sleeper wake when it is due? | 3 threads, 5 blocks under the default policy, loop clock off; lengths 0 and 3 (a motion of no length is a special case of the code), messages with one and two receivers; conditions met by driving, by turning, exactly at the march cap, by a sibling's variable or motion, or never |
| `Lockout_motion` | does only the winner's motion happen, whatever the losing stacks execute, wait for or are gated in? | 3 threads of which the first and the third lose, so that losers come before and after the winner in the sweep; 6 blocks, budget 6, loop clock and takeover frames on; a message that winner and losers send each other, conditions met by the winner's drive, or never |
| `Single_stack` | gate G3 | 1 thread, every block, 5 blocks |
| `Learner_session` | does the incremental live session mean what the batch functions and the README say? | six workloads of 3 to 6 events, gaps below, at and above every threshold (scaled down), an LRU of 2 pairs, polls at any time up to 10; and every one of 3125 workspaces of three stacks and nine blocks (hats, definitions with one name twice, recursive and mutual calls, disabled blocks with bodies, slots and a next) |
| `Profile_host` | do streams over shared caches equal the batch call, and is a quiet clear enough? | 2 hosts, 2 to 3 events between them, an LRU of 2 results (3 keys occur), outcomes up front and late, 2 edits (one malformed) and 2 clears |
| `Sensor_hats` | is a detection lost or answered twice, is a recovery event's retreat real, and does a piece always stay ahead of the robot? | 4 blocks in all, drives of 1 and 3; main-simulation runs with an eye and a timer hat or a bumper and a lost-object hat, under both drivers; test cases with a piece that is pushed, comes late or is placed by an event, for the three clear rules; a handler restarts at most twice |
| `Scored_run` | do timeline and profile agree wherever the run ends, and what do an exit and its override hide? | a line of 9 positions with 5 of island, 5 entries of the path, slices of 1 and 3 at a grain of 2, one clipped cell, outcomes inside, beside and far from the island |
| `Battery_rubric` | do check and evidence agree, and is the level of a rubric what the robot did? | 3 blocks in each of two scenarios, drives of 2 and 5 both ways: T6 then T3, T3 then T7, T7 twice; with and without a production run and with ceilings |
| `Gated_receiver`, `Swept_body`, `Lost_credit` | refute what the code's comments say (section 6) | the smallest instance |

Why the bounds are enough.  The scheduler's hazards need two commanders and, for queues
and lockouts, a bystander: three threads.  Four to six blocks are enough for a
supersession inside a broadcast inside a sweep, and every action of the modules is taken
by a passing run.  The segmenter looks back over one open episode, one previous
timestamp and the RUNs awaiting a pause: four or five events reach all of their
combinations.  The momentary triggers count up to small thresholds (3, 2 and 2): six runs
reach each, its re-arming and a change of playground.  Liveness needs a hat, a definition
it calls and either a second one of the same name or another in the chain: three stacks;
a call is in the next chain, in a body, with a reporter, or below a disabled block.
A hat's hazards need a block that arms, one that moves through the detection and one that
leaves it, with a handler in between: four blocks.  An exit, a return and a contact fit in
five entries.  In a scenario of the battery an encounter, a retreat and a return (or a
fall) are three drives; two scenarios are enough for evidence of one to be weighed
against the other's, and for one of them to abstain.

`CHECK_DEADLOCK FALSE` is set where the system stops: a run that has ended, a workload that is used up.  Each property
is shown to depend on the code by a mutant (`PROJECT.json`): the plausible bug next to
the definition it changes makes it fail.

Symmetry is used for the two hosts of `Profile_host`, which differ in nothing; scheduler
threads are ordered by the document and are not symmetric.

## 4. Fairness

`FairSpec` of `Sequencer` assumes `WF_vars(Next)`: `run()` is a loop of one Python
thread that takes its next step as long as there is one.  No fairness between stacks is
assumed; that the sweep is fair is a property of it (`NoThreadPassedOver`).  `Terminates`
uses this and the execution budget.  The other components do nothing of themselves, so
nothing is assumed and no liveness stated: a host that never polls is never answered, and the
simulations of `SensorHats`, `ScoredRun` and `Battery` end with the program, whose blocks are counted.

## 5. What is proved

Every theorem holds for every value of the constants that its module's assumptions allow;
the assumptions are evaluated by TLC on every run.  A theorem about a safety property has
one shape throughout: an inductive invariant, checked by TLC first, one lemma per action
(or per way in which actions treat the state), and a last step that names the property.

### The scheduler

For every number of threads, policy, set of losers, block menu, budget and cap
(`NAssumption`, `PolicyAssumption`, `LosersAssumption`: none loses or all but one, `MenuAssumption`,
`BoundAssumption`):

* `TypeCorrect` and `ClockStaysWithinBudget` (`SequencerProofs`).  `TypeOK` is
  inductive by itself; the clock bound is inductive relative to it, from what `InBudget`
  leaves of an interval.
* `SequencerImplementsDrivetrain` (same module): under the mapping `Cell`
  every step is a `Command`, an `Elapse`, a `RunOff` or a stutter of `Drivetrain`.  It
  rests on `OneCell`: a blocking motion and an armed one never exist side by side.
* `OwnershipAlways`.  That the thread of the active motion is
  parked on it is not inductive alone: a command supersedes the active motion, whose
  owner may be queued, and a completed motion brings back the head of the queue.
  The invariant therefore adds that the queue names each thread once and never the
  active one, that it is empty except under `resume_after`, and that the thread whose
  generator runs is not parked; then a command releases exactly the old owner and
  claims exactly the running thread.  One lemma per kind of command, slice and gate.
* `NobodyForgotten`: from `Ownership` and the guard of `EndRun`, where
  no event is left: a parked thread would be a motion's owner (then the motion's end is
  an event), a sleeper (then its waking is one), or a waiter (then it is gated first).
* `MotionsReturnWhenOver`: a thread comes back only because a command cut its motion, or
  because the slice that completed it moved the robot by exactly what was left
  (`CompletedIsCarriedOut`).
* `OnlyTheWinnerIsObeyed` (of `Lockout`), for any number of losing stacks.  The property says
  where the robot is by the winner's last command, and is inductive once it is known that the active
  motion is no loser's and that nothing is queued (`OnlyWinnerActs`).  A block either
  gives the cell a new motion as a command of the winner (`WinnerBlocks`, `OrderGiven`) or leaves
  the robot and the cell alone; a slice or a takeover frame carries on the motion there is
  (`WinnerSlice`, `OrderCarriedOut`), and a runoff, also that of a loser who is gated,
  ends it where it was going (`OrderRunOff`).
* `GuardIsHeldInside`: the guard is the set of keys of all threads' frames and no key is held
  twice (`GuardMatches`), through every end, supersession and gate of a receiver.  Inductive with
  it (`StoppedOutside`): only `truncate_and_park` or an unmet `wait_until` stops a thread in the
  middle of a broadcast; where neither occurs, a thread that has ended holds nothing.
* `UnmetConditionsAreHopeless`: the march looks only `MarchCap` ahead.
  On a drive that reaches beyond the field; on a turn, the heading repeats after a circle
  (`HeadingRepeats`, from division with remainder), so what one circle does not meet none does.
* `NobodyIsPassedOver`: how often a runnable thread was passed over, and the places the sweep
  still has to visit before it (`PlacesBefore`), come to at most N - 1 together.  A sweep goes back
  to the start only when nothing is runnable, and gating a condition makes nobody runnable
  (`GateIsQuiet`).
* `SleepersWakeOnTime`, under `LoopTick = 0 \/ Frame = 0`: with a takeover frame charged
  the property is false (section 6).  However many slices a wait is cut into, its wake time
  minus the clock is what it still has to sleep.

### The sequential driver

* `SingleStackIsSequential` (`SingleStackProofs`): gate G3 for every program on one stack
  whose conditions do not ask whether the drive is moving (there the drivers differ, section
  6).  The two are not in the same state at every moment: the sequential driver carries a
  block out where the scheduler parks on it.  The invariant `Lockstep` says by how much it is
  ahead, for each thing the stack can be parked on: the rest of the motion, the rest of
  the wait, the way to the first crossing of a condition, or the runoff when there is none.

### The learner session

For every workspace that is a forest (`ParseAssumption`: no block is held by two, or
both held and at the top) and every sequence of events:

* `SplitIsExact` (`LearnerSessionProofs`): once `process_log` has returned, `live` is the least
  set closed under the README's rules, cut to the top level.  The two halves need
  different invariants.  Nothing unreachable is ever made live because `seen`, `visiting`
  and `live` stay inside every closed set (`Sound`, by `ReachedIsLeast`).  Nothing is
  missed because what follows a seen block is seen or being visited and what it calls is
  live (`Complete`), so that with both work lists empty `seen` is itself closed.  That
  `latest = workspace` is what makes the skipped rebuild harmless.
* `NoBlockTwice`: a block below another was come to from the only one that holds it, and
  a top-level one that was come to is live and not made live again (`Once`).
* `ActiveIsExact`: what `Register` writes into the flat maps are the blocks of the last
  workspace with their parents (`MapsInv`); the walk over the maps is again a least closed set,
  so it is the one of the XML.
* `SessionTracks` and `SessionActiveIsExact` (`LearnerSessionProofs`): the session implements
  the tracker's specification, so all three hold in it.

For every workload whose events come in the order of their timestamps and have a type of
the table (`WorkloadAssumption`), and all thresholds (`AlertAssumption`, `DistanceAssumption`):

* `IdlenessIsAlertedOnce`: the fires are
  stored in the order of the polls and number themselves downwards (`FiresInOrder`); a new
  one is a re-alert time after the last of its streak and therefore after all of them.
* `CachedDistancesAreTrue`: whatever is in the LRU is the distance
  of its key, and an oversized pair never is (`CacheIsTrue`); hits, evictions and clears keep
  that, so a hit answers what a computation would.
* `TriggersFollowTheTable`: the counters and arming flags that the scan carries from run to
  run are lengths of rows of compared runs within the present stretch of one playground, so
  a trigger fires at the run that completes a row and at no other.
* `FiresStandForGood`: the scan of a prefix of the runs is the scan of all of them up to there, so
  what a later detection says of an earlier run is what was said before.
* `RunsAreEpisodes`: every `runProject` opens a RUN episode and nothing else does, nor does
  anything merge two (`Joined`); until the host forgets, the k-th run of the distances is
  therefore the k-th RUN episode, the open one included.
* `LiveMeansBatch`: for every sequence of events and every moment at which the host forgets, what
  the incremental segmenter holds is what `segment_session` makes of the events so far.  Along
  with a session go the batch form's episodes as a ghost (`Tiles`: they cover the events in order,
  and all but the last are settled, since nothing later can reach back into them), the pauses after
  a run that the next event decides, and the order in which pauses decided late are put among
  those decided early (`SegmenterFits`).  `Result` and `SegmentSession` both sort by the time at
  which a pause began; the sort is a stable one by rank (`Ordered`).

### The hats and the world

For every card and program, hats of all kinds, and both drivers (`WorldAssumption`,
`HatsAssumption`; `SensorHatsProofs`).  Every step drives, stands, looks, serves, ends or
restarts a stack, or rests (`StepKinds`); each kind has its lemma.  Along a move in which nothing
is pushed the samples are the true course (`SamplesAre`), so a condition becomes true only where a
latching hat sees it (`LatchingSees`) or where the pre-scan of the driving hat cuts the move
(`ActiveSees`).

* `SweptEdgesAreServed`: a detection a driver has met is latched or restarts its own stack, and
  one that is due has its hat ready when the driver next looks (`Owing`).
* `EveryStartHasAnEdge`: the rises of a condition not yet answered pay for every claim on it: one
  for a hat that is latched, ready or about to restart, one more for a condition that
  holds and has not been seen (`Covered`).
* `RetreatsAreEarned`: the least distance noted once per block is never below the one the robot
  really had (`LowIsLow`), so an event that fires on a retreat fires after at least that much of one.
* `PiecesKeepTheirSide`: a drive that reaches the piece ends with the piece ahead of it, carried
  along or off the island, and no other step moves either of them past the other (`Moved`, `StaysAhead`).

### The battery

For every battery, program, length of drive and setting of the rules (`RulesAssumption`: a fall
begins inside the band and the band within the retreat; `BatteryAssumption`: the types of cards,
census and code evidence; `OnePieceAssumption`: a card brings one piece, at the start or by one
event, as the castle's do).  `BatteryProofs` builds on `WorldProofs`, which gives a world its type
for every card (`Typed`); a scan, a filter or a flattening is a recursive function, and what it comes
to is shown step by step along the samples (`Iterates`, `HandedOn`).

* `SeamsMirrorEntries`: the scan that counts entries and the one that writes seams keep different
  flags, the first being out of the band but not re-armed where the second is still inside
  its encounter.  After every sample the seam scan is inside exactly when the entry scan has not
  been re-armed (`Alongside`), so that one finds a boundary or a retreat where the other does.
* `AbstentionIsNeutral`: a test that abstains joins no set of valid tests, and the running sum of
  a goal is the same function up to there (`SumIs`); `ResultsKept` says that results only grow.
* `LevelsAreKept`: one more row raises every feature but the number of families not survived
  (`ShownGrow`, `FeaturesUpward`).  On the claims card only a claim that asks for at least so
  much carries weight (`Regular`, proved of each of the six dimensions), so support grows
  (`SupportGrows`); what is left is the negatives, which hold as before unless a cue was not used, the
  constraint on unsurvived families, and the two gates, which never close again.  That a level lost
  to an unsurvived family is still not U: the second level of recovery rests on the first
  (`SecondAfterFirst`).  The invariant is that the counts in a row are natural numbers
  (`RowsCounted`), which takes the types of everything a scenario records.
* `NothingCountsAfterFailure`: a block more, run after the one the robot failed in, leaves the evidence
  as it was.  The walk before it is the beginning of the walk after it (`WalkMore`, `DenseMore`), so
  the first sample off the island is the same one (`ExitSame`), every sample or seam beyond it is left out of
  both scans (`WatchedSame`, `ScansSame`, `SeamsSame`), and so are the contact, the clear and the
  travel between them (`TravelSame`, `CompletionSame`).  Needed besides (`Steady`): the path has one
  row per step (`Paced`), and a piece that is gone has been touched, stays gone and is followed by no
  other (`ClearedForGood`, `PieceToCome`); without that a later event would open the record again.
* `SameEncounterDefinition`: the episodes of the check and the entries of the evidence run side by
  side; where the one is in an episode the other has not been re-armed (`Matches`), and without a failure
  both look at every sample (`AllWatched`).  That a fall is an episode not survived takes the
  walk itself: its samples are a unit apart (`WalkGoes`), it has been on the island (`Grounded`: every
  island that is placed has the robot on it, `AdvanceIslands`), and how far it is off changes by
  one at most (`OutsideIs`), so that to be further out than the grace it passes the band on
  the way out or on the way back (`FallsAreSeen`).  The hypothesis `OverItsEdges` says that wherever the
  robot is off the island, the nearest edge it is tested against is the one it went over.  It cannot be
  dropped: a robot that leaves a placed island at its back falls without an encounter, since only the
  edge in front is on record (TLC finds it at once when `Deep` is 3).  It holds wherever no event
  places an edge (`SameEncountersOnOwnIsland`), and TLC finds it to hold in every scored state
  of `Battery_rubric`, so the theorem covers all that the run shows.

### Hosts, stream and caches

For every number of hosts, cache sizes and workloads (`CacheAssumption`, `WorkloadAssumption`):

* `QuietClearHeals` (`ProfileHostProofs`): a window of versions.  While the last
  `cache_clear()` met no call and has returned, everything in the caches and in the open calls
  comes from versions since `settled`; at all other times only from some version there has
  been (`Low`).  A clear that stays quiet finds every call idle and leaves one cache after
  another empty (`Clearing`), which is what lets the window close again when it returns.
  That it must be quiet is the hypothesis of the property, not of the proof: see section 6.
* `ReleasedStays`: a released run has no record (`StreamInvariant`), and a call
  that is under way is about a run that had one (`HasTarget`), which only its own host could
  release.
* `PrefixesAgree`: the runs of a stream are those of the batch call over what it consumed.  Needed
  besides (`PrefixInvariant`): the numbers of the runs count the `runProject` events one to one,
  also across a push that raised (`Lists`, `Listed`); `previous` is the playground the batch call
  would have come to (`PlaygroundAfter`); and an open call, or an entry of the result cache, is about
  the inputs its key names (`CallIsAbout`, `CacheFits`), whoever put it there.

### Traces, scores and the timeline

For every world and card (`SceneAssumption`; `CardAssumption`: the coverage edges ascend), and
every run (`ScoredRunProofs`).  The invariant, `TraceInv`, says that each fact names an entry of the
path (`Recorded`) and what the coverage of a prefix is (`Covered`).

* `EntriesKeepTheirStep`: entry i is step i - 1, through all merges.
* `TimelineReachesProfile`: two computations of one number.  The profile measures the cut
  path; the timeline keeps a running minimum, or searches by bisection for the first prefix that
  reaches a rung.  The minimum has a closed form; the search finds the first prefix because coverage
  only grows along the path; and a chain of changes of rung ends at the last one.
* `ExitMovesNoEvent`: the scan of the path cut at the exit is the scan of the whole path, restricted.
* `LateEvidenceIsMarked` and `OverrideIsReportedAsOne` follow from these and the island test.

### What is only model-checked

`Terminates` is liveness, out of the prover's reach.  In the battery two properties stay with TLC:
`AbstentionLosesNothing` depends on the cards (an island so short that its far edge is in the band,
or two placed edges, break it) and holds for those of the castle, and `RecoveryIsEarned` is about
the robot's own story, from which the evidence departs by the shared step of the first two segments
(section 6).

`tlapm` cannot look into `SelectSeq`, `SortSeq` and `@@`.  What is proved about is therefore written
with index sets or as a recursive function (`Only` of `SessionSegmenter`, `Scan` of
`BatteryEvidence`, the scans of the triggers), and a sort as the sequence in which each entry has as
many before it as its rank says; what they compute is proved by looking for the least number at
which it would fail, since the induction theorems cannot be instantiated.

## 6. Where code and words differ

Three are shown by a run whose property states what the repository says:

* `Gated_receiver`: `_gate_cond` gates whatever its `throw()` left suspended
  (`simulate_path.py:1146`), so a broadcaster whose receiver was gated is gated at its
  own next yield; `_GateSignal` says a gated receiver stalls without its broadcaster.
* `Swept_body`: hats are sampled along a move after its push (`simulate_path.py:2783`), so a
  piece that is reached, pushed and cleared in one move fires no hat, although the comment
  there promises that a body swept over in the middle of a drive latches it.
* `Lost_credit`: the onset of a scenario is meant to be the first materialization of the piece
  (`battery_evidence.py:243`), but for a piece that is there from the start it is the first
  push; entries and retreats before the push stop counting once the robot pushes.

Seen while modelling, without a run of their own; the first two of them were
confirmed by running the program.

* The docstring of `simulate_path` (l. 1188) says that the stack given precedence owns the
  drivetrain outright.  The lockout guards commands (l. 2916), not the ends of motions: a losing
  stack's `wait_until` that comes true clears the drive or turn the winner had armed (l. 1050),
  and the robot stops in the middle of it (at 510 mm, where the winner alone runs to 8000).  One that
  is given up clears it as well, and runs it off (l. 3271-3276); that costs the winner nothing, since
  a condition is given up only when nobody sleeps or moves under a motion of its own, where
  the run would end with the same runoff.  `OnlyWinnersMotion` allows both and nothing
  else: the robot keeps to the winner's motion, which a loser's wait may end early or run off.
  The sweeps pass no precedence at present; it is a parameter of `simulate_path`.
* `log_parser_delta_engine/README.md:166` and the docstring of `process_log` (`smart_delta.py:49`)
  say that anything unparseable is ignored.  An event whose workspace XML does not parse
  empties the tracker (a count of 1 becomes 0), as `_bootstrap_from_xml` says of itself
  (`smart_delta.py:78`).  `ActiveIsWhatRuns` therefore speaks of workspaces that parse, and of
  the empty one; the model does what the code does.

In the scheduler and the driver:

* `active_broadcasts` is shared by all threads, so a broadcast is taken for recursion because
  a sibling's receiver of the same message sleeps; with nothing moving and nobody asleep,
  `wait until timer > k` is given up.
* The two drivers disagree on an unmet `wait_until` while a turn is armed and inside a
  receiver, and on the drivetrain reporters (`Comparable` in `SingleStack` leaves these
  programs out of gate G3).
* The march for a turn looks at the heading the pose has, the evaluator at the accumulated
  rotation.
* A takeover frame is charged to the clock but not to the sleepers, who oversleep by it
  (`WokenOnTime` is checked with the loop clock off).

In the hats:

* `_finish_pending_motion` stops at a hat whose condition holds (a level,
  `simulate_path.py:3673`), hats fire on an edge: a drive armed while a hat is on is not run.
* The crossing of a timer hat inside another hat's handler that then resets the timer is
  missed; an edge that a hat's own turn causes is absorbed by its new baseline; edges latched
  during the last pass over the hats or the runoff are never served.
* The scan that decides on a restart looks along the whole move, the budget cuts it afterwards:
  a stack can be restarted for a detection it never reached.

In the caches, the scores and the timeline:

* A call under way during `cache_clear()` stores what it computed from the old cards
  afterwards (`adapter.py:180`); hence the quiet clear of `QuietClearIsHonest`.
* The cells a move clips are sampled from its ends, so merged slices and the timeline's
  prefixes (`timeline.py:157`) can cover other cells than the run (`simulate_path.py:1500`).
  On the plane a prefix can have cells the run lacks without any merge: `slice_sim_result`
  (`simulate_path.py:1509`) and `_prefix_coverage` (`timeline.py:220`) sample the footprint at every
  entry, a turn's at its new heading included, where the simulator samples only in `_move`
  (l. 3891).  The line of `PathTrace`, which has no headings, cannot show that.  Besides,
  a contact during a merged slice is recorded at `len(path)`, one past the entry it belongs to.
* The timeline takes no notice of `conditional_hat_treatment="abstain"`.  When an outcome
  overrides the exit, events before it are marked as evidence after it, too.

In the battery:

* After a world event at step f, the samples of the first drive carry the step before it and are
  skipped as earlier than the onset: a retreat in one block counts for the check and not
  for the evidence.  The origin's segment and the first real one share a step
  (`battery_evidence.py:154`), so the window that ends with the step of a fall in the first block
  takes in the whole second one: who drives over a placed edge and then back onto the island is
  credited with a correction, which a test (`tests/test_battery_evidence.py:284`) says implies a
  retreat before the failure.
* An excursion before the activation is judged against the island that the event places later
  (`testcases.py:229`).  Seams of one step are ordered by the name of their kind.
* The check counts the encounter of a robot that only looks from where it starts, the
  evidence does not.  `detects_fail_with_encounter` is never set, so that claim never votes.
* A prerequisite that abstained counts as failed for what depends on it.

In the learner models: `constants.py:20-21` says idle "> this many seconds" and re-alert "after
this many seconds", where code and README fire at that many (`IsIdle`, `Due`); `boundary_kind` answers `soft` for CODE, RUN and RESET, where a
comment at `episodes.py:113` says all are hard; `get_total_blocks` is documented as "all
blocks on the canvas" (`log_parser_delta_engine/README.md:45`), but a disabled reporter in a
slot is on it and is not registered (`ValueInputs`).

## 7. Not modelled, and what would come next

Left out for good: floating-point geometry and the march arithmetic (out of TLC's
reach; the models keep only where a crossing lies), the text renderers and command
lines (wording), APTED (third-party), the cards (data), the workspace parser and the
identity switches (one pass without state).

Parts of modelled components that are left out: procedures, the recursion guard per thread and
expressions of the block interpreter; hats under the loop clock or beside several main
stacks that move; indicators of the code alone; the detection and divergence checks of the
battery, its family evidence and its calibrated probabilities.

Next, in this order:

1. `Interpreter`: procedures, the per-thread recursion guard and the budgets inside one
   stack, as a refinement of `Sequencer`'s free choice of blocks.
2. `SensorHats` composed with `Sequencer`, so that a hat's handler runs in a slice of one of
   several stacks.
3. The offline envelope of the battery against the online roll-up.

A theorem to add: `AbstentionLosesNothing` for cards with one placed edge.
