----------------------------- MODULE SensorHats -----------------------------
(***************************************************************************)
(* The deferred event stacks of a program: eye, bumper, ring and timer     *)
(* hats run inline, as interrupts, between two blocks of the main stack    *)
(* and inside whatever motion it has under way.  A detection is an edge of *)
(* the hat's condition, seen between blocks or latched along a move; an    *)
(* edge during the hat's own drive abandons and restarts its stack.  The   *)
(* bodies of the stacks are any programs of HatMenu.  The main stack is    *)
(* run by the sequential driver, or by the cooperative one beside a second *)
(* stack whose blocks only look around (card.coop).  The loop clock is off *)
(* (a takeover clears the armed drive) and there is no time budget.        *)
(***************************************************************************)
EXTENDS World

CONSTANTS
    Cards,                  \* the worlds and hats to try
    Threshold,              \* of the timer hats
    Menu, HatMenu,          \* the blocks of the main stack and of the hats
    Lengths, Signs, Waits,
    ExecutionBudget,        \* execution_budget_blocks
    Unroll,                 \* forever_unroll, the cap on restarts
    FieldCap                \* 4 x the field radius, where a robot left driving ends

ASSUME HatsAssumption ==
    /\ Cards \subseteq [coop : BOOLEAN, push : BOOLEAN, rule : ClearRules, at : Int, late : Nat,
                       events : Seq(EventType), hats : Seq({"timer", "bumper", "eye", "ring", "loses"})]
    /\ Threshold \in Int /\ Signs \subseteq {-1, 1}
    /\ Lengths \subseteq Nat /\ Waits \subseteq Nat
    /\ ExecutionBudget \in Nat /\ Unroll \in Nat /\ FieldCap \in Nat

VARIABLES
    card,
    world,
    timer,
    pending,    \* the armed continuous drive: its sign, or 0
    parked,     \* what the main stack waits for, under the cooperative driver
    prev,       \* _hat_prev_state
    latched,    \* _sensor_hats_latched
    acquired,   \* _hat_acquired
    ready,      \* the hats fire_ready_sensor_hats has yet to serve
    active,     \* _active_hat, or 0
    restarts,
    blocks,     \* blocks_executed
    phase,      \* what the driver does next
    back,       \* the phase to return to when the ready hats are served
    \* history
    owed,       \* per hat: a detection along a move that no firing has answered,
                \* "new" since the last check or "due" before it
    spare,      \* per hat: how often its condition came true, less how often it was started
    low         \* how close the robot has been to the placed edges, by the millimetre

hats == DOMAIN card.hats
hatState == <<prev, latched, acquired>>
history == <<owed, spare, low>>
control == <<ready, active, restarts, blocks, phase, back>>
vars == <<card, world, timer, pending, parked, hatState, control, history>>

NotParked == [kind |-> "none", sign |-> 1, left |-> 0]

\* _hat_detects in the world w at time tm, with the hats of acq having seen a body.
\* Looking is not free of effects: a `loses` hat that sees becomes acquired.
Acquires(h, w) == card.hats[h] = "loses" /\ EyeSees(w)
Detects(h, w, tm, acq) ==
    CASE card.hats[h] = "timer" -> tm >= Threshold
      [] card.hats[h] = "bumper" -> BumperPressed(w)
      [] card.hats[h] = "eye" -> EyeSees(w)
      [] card.hats[h] = "ring" -> RingSeen(w)
      [] card.hats[h] = "loses" -> ~EyeSees(w) /\ acq

\* A hat looks at a sequence of worlds, one after another: has it seen a body by the i-th,
\* does its condition hold there, and does it come true there?
AcquiredBy(h, ws, i) == h \in acquired \/ \E k \in 1..i : Acquires(h, ws[k])
DetectsAt(h, ws, tm, i) ==
    IF i = 0 THEN prev[h] ELSE Detects(h, ws[i], tm, AcquiredBy(h, ws, i))
ComesTrue(h, ws, tm, i) == DetectsAt(h, ws, tm, i) /\ ~DetectsAt(h, ws, tm, i - 1)
\* What it knows after the first n of them.
Look(h, ws, tm, n) ==
    [acq |-> AcquiredBy(h, ws, n), prev |-> DetectsAt(h, ws, tm, n),
     hit |-> \E i \in 1..n : ComesTrue(h, ws, tm, i)]

\* The truth the history is kept of: what the condition is, without any memory of
\* the simulator's, and how often it comes true along the worlds ws.
Holds(h, w, tm) ==
    CASE card.hats[h] = "loses" -> ~EyeSees(w)
      [] OTHER -> Detects(h, w, tm, FALSE)
Rises(h, ws, tm) ==
    Cardinality({i \in DOMAIN ws \ {1} : Holds(h, ws[i], tm) /\ ~Holds(h, ws[i - 1], tm)})
\* From the present world and time to the world w at time tm.
Rise(h, w, tm) == IF Holds(h, w, tm) /\ ~Holds(h, world, timer) THEN 1 ELSE 0

\* The world a step acts in: inside a hat, a block first advances it.
Here == IF phase = "hat" THEN AdvanceWorld(card, world) ELSE world

-----------------------------------------------------------------------------
\* _move: with the pre-scan for the active hat before, and the latches of the others after.

\* The robot's true course over the next d, and the poses the code samples on it in
\* the world ws it finds there.
Course(d) == [i \in 1..(Apart(0, d) + 1) |-> IF i = 1 THEN Here ELSE Driven(card, Here, Sign(d) * (i - 1))]
Samples(ws, d) ==
    [i \in 1..(Max({1, Apart(0, d)}) + 1) |->
        [ws EXCEPT !.pos = Here.pos + Here.hd * (IF d = 0 THEN 0 ELSE Sign(d) * (i - 1))]]

\* Where the active hat's own drive meets a new detection of it: the drive ends at the
\* first.  `at` is what the timer shows then: a wait has advanced it before the move is made,
\* a drive of its own advances it afterwards.
Cuts(d, at) == {i \in 0..Apart(0, d) : ComesTrue(active, Samples(Here, d), at, i + 1)}
CutShort(d, at) == active # 0 /\ Cuts(d, at) # {}
Length(d, at) == IF CutShort(d, at) THEN Sign(d) * Min(Cuts(d, at)) ELSE d

\* Mutant: hats look only between blocks.
NoLatching == {}
\* The hats that look along the move, and what they remember of it.
Latching == hats \ {active}
Seen(h, d, end, at, tm) ==
    IF h \in Latching THEN Look(h, Samples(end, d), tm, Len(Samples(end, d)))
    ELSE IF h = active THEN Look(h, Samples(Here, d), at, Apart(0, d) + 1)
    ELSE [acq |-> h \in acquired, prev |-> prev[h], hit |-> FALSE]

Nearer(places, course, old) ==
    [i \in DOMAIN places |->
        LET was == IF i \in DOMAIN old THEN {old[i]} ELSE {}
        IN  IF places[i].edge = Nowhere THEN 0
            ELSE Min(was \cup {Apart(course[k].pos, places[i].edge) : k \in DOMAIN course})]

\* The history of a move or a turn along the worlds ws, at time tm.
Recorded(ws, tm, drive) ==
    /\ owed' = [h \in hats |-> IF drive /\ Rises(h, ws, tm) > 0 THEN "new" ELSE owed[h]]
    /\ spare' = [h \in hats |-> spare[h] + Rise(h, ws[1], tm) + Rises(h, ws, tm)]
    /\ low' = Nearer(Here.placed, ws, low)

\* The robot drives d; the timer shows `at` when it sets out and `tm` when it is there.
Move(d, at, tm) ==
    LET e == Length(d, at)
        end == Driven(card, Here, e)
    IN  /\ world' = end
        /\ timer' = tm
        /\ acquired' = acquired \cup {h \in hats : Seen(h, e, end, at, tm).acq}
        /\ latched' = latched \cup {h \in Latching : Seen(h, e, end, at, tm).hit}
        /\ prev' = [h \in hats |-> Seen(h, e, end, at, tm).prev]
        /\ Recorded(Course(e), tm, TRUE)
TimedMove(d) == Move(d, timer, timer + Apart(0, Length(d, timer)))

\* A step of the clock or of the heading that is no move: nobody looks until the next check.
Unmoved(w, tm) ==
    /\ world' = w
    /\ timer' = tm
    /\ Recorded(<<Here, w>>, tm, FALSE)
    /\ UNCHANGED hatState

-----------------------------------------------------------------------------
Init ==
    /\ card \in Cards
    /\ world = AdvanceWorld(card, NewWorld(card))
    /\ timer = 0 /\ pending = 0 /\ parked = NotParked
    /\ prev = [h \in hats |-> FALSE]
    /\ latched = {} /\ acquired = {}
    /\ ready = {} /\ active = 0 /\ restarts = 0 /\ blocks = 0
    /\ phase = "main" /\ back = "main"
    /\ owed = [h \in hats |-> "no"]
    /\ spare = [h \in hats |-> IF card.hats[h] # "loses" /\ Holds(h, world, 0) THEN 1 ELSE 0]
    /\ low = [i \in DOMAIN world.placed |-> world.placed[i].near]

\* Mutant: a hat whose condition still holds fires again.
FreshWhileTrue(h, w) == h \in latched \/ Detects(h, w, timer, h \in acquired)

\* fire_ready_sensor_hats: who has a new detection, latched or in the present world.
Fresh(h, w) ==
    \/ h \in latched
    \/ /\ Detects(h, w, timer, h \in acquired \/ Acquires(h, w))
       /\ ~prev[h]
Check(w, next) ==
    LET looks == hats \ latched
    IN  /\ ready' = {h \in hats : Fresh(h, w)}
        /\ acquired' = acquired \cup {h \in looks : Acquires(h, w)}
        /\ prev' = [h \in hats |-> IF h \in looks
                                   THEN Detects(h, w, timer, h \in acquired \/ Acquires(h, w)) ELSE prev[h]]
        /\ owed' = [h \in hats |-> IF owed[h] = "new" THEN "due" ELSE owed[h]]
        /\ spare' = [h \in hats |-> spare[h] + Rise(h, w, timer)]
        /\ phase' = "serve" /\ back' = next
        /\ UNCHANGED latched

\* The head of execute_block, outside the hats: budget, world, hats.
InBudget == blocks < ExecutionBudget
Executes(next) ==
    /\ InBudget
    /\ blocks' = blocks + 1
    /\ LET w == AdvanceWorld(card, world)
       IN  /\ world' = w
           /\ Check(w, next)
           /\ low' = Nearer(w.placed, <<world>>, low)
    /\ UNCHANGED <<card, timer, pending, parked, active, restarts>>

NextBlock == phase = "main" /\ Executes("block")

\* Cooperative: the other stack executes a block while the main one is parked.
OtherStack == phase = "clock" /\ Executes("clock")

BudgetStop ==
    /\ phase \in {"main", "clock", "hat"} /\ ~InBudget
    /\ phase' = "stopped"
    /\ UNCHANGED <<card, world, timer, pending, parked, hatState, ready, active, restarts, blocks, back, history>>

\* The next ready hat starts, in the order of the document, or all have been served.
Fires(h) ==
    /\ spare' = [spare EXCEPT ![h] = @ - 1]
    /\ owed' = [owed EXCEPT ![h] = "no"]
    /\ UNCHANGED low
Serve ==
    /\ phase = "serve"
    /\ IF ready = {}
       THEN /\ phase' = back
            /\ UNCHANGED <<latched, active, ready, history>>
       ELSE /\ active' = Min(ready) /\ ready' = ready \ {active'}
            /\ latched' = latched \ {active'}
            /\ Fires(active')
            /\ phase' = "hat"
    /\ restarts' = 0
    /\ UNCHANGED <<card, world, timer, pending, parked, prev, acquired, blocks, back>>

\* The stack of the active hat is over; its condition now is the new baseline.
HatOver ==
    /\ active' = 0 /\ phase' = "serve"
    /\ acquired' = acquired \cup (IF Acquires(active, world) THEN {active} ELSE {})
    /\ prev' = [prev EXCEPT ![active] = Detects(active, world, timer, active \in acquired \/ Acquires(active, world))]
HatEnd ==
    /\ phase = "hat"
    /\ HatOver
    /\ UNCHANGED <<card, world, timer, pending, parked, latched, ready, restarts, blocks, back, history>>

\* A drive that was cut raises _HatRestartSignal: the stack runs again from the top,
\* at most Unroll times.
Restart ==
    /\ phase = "restart"
    /\ restarts' = restarts + 1
    /\ IF restarts' >= Unroll
       THEN HatOver /\ owed' = [owed EXCEPT ![active] = "no"] /\ UNCHANGED <<spare, low>>
       ELSE phase' = "hat" /\ Fires(active) /\ UNCHANGED <<active, acquired, prev>>
    /\ UNCHANGED <<card, world, timer, pending, parked, latched, ready, blocks, back>>

-----------------------------------------------------------------------------
\* The blocks, of the main stack or of the active hat.  Inside a hat the world
\* advances at each block but no other hat is looked at.

Block(name) ==
    \/ phase = "block" /\ name \in Menu /\ UNCHANGED blocks
    \/ phase = "hat" /\ name \in HatMenu /\ InBudget /\ blocks' = blocks + 1
Continues(cut) == phase' = IF phase = "block" THEN "main" ELSE IF cut THEN "restart" ELSE "hat"
Parks == phase = "block" /\ card.coop

Park(kind, sign, left) ==
    /\ parked' = [kind |-> kind, sign |-> sign, left |-> left]
    /\ phase' = "clock"
    /\ UNCHANGED <<card, world, timer, hatState, ready, active, restarts, back, history>>

DriveFor(s, d) ==
    /\ Block("drive_for")
    /\ pending' = 0
    /\ IF Parks THEN Park("drive", s, d)
       ELSE /\ TimedMove(s * d)
            /\ Continues(CutShort(s * d, timer))
            /\ UNCHANGED <<card, parked, ready, active, restarts, back>>

Wait(t) ==
    /\ Block("wait")
    /\ UNCHANGED pending
    /\ IF Parks THEN Park("time", 1, t)
       ELSE /\ IF pending = 0
               THEN Unmoved(Here, timer + t) /\ Continues(FALSE)
               ELSE /\ Move(pending * t, timer + t, timer + t)
                    /\ Continues(CutShort(pending * t, timer + t))
            /\ UNCHANGED <<card, parked, ready, active, restarts, back>>

TurnFor ==
    /\ Block("turn_for")
    /\ pending' = 0
    /\ Unmoved(Turned(Here), timer + 1)
    /\ Continues(FALSE)
    /\ UNCHANGED <<card, parked, ready, active, restarts, back>>

Drive(s) ==
    /\ Block("drive")
    /\ pending' = s
    /\ Unmoved(Here, timer)
    /\ Continues(FALSE)
    /\ UNCHANGED <<card, parked, ready, active, restarts, back>>

StopDriving ==
    /\ Block("stop")
    /\ pending' = 0
    /\ Unmoved(Stopped(Here), timer)
    /\ Continues(FALSE)
    /\ UNCHANGED <<card, parked, ready, active, restarts, back>>

ResetTimer ==
    /\ Block("reset_timer")
    /\ Unmoved(Here, 0)
    /\ Continues(FALSE)
    /\ UNCHANGED <<card, pending, parked, ready, active, restarts, back>>

\* Cooperative: a slice of what the main stack is parked on (_commit_slice).
Slice(k) ==
    /\ phase = "clock" /\ k <= parked.left
    /\ IF parked.kind = "drive" THEN Move(parked.sign * k, timer + k, timer + k)
       ELSE IF pending # 0 THEN Move(pending * k, timer + k, timer + k)
       ELSE Unmoved(Here, timer + k)
    /\ parked' = IF k = parked.left THEN NotParked ELSE [parked EXCEPT !.left = @ - k]
    /\ phase' = IF k = parked.left THEN "main" ELSE "clock"
    /\ UNCHANGED <<card, pending, ready, active, restarts, blocks, back>>

-----------------------------------------------------------------------------
\* The end of the program: one more look at the hats, then the armed drive.

EndProgram ==
    /\ phase = "main"
    /\ Check(world, "finish")
    /\ UNCHANGED <<card, world, timer, pending, parked, active, restarts, blocks, low>>

RunOff(sign) == pending' = 0 /\ TimedMove(sign * FieldCap) /\ phase' = "done"

\* finish_pending_motion: the first detection of a hat ahead, if there are hats.
MarchWorld(d) == [world EXCEPT !.pos = @ + pending * world.hd * d]
Marched(d) == [i \in 1..d |-> MarchWorld(i)]
Detections ==
    {d \in 1..FieldCap :
        \E h \in hats : DetectsAt(h, Marched(d), timer, d)}
FinishPendingMotion ==
    /\ phase = "finish"
    /\ IF pending = 0
       THEN phase' = "done" /\ UNCHANGED <<world, timer, pending, hatState, history>>
       ELSE IF Detections = {} THEN RunOff(pending)
       ELSE TimedMove(pending * Min(Detections)) /\ pending' = 0 /\ phase' = "reached"
    /\ UNCHANGED <<card, parked, ready, active, restarts, blocks, back>>

\* ... the robot is there: fire_ready_sensor_hats, and then see what is armed.
Reached ==
    /\ phase = "reached"
    /\ Check(world, "left")
    /\ UNCHANGED <<card, world, timer, pending, parked, active, restarts, blocks, low>>
Left ==
    /\ phase = "left"
    /\ IF pending = 0 THEN phase' = "done" /\ UNCHANGED <<world, timer, pending, hatState, history>>
       ELSE RunOff(pending)
    /\ UNCHANGED <<card, parked, ready, active, restarts, blocks, back>>

Next ==
    \/ NextBlock \/ OtherStack \/ BudgetStop \/ Serve \/ HatEnd \/ Restart
    \/ \E s \in Signs : (\E d \in Lengths : DriveFor(s, d)) \/ Drive(s)
    \/ \E t \in Waits : Wait(t)
    \/ TurnFor \/ StopDriving \/ ResetTimer
    \/ \E k \in 1..parked.left : Slice(k)
    \/ EndProgram \/ FinishPendingMotion \/ Reached \/ Left

Spec == Init /\ [][Next]_vars

-----------------------------------------------------------------------------
Phases == {"main", "block", "serve", "hat", "restart", "clock", "finish", "reached", "left",
           "done", "stopped"}

\* The type of the state the driver keeps.  A hat is active exactly while it is served.
TypeOK ==
    /\ timer \in Nat /\ pending \in {-1, 0, 1} /\ blocks \in 0..ExecutionBudget
    /\ latched \subseteq hats /\ acquired \subseteq {h \in hats : card.hats[h] = "loses"}
    /\ prev \in [hats -> BOOLEAN] /\ restarts \in 0..Unroll
    /\ phase \in Phases /\ back \in {"main", "block", "clock", "finish", "left"}
    /\ phase \in {"hat", "restart"} => active \in hats
    /\ phase \notin {"hat", "restart", "stopped"} => active = 0
    /\ parked.left > 0 <=> parked.kind # "none"

Unanswered == \E h \in hats : owed[h] = "due"
Between == phase \notin {"serve", "hat", "restart", "stopped"}

\* "a body the cone sweeps over -- or the bumper hits -- MID-DRIVE must latch the hat even
\* though execution joins at the next block boundary": after the hats have been looked at
\* between two blocks, whatever came true along an earlier move has been answered by a firing
\* of its hat (or by its capped restart), also when another hat's stack made the move.
NoEdgeForgotten == ~card.push /\ Between => ~Unanswered

\* The same of every world, pushed pieces included, as the comment says it.
SweptBodyLatches == Between => ~Unanswered

\* "a continuously-true condition is ONE edge": a hat's stack has never been started or
\* restarted more often than its condition has come true, by whatever made it: a move or a turn
\* of any stack, the clock, a piece or a boundary placed.
ContinuousTruthFiresOnce == ~card.push => \A h \in hats : spare[h] >= 0

\* `retreated_mm` is a real retreat: an event that waits for one fires only when the robot is
\* that much further from the edge placed before than it has ever been since, although
\* the simulator looks at the distance only once per executed block.
RetreatIsReal ==
    [][\A i \in DOMAIN world'.placed \ DOMAIN world.placed :
         \E e \in Range(card.events) :
            /\ e.id = world'.placed[i].id
            /\ e.retreat # Never =>
                 \E j \in DOMAIN low :
                    /\ world.placed[j].id = e.after
                    /\ Apart(world.pos, world.placed[j].edge) - low[j] >= e.retreat]_vars

\* A pushed piece stays on its side of the robot, whichever way it drives: it is carried off
\* the island or left behind, never passed through.
PieceIsNeverRunOver ==
    [][(/\ card.push /\ world.piece = "live" /\ world'.piece # "pending"
        /\ world'.waiting = world.waiting /\ world.px # world.pos)
       => (world.px < world.pos <=> world'.px < world'.pos)]_vars
=============================================================================
