------------------------------ MODULE Sequencer ------------------------------
(***************************************************************************)
(* The cooperative scheduler of goal_strategy: _Sequencer and the blocks   *)
(* of _Simulator.execute_block it interleaves                              *)
(* (goal_strategy/detector/simulation/simulate_path.py).                   *)
(*                                                                         *)
(* One thread per when_started stack.  A thread is a Python generator that *)
(* runs until it parks (on a blocking motion, a wait, a condition) or      *)
(* yields at a loop's back edge; the sweep resumes every runnable thread   *)
(* round-robin until none is left, then the clock jumps to the next event. *)
(* The program is not fixed: a running thread may execute any block of     *)
(* Menu with any of its arguments, so a run covers every program over      *)
(* those blocks.  Sensor hats are not part of this module.                 *)
(*                                                                         *)
(* Units: velocities are 1, so a distance, an angle and a time are all     *)
(* integers of one unit, the grain at which the march solvers look.        *)
(***************************************************************************)
EXTENDS Integers, Sequences

CONSTANTS
    N,                \* the number of threads, in document order
    Policy,           \* superseded_motion: what becomes of a motion's owner
    Losers,           \* lockout_losers: the threads OI-7 keeps off the drivetrain
    Menu,             \* the kinds of block the programs of this instance use
    Signs, Lengths,   \* of drive_for, turn_for, drive and turn
    Targets,          \* of turn_to_rotation
    Waits, Conds,     \* of wait and wait_until
    Values,           \* a variable can be set to
    Keys, Receivers,  \* broadcast options, and how many stacks each one runs
    ExecutionBudget,  \* execution_budget_blocks
    Budgeted, TimeBudget,  \* time_budget_s, when it is not None
    LoopTick, Frame,  \* the loop clock (0: off) and the takeover frame
    FieldCap,         \* 4 x field radius: the runoff and the drive march cap
    Circle, Quarter   \* 360 degrees, the turn march cap, and 90 degrees

Threads  == 1..N
Modes    == {"drive", "turn"}
Policies == {"truncate_and_resume", "truncate_and_park", "resume_after"}

DrivetrainBlocks == {"drive_for", "turn_for", "turn_to_rotation", "drive", "turn",
                     "stop", "set_heading"}
OtherBlocks == {"wait", "wait_until", "loop", "broadcast", "break", "stop_project",
                "reset_timer", "set_variable", "instant"}

NoCond == [kind |-> "none", k |-> 0]
CondKinds == {"position", "heading", "rotation", "timer", "variable", "drive_done",
              "drive_moving"}
CondType == [kind : CondKinds, k : Int]

ASSUME NAssumption == N \in Nat \ {0}
ASSUME PolicyAssumption == Policy \in Policies
\* All when_started stacks but one lose, or none does.
ASSUME LosersAssumption == Losers = {} \/ \E winner \in Threads : Losers = Threads \ {winner}
ASSUME MenuAssumption ==
    /\ Menu \subseteq DrivetrainBlocks \cup OtherBlocks
    /\ Signs \subseteq {-1, 1}
    /\ Lengths \subseteq Nat
    /\ Targets \subseteq Int
    /\ Waits \subseteq Nat \ {0}
    /\ Conds \subseteq CondType
    /\ Values \subseteq Int
    /\ Receivers \in [Keys -> Nat]
ASSUME BoundAssumption ==
    /\ ExecutionBudget \in Nat
    /\ Budgeted \in BOOLEAN /\ TimeBudget \in Nat
    /\ LoopTick \in Nat /\ Frame \in Nat
    /\ FieldCap \in Nat \ {0}
    /\ Circle \in Nat \ {0} /\ Quarter \in Nat \ {0}

VARIABLES
    status, wake, cond,   \* per thread: _SeqThread.status, .wake_remaining, .park
    frames,               \* per thread: the broadcasts its generator is inside of
    active, resumeQ,      \* _Sequencer.active and .resume_queue
    pending,              \* the armed continuous motion (pending_drive_dir, ...)
    running, cursor,      \* the thread whose generator runs; the sweep's place
    phase, gating,        \* where run() is; the threads it is about to gate
    writers, flags,       \* _phase_writers, and what the result reports
    pos, rot, now, timer, \* the world: pose, sim_time_s, timer_s
    var,                  \* a program variable
    activeB,              \* active_broadcasts
    blocks                \* blocks_executed

threadVars == <<status, wake, cond>>
driveVars  == <<active, resumeQ, pending>>
worldVars  == <<pos, rot, now, timer>>
schedVars  == <<cursor, phase, gating>>
vars == <<threadVars, frames, driveVars, running, schedVars, writers, flags,
          worldVars, var, activeB, blocks>>

-----------------------------------------------------------------------------
(***************************************************************************)
(* The drivetrain and the clock.                                           *)
(***************************************************************************)
NoMotion  == [thread |-> 0, mode |-> "idle", sign |-> 0, left |-> 0]
NoPending == [mode |-> "idle", sign |-> 0]
Blocking  == active.thread # 0
Armed     == pending.mode # "idle"

\* Mutant: time passes but an armed motion does not run with it.
ArmedIgnored == active.mode

\* _motion_state: the blocking motion first, else the armed one.
MotionMode == IF Blocking THEN active.mode ELSE pending.mode
MotionSign == IF Blocking THEN active.sign ELSE pending.sign

\* The robot is displaced by d under the motion (mode, sign).
Displaced(mode, sign, d) ==
    /\ pos' = IF mode = "drive" THEN pos + sign * d ELSE pos
    /\ rot' = IF mode = "turn" THEN rot + sign * d ELSE rot

Elapsed(d) == now' = now + d /\ timer' = timer + d

\* Mutant: the last interval is not cut.
Untruncated(d) == d

\* What a time budget leaves of an interval (_move, _advance_clock).
InBudget(d) == IF Budgeted /\ TimeBudget - now < d
               THEN IF TimeBudget > now THEN TimeBudget - now ELSE 0
               ELSE d
OverTime == Budgeted /\ now >= TimeBudget

\* What the reporters of a wait_until's condition read (_eval_expression); a
\* condition is that one of them has reached k.  The heading goes round, the
\* drive rotation accumulates.
Bit(b) == IF b THEN 1 ELSE 0
Readings(p, h, r, tm, blocking, moving) ==
    [position |-> p, heading |-> h % Circle, rotation |-> r, timer |-> tm, variable |-> var,
     drive_done |-> Bit(~blocking), drive_moving |-> Bit(moving)]
World == Readings(pos, rot, rot, timer, Blocking, Blocking \/ Armed)
Holds(c, w) == w[c.kind] >= c.k
HoldsNow(c) == Holds(c, World)

-----------------------------------------------------------------------------
Init ==
    /\ status = [t \in Threads |-> "runnable"]
    /\ wake = [t \in Threads |-> 0]
    /\ cond = [t \in Threads |-> NoCond]
    /\ frames = [t \in Threads |-> <<>>]
    /\ active = NoMotion
    /\ resumeQ = <<>>
    /\ pending = NoPending
    /\ running = 0
    /\ cursor = 0
    /\ phase = "sweep"
    /\ gating = {}
    /\ writers = {}
    /\ flags = {}
    /\ pos = 0 /\ rot = 0 /\ now = 0 /\ timer = 0
    /\ var = 0
    /\ activeB = {}
    /\ blocks = 0

-----------------------------------------------------------------------------
(***************************************************************************)
(* The sweep: _advance_runnables goes over the threads in document order,  *)
(* pass after pass, so the next thread it resumes is the first runnable    *)
(* one after the last, cyclically.                                         *)
(***************************************************************************)
Runnable == {t \in Threads : status[t] = "runnable"}
Parked   == {t \in Threads : status[t] \in {"parked_motion", "parked_time", "parked_cond"}}
CondParked == {t \in Threads : status[t] = "parked_cond"}
Between(a, b) == {u \in Runnable : a < u /\ u < b}

\* Mutant: every resumption restarts the pass.
FirstRunnable(t) == t \in Runnable /\ Between(0, t) = {}

NextInSweep(t) ==
    /\ t \in Runnable
    /\ \/ cursor < t /\ Between(cursor, t) = {}
       \/ t <= cursor /\ Between(cursor, N + 1) = {} /\ Between(0, t) = {}

Resume(t) ==
    /\ phase = "sweep" /\ running = 0
    /\ NextInSweep(t)
    /\ running' = t
    /\ cursor' = t
    /\ UNCHANGED <<threadVars, frames, driveVars, phase, gating, writers, flags,
                   worldVars, var, activeB, blocks>>

-----------------------------------------------------------------------------
(***************************************************************************)
(* execute_block.  Its preamble counts the block and stops the run when a  *)
(* budget is used up; then comes the lockout; then the block itself.       *)
(***************************************************************************)
WithinBudgets == blocks < ExecutionBudget /\ ~OverTime

Executes(op) ==
    /\ running # 0
    /\ op \in Menu
    /\ WithinBudgets
    /\ blocks' = blocks + 1

BudgetStop ==
    /\ running # 0
    /\ ~WithinBudgets
    /\ blocks' = blocks + 1
    /\ phase' = "stopped"
    /\ running' = 0
    /\ UNCHANGED <<threadVars, frames, driveVars, cursor, gating, writers, flags,
                   worldVars, var, activeB>>

\* Mutant: the lockout looks at the root the sweep entered last, also while a gated
\* thread runs on.
StaleRoot(op) == cursor \notin Losers /\ Executes(op)

Commands(op) == running \notin Losers /\ Executes(op)

\* A yield of the running generator.  A thread being gated was resumed by
\* throw(): whatever it yields is dropped and the thread is gated.
Yielded(st, parked) ==
    [st EXCEPT ![running] = IF phase = "gate" THEN "gated" ELSE parked]

\* Mutant: the frame is charged to an idle drivetrain too.
FrameEvenIdle == IF LoopTick > 0 THEN Frame ELSE 0

\* _takeover_pending: the armed motion is cleared and, under the loop clock,
\* granted one frame.
Overrun == IF Armed /\ LoopTick > 0 THEN Frame ELSE 0

TakeoverPending ==
    /\ Displaced(pending.mode, pending.sign, Overrun)
    /\ Elapsed(Overrun)

\* Mutant: the owner of the superseded motion is not told.
StillParked == status

\* notify_drivetrain_command: an active blocking motion is superseded and
\* its owner dealt with as the policy says.
Superseded ==
    IF ~Blocking THEN status
    ELSE [status EXCEPT ![active.thread] =
            CASE Policy = "truncate_and_resume" -> "runnable"
              [] Policy = "truncate_and_park"   -> "gated"
              [] OTHER                          -> @]

\* Mutant: the interrupted motion is forgotten.
QueueForgotten == resumeQ

Interrupted ==
    IF Blocking /\ Policy = "resume_after" THEN Append(resumeQ, active) ELSE resumeQ

NotifyDrivetrainCommand ==
    /\ resumeQ' = Interrupted
    /\ writers' = writers \cup {running}
    /\ flags' = flags
         \cup (IF Blocking THEN {"motion_superseded"} ELSE {})
         \cup (IF writers \cup {running} # {running} THEN {"drivetrain_contention"} ELSE {})

\* drive_for, turn_for and the turns to a heading or rotation: take over,
\* supersede, park on the motion.
BlockingMotion(mode, sign, length) ==
    /\ TakeoverPending
    /\ NotifyDrivetrainCommand
    /\ pending' = NoPending
    /\ active' = IF phase = "gate" THEN NoMotion
                 ELSE [thread |-> running, mode |-> mode, sign |-> sign, left |-> length]
    /\ status' = Yielded(Superseded, "parked_motion")
    /\ running' = 0
    /\ UNCHANGED <<wake, cond, frames, schedVars, var, activeB>>

DriveFor(sign, length) == Commands("drive_for") /\ BlockingMotion("drive", sign, length)
TurnFor(sign, length)  == Commands("turn_for") /\ BlockingMotion("turn", sign, length)

\* Mutant: the angle keeps its sign.
SignedTurn(target) ==
    /\ Commands("turn_to_rotation")
    /\ LET delta == target - rot'
       IN  BlockingMotion("turn", IF delta > 0 THEN 1 ELSE -1, delta)

\* The angle is measured after the takeover frame has turned the robot.
TurnToRotation(target) ==
    /\ Commands("turn_to_rotation")
    /\ LET delta == target - rot'
       IN  BlockingMotion("turn", IF delta > 0 THEN 1 ELSE -1,
                          IF delta > 0 THEN delta ELSE -delta)

\* Mutant: the direction is not compared.
SameMode(mode, sign) == pending.mode = mode

Reissued(mode, sign) == pending = [mode |-> mode, sign |-> sign]

\* drive and turn: arm a continuous motion and go on.  Re-issuing the armed
\* one changes nothing.
ContinuousMotion(mode, sign) ==
    IF Reissued(mode, sign)
    THEN UNCHANGED <<threadVars, frames, driveVars, running, schedVars, writers, flags,
                     worldVars, var, activeB>>
    ELSE /\ TakeoverPending
         /\ NotifyDrivetrainCommand
         /\ status' = Superseded
         /\ active' = NoMotion
         /\ pending' = [mode |-> mode, sign |-> sign]
         /\ UNCHANGED <<wake, cond, frames, running, schedVars, var, activeB>>

Drive(sign) == Commands("drive") /\ ContinuousMotion("drive", sign)
Turn(sign)  == Commands("turn") /\ ContinuousMotion("turn", sign)

StopDriving ==
    /\ Commands("stop")
    /\ TakeoverPending
    /\ NotifyDrivetrainCommand
    /\ status' = Superseded
    /\ active' = NoMotion
    /\ pending' = NoPending
    /\ UNCHANGED <<wake, cond, frames, running, schedVars, var, activeB>>

\* Relabelling the gyro takes over an armed motion and leaves a blocking one.
SetHeading ==
    /\ Commands("set_heading")
    /\ TakeoverPending
    /\ pending' = NoPending
    /\ UNCHANGED <<threadVars, frames, active, resumeQ, running, schedVars, writers,
                   flags, var, activeB>>

-----------------------------------------------------------------------------
(***************************************************************************)
(* Waiting, looping and the rest of the blocks.                            *)
(***************************************************************************)
ParkTime(seconds) ==
    /\ status' = Yielded(status, IF seconds = 0 THEN "runnable" ELSE "parked_time")
    /\ wake' = [wake EXCEPT ![running] = IF phase = "gate" THEN @ ELSE seconds]
    /\ running' = 0
    /\ UNCHANGED <<cond, frames, driveVars, schedVars, writers, flags, worldVars, var,
                   activeB>>

Wait(seconds) == Executes("wait") /\ ParkTime(seconds)

\* One pass of a loop and its back edge: a bare yield with the loop clock off
\* or a body that used up the tick, else a time park for what is left of it.
LoopPass(rest) == Executes("loop") /\ ParkTime(rest)

WaitUntil(c) ==
    /\ Executes("wait_until")
    /\ IF HoldsNow(c)
       THEN UNCHANGED <<threadVars, running>>
       ELSE /\ status' = Yielded(status, "parked_cond")
            /\ cond' = [cond EXCEPT ![running] = IF phase = "gate" THEN @ ELSE c]
            /\ running' = 0
            /\ UNCHANGED wake
    /\ UNCHANGED <<frames, driveVars, schedVars, writers, flags, worldVars, var, activeB>>

ResetTimer ==
    /\ Executes("reset_timer")
    /\ timer' = 0
    /\ UNCHANGED <<threadVars, frames, driveVars, running, schedVars, writers, flags,
                   pos, rot, now, var, activeB>>

SetVariable(v) ==
    /\ Executes("set_variable")
    /\ var' = v
    /\ UNCHANGED <<threadVars, frames, driveVars, running, schedVars, writers, flags,
                   worldVars, activeB>>

\* Blocks that change nothing of this: the pen, the magnet, a velocity and, under the
\* OI-7 lockout, every drivetrain command of a losing stack, which is skipped.
Uneventful == {"instant"} \cup {op \in DrivetrainBlocks : running \in Losers}

Instant ==
    /\ \E op \in Uneventful : Executes(op)
    /\ UNCHANGED <<threadVars, frames, driveVars, running, schedVars, writers, flags,
                   worldVars, var, activeB>>

-----------------------------------------------------------------------------
(***************************************************************************)
(* Broadcasts run their receivers inline, one after another, under a guard *)
(* that suppresses a key already being broadcast.  A frame is a broadcast  *)
(* the thread is inside of: its key and the receivers not yet finished.    *)
(***************************************************************************)
Broadcast(k) ==
    /\ Executes("broadcast")
    /\ IF Receivers[k] = 0 \/ k \in activeB
       THEN /\ flags' = IF Receivers[k] = 0 THEN flags
                        ELSE flags \cup {"broadcast_recursion_suppressed"}
            /\ UNCHANGED <<frames, activeB>>
       ELSE /\ activeB' = activeB \cup {k}
            /\ frames' = [frames EXCEPT ![running] =
                            <<[key |-> k, left |-> Receivers[k]]>> \o @]
            /\ UNCHANGED flags
    /\ UNCHANGED <<threadVars, driveVars, running, schedVars, writers, worldVars, var>>

\* Mutant: the guard is released with the first receiver.
GuardReleasedEarly(t) ==
    LET f == Head(frames[t])
    IN  /\ frames' = [frames EXCEPT ![t] =
                        IF f.left > 1 THEN <<[f EXCEPT !.left = @ - 1]>> \o Tail(@)
                                      ELSE Tail(@)]
        /\ activeB' = activeB \ {f.key}

\* The receiver that thread t is in ends: the next one of the key starts, or
\* the broadcast returns and the guard is released.
ReceiverLeft(t) ==
    LET f == Head(frames[t])
    IN  IF f.left > 1
        THEN /\ frames' = [frames EXCEPT ![t] = <<[f EXCEPT !.left = @ - 1]>> \o Tail(@)]
             /\ UNCHANGED activeB
        ELSE /\ frames' = [frames EXCEPT ![t] = Tail(@)]
             /\ activeB' = activeB \ {f.key}

ReceiverEnd ==
    /\ running # 0 /\ frames[running] # <<>>
    /\ ReceiverLeft(running)
    /\ UNCHANGED <<threadVars, driveVars, running, schedVars, writers, flags,
                   worldVars, var, blocks>>

\* A break outside any loop ends the receiver it is in, else the stack.
Break ==
    /\ Executes("break")
    /\ IF frames[running] # <<>>
       THEN ReceiverLeft(running) /\ UNCHANGED <<status, running>>
       ELSE /\ status' = [status EXCEPT ![running] = "gated"]
            /\ running' = 0
            /\ UNCHANGED <<frames, activeB>>
    /\ UNCHANGED <<wake, cond, driveVars, schedVars, writers, flags, worldVars, var>>

EndStack ==
    /\ running # 0 /\ frames[running] = <<>>
    /\ status' = [status EXCEPT ![running] = "done"]
    /\ running' = 0
    /\ UNCHANGED <<wake, cond, frames, driveVars, schedVars, writers, flags, worldVars,
                   var, activeB, blocks>>

StopProject ==
    /\ Executes("stop_project")
    /\ phase' = "stopped"
    /\ running' = 0
    /\ UNCHANGED <<threadVars, frames, driveVars, cursor, gating, writers, flags,
                   worldVars, var, activeB>>

Step ==
    \/ BudgetStop
    \/ \E s \in Signs, d \in Lengths : DriveFor(s, d) \/ TurnFor(s, d)
    \/ \E r \in Targets : TurnToRotation(r)
    \/ \E s \in Signs : Drive(s) \/ Turn(s)
    \/ StopDriving \/ SetHeading
    \/ \E w \in Waits : Wait(w)
    \/ \E r \in 0..LoopTick : LoopPass(r)
    \/ \E c \in Conds : WaitUntil(c)
    \/ ResetTimer \/ Instant
    \/ \E v \in Values : SetVariable(v)
    \/ \E k \in Keys : Broadcast(k)
    \/ ReceiverEnd \/ Break \/ EndStack \/ StopProject

-----------------------------------------------------------------------------
(***************************************************************************)
(* The clock: nothing is runnable, so _advance_clock looks for the next    *)
(* event.                                                                  *)
(***************************************************************************)
Quiescent == phase = "sweep" /\ running = 0 /\ Runnable = {}
Waiting == Quiescent /\ Parked # {}

\* Mutant: sleepers make no events.
NoWakes == {}

Completion == IF Blocking THEN {active.left} ELSE {}
Wakes == {wake[t] : t \in {u \in Threads : status[u] = "parked_time"}}
Bounded(d) == \A e \in Completion \cup Wakes : d <= e

\* Mutant: the march stops short of its cap.
ShortMarch == IF MotionMode = "drive" THEN FieldCap - 1
              ELSE IF MotionMode = "turn" THEN Circle - 1 ELSE 0

\* The march solvers look ahead along the motion only: they move the position
\* or the heading, not the drive rotation and not the clock, and no further
\* than the cap and the other events.
MarchCap == IF MotionMode = "drive" THEN FieldCap
            ELSE IF MotionMode = "turn" THEN Circle ELSE 0
Ahead(d) ==
    IF MotionMode = "drive"
    THEN Readings(pos + MotionSign * d, rot, rot, timer, Blocking, TRUE)
    ELSE Readings(pos, rot + MotionSign * d, rot, timer, Blocking, TRUE)

CondEvents ==
    UNION {IF HoldsNow(cond[t]) THEN {0}
           ELSE {d \in 1..MarchCap : Bounded(d) /\ Holds(cond[t], Ahead(d))} : t \in CondParked}

Events == Completion \cup Wakes \cup CondEvents

ClockBudgetStop ==
    /\ Waiting /\ Events # {} /\ OverTime
    /\ phase' = "stopped"
    /\ UNCHANGED <<threadVars, frames, driveVars, running, cursor, gating, writers, flags,
                   worldVars, var, activeB, blocks>>

\* Mutants: a motion is not over at its end; any slice ends it.
NeverCompletes(dt) == Blocking /\ active.left < dt
AnySliceCompletes(dt) == Blocking

\* A sleep is over in this slice.
Rested(t, dt) == status[t] = "parked_time" /\ wake[t] <= dt

\* The active motion completes in this slice; under resume_after the oldest
\* interrupted motion takes the drivetrain back.
Completes(dt) == Blocking /\ active.left <= dt
Resumes(dt) == Completes(dt) /\ Policy = "resume_after" /\ resumeQ # <<>>

\* Threads whose condition holds in the world the slice ends in.  The first of
\* them clears the armed motion, so a later one no longer sees it moving.
Satisfied ==
    LET after == Readings(pos', rot', rot', timer', active'.thread # 0,
                          active'.thread # 0 \/ Armed)
    IN  {t \in CondParked : Holds(cond[t], after)}
Woken == {t \in Satisfied : \/ cond[t].kind # "drive_moving" \/ active'.thread # 0
                            \/ \A u \in Satisfied : t <= u}

Slice(dt) ==
    /\ Displaced(MotionMode, MotionSign, dt)
    /\ Elapsed(dt)
    /\ active' = IF Resumes(dt) THEN Head(resumeQ)
                 ELSE IF Completes(dt) THEN NoMotion
                 ELSE IF Blocking THEN [active EXCEPT !.left = @ - dt] ELSE active
    /\ resumeQ' = IF Resumes(dt) THEN Tail(resumeQ) ELSE resumeQ
    /\ pending' = IF Woken # {} /\ active'.thread = 0 THEN NoPending ELSE pending
    /\ wake' = [t \in Threads |->
                  IF status[t] = "parked_time" /\ wake[t] > dt THEN wake[t] - dt ELSE 0]
    /\ cond' = [t \in Threads |-> IF t \in Woken THEN NoCond ELSE cond[t]]
    /\ status' = [t \in Threads |->
                    IF \/ Completes(dt) /\ t = active.thread
                       \/ Rested(t, dt)
                       \/ t \in Woken
                    THEN "runnable" ELSE status[t]]

AdvanceClock ==
    /\ Waiting /\ ~OverTime
    /\ \E d \in Events : (\A e \in Events : d <= e) /\ Slice(InBudget(d))
    /\ cursor' = 0
    /\ writers' = {}
    /\ UNCHANGED <<frames, running, phase, gating, flags, var, activeB, blocks>>

-----------------------------------------------------------------------------
(***************************************************************************)
(* No event: the parked conditions are unmet.  _gate_cond throws           *)
(* _CondUnmet into each of them in turn; the wait_until runs the armed     *)
(* drive off the field, flags it and raises a gate, which a broadcast in   *)
(* progress catches: then the thread goes on, to its next yield.           *)
(***************************************************************************)
GateConds ==
    /\ Waiting /\ Events = {} /\ CondParked # {}
    /\ phase' = "gate"
    /\ gating' = CondParked
    /\ UNCHANGED <<threadVars, frames, driveVars, running, cursor, writers, flags,
                   worldVars, var, activeB, blocks>>

Runoff(d) ==
    LET run == InBudget(d)
    IN  Displaced("drive", pending.sign, run) /\ Elapsed(run)

UnmetGate(t) ==
    /\ phase = "gate" /\ running = 0
    /\ t \in gating /\ \A u \in gating : t <= u
    /\ gating' = gating \ {t}
    /\ IF pending.mode = "drive"
       THEN pending' = NoPending /\ Runoff(FieldCap)
       ELSE UNCHANGED <<pending, worldVars>>
    /\ flags' = flags \cup {"wait_until_unmet"}
    /\ cond' = [cond EXCEPT ![t] = NoCond]
    /\ IF frames[t] # <<>>
       THEN ReceiverLeft(t) /\ running' = t /\ UNCHANGED status
       ELSE /\ status' = [status EXCEPT ![t] = "gated"]
            /\ UNCHANGED <<frames, activeB, running>>
    /\ UNCHANGED <<wake, active, resumeQ, cursor, phase, writers, var, blocks>>

GateDone ==
    /\ phase = "gate" /\ running = 0 /\ gating = {}
    /\ phase' = "sweep"
    /\ cursor' = 0
    /\ writers' = {}
    /\ UNCHANGED <<threadVars, frames, driveVars, running, gating, flags, worldVars, var,
                   activeB, blocks>>

-----------------------------------------------------------------------------
(***************************************************************************)
(* The end: run() returns, and what is still armed runs off.               *)
(***************************************************************************)
EndRun ==
    /\ Quiescent
    /\ Parked = {} \/ (Events = {} /\ CondParked = {})
    /\ phase' = "ended"
    /\ UNCHANGED <<threadVars, frames, driveVars, running, cursor, gating, writers, flags,
                   worldVars, var, activeB, blocks>>

FinishPendingMotion ==
    /\ phase = "ended"
    /\ phase' = "finished"
    /\ pending' = NoPending
    /\ IF pending.mode = "drive" THEN Runoff(FieldCap)
       ELSE Displaced(pending.mode, pending.sign, Quarter) /\ UNCHANGED <<now, timer>>
    /\ UNCHANGED <<threadVars, frames, active, resumeQ, running, cursor, gating, writers,
                   flags, var, activeB, blocks>>

Next ==
    \/ \E t \in Threads : Resume(t)
    \/ Step
    \/ AdvanceClock \/ ClockBudgetStop
    \/ GateConds \/ (\E t \in Threads : UnmetGate(t)) \/ GateDone
    \/ EndRun \/ FinishPendingMotion

Spec == Init /\ [][Next]_vars

\* run() is a loop of one Python thread: it takes its next step.
FairSpec == Spec /\ WF_vars(Next)

-----------------------------------------------------------------------------
(***************************************************************************)
(* Properties.                                                             *)
(***************************************************************************)
Statuses == {"runnable", "parked_motion", "parked_time", "parked_cond", "gated", "done"}
MotionType == [thread : Threads, mode : Modes, sign : {-1, 1}, left : Nat]
FlagType == {"motion_superseded", "drivetrain_contention", "wait_until_unmet",
             "broadcast_recursion_suppressed"}

\* The type of every variable, with what the scheduler keeps at zero when it
\* is not in use.
TypeOK ==
    /\ status \in [Threads -> Statuses]
    /\ wake \in [Threads -> Nat]
    /\ cond \in [Threads -> Conds \cup {NoCond}]
    /\ frames \in [Threads -> Seq([key : Keys, left : Nat])]
    /\ active \in MotionType \cup {NoMotion}
    /\ resumeQ \in Seq(MotionType)
    /\ pending \in [mode : Modes, sign : {-1, 1}] \cup {NoPending}
    /\ running \in Threads \cup {0}
    /\ cursor \in Threads \cup {0}
    /\ phase \in {"sweep", "gate", "ended", "finished", "stopped"}
    /\ gating \subseteq Threads
    /\ writers \subseteq Threads
    /\ flags \subseteq FlagType
    /\ pos \in Int /\ rot \in Int /\ now \in Nat /\ timer \in Nat
    /\ var \in Int
    /\ activeB \subseteq Keys
    /\ blocks \in Nat

Queued(t) == \E i \in DOMAIN resumeQ : resumeQ[i].thread = t

\* One motion, one owner (_Sequencer: "Exactly one blocking motion is active at
\* a time"): the thread of the active motion is parked on it and nothing else is
\* armed beside it, and no thread is parked on a motion that neither runs nor is
\* queued to resume -- a superseded owner is always woken, killed or queued.
OneMotionOneOwner ==
    /\ Blocking => status[active.thread] = "parked_motion" /\ ~Armed
    /\ \A t \in Threads :
         status[t] = "parked_motion" <=> (t = active.thread \/ Queued(t))

\* A motion waits in the resume queue once, and never while it is active.
QueueIsDistinct ==
    /\ \A i, j \in DOMAIN resumeQ : resumeQ[i].thread = resumeQ[j].thread => i = j
    /\ \A i \in DOMAIN resumeQ : resumeQ[i].thread # active.thread
    /\ Policy # "resume_after" => resumeQ = <<>>

\* The executing thread is never itself parked, unless it is being gated; the
\* threads about to be gated still wait on their conditions.
RunnerMayRun ==
    /\ running # 0 => /\ phase \in {"sweep", "gate"}
                      /\ status[running] = IF phase = "gate" THEN "parked_cond" ELSE "runnable"
    /\ phase = "gate" => \A t \in gating : status[t] = "parked_cond" /\ t # running

\* Together these are inductive: ownership is kept because a command supersedes
\* the active motion before it claims the drivetrain, a queued motion's owner is
\* not the active one's, and a thread that commands or is gated owns nothing.
Ownership == OneMotionOneOwner /\ QueueIsDistinct /\ RunnerMayRun

\* run() returns only when every thread has ended or was gated: no superseded
\* owner, sleeper or waiter is forgotten (the policies that hold nothing back).
NobodyLeftParked ==
    phase \in {"ended", "finished"} /\ Policy # "resume_after" => Parked = {}

\* The broadcast guard is held exactly by the broadcasts in progress: no key is
\* released by another thread's receiver ending, and none is entered twice.  Nor is one
\* held by a thread that will never run again, where it would suppress a later broadcast
\* of the same message: unless the thread was stopped in the middle of its broadcast,
\* by truncate_and_park or by the gate of an unmet condition.
BroadcastGuard ==
    LET Open == UNION {{t} \X DOMAIN frames[t] : t \in Threads}
        Key(f) == frames[f[1]][f[2]].key
    IN  /\ activeB = {Key(f) : f \in Open}
        /\ \A f, g \in Open : Key(f) = Key(g) => f = g
        /\ Policy # "truncate_and_park" /\ "wait_until" \notin Menu =>
              \A t \in Threads : status[t] \in {"gated", "done"} => frames[t] = <<>>

\* time_budget_s ends the run where the observed run ended: no sleep, motion or
\* runoff carries the clock past it by more than one takeover frame.
ClockWithinBudget ==
    Budgeted => now <= TimeBudget + (IF LoopTick > 0 THEN Frame ELSE 0)

\* A thread comes back from a blocking motion only when the motion has been
\* carried out to its end, or because another thread's command cut it.
MotionReturnsWhenOver ==
    [][\A t \in Threads :
         status[t] = "parked_motion" /\ status'[t] = "runnable"
           => \/ active.thread = t /\ now' = now + active.left
              \/ active.thread = t /\ running \notin {0, t} /\ running \in writers']_vars

\* The world after d more units of the motion under way, clock and all.
Later(d) ==
    Readings(IF MotionMode = "drive" THEN pos + MotionSign * d ELSE pos,
             IF MotionMode = "turn" THEN rot + MotionSign * d ELSE rot,
             IF MotionMode = "turn" THEN rot + MotionSign * d ELSE rot,
             timer + d, Blocking, Blocking \/ Armed)

UnmetIsHopeless(kinds) ==
    phase = "sweep" /\ phase' = "gate" =>
        \A t \in gating', d \in 0..FieldCap :
            cond[t].kind \in kinds => ~Holds(cond[t], Later(d))

\* A wait_until is given up as unmet only when the motion under way would not
\* make its condition true, however long it goes on.
UnmetMotionIsHopeless == [][UnmetIsHopeless({"position", "heading"})]_vars

\* "a gated receiver stalls without stalling its broadcaster": a thread that goes on
\* after its receiver was gated is not gated itself at its next yield.
GatedReceiverSparesBroadcaster ==
    [][\A t \in Threads :
         running = t /\ phase = "gate" /\ running' = 0 => status'[t] # "gated"]_vars

\* Every run ends: the budgets and the slices' progress leave no way to spin,
\* and no thread can be parked for ever on something that does not come.
Terminates == <>(phase \in {"finished", "stopped"})

\* The sequencer keeps the drivetrain's promise (Drivetrain.tla).
Cell ==
    IF Blocking
    THEN [mode |-> active.mode, sign |-> active.sign, left |-> active.left, open |-> FALSE]
    ELSE [mode |-> pending.mode, sign |-> pending.sign, left |-> 0, open |-> Armed]

D == INSTANCE Drivetrain WITH cell <- Cell, Overrun <- (IF LoopTick > 0 THEN Frame ELSE 0)

ImplementsDrivetrain == D!Spec
=============================================================================
