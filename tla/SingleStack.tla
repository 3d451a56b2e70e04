----------------------------- MODULE SingleStack -----------------------------
(***************************************************************************)
(* Gate G3 of the scheduler (docs/archive/BUILD_SPEC.md section 4): on a   *)
(* program with one when_started stack the cooperative scheduler must give *)
(* what the sequential driver gives.  The two run in lockstep: whenever    *)
(* Sequencer's only thread executes a block, the sequential simulator      *)
(* (execute_block with no _sequencer, which moves the robot and the clock  *)
(* inline) executes it too, in its own world.  The loop clock and the time *)
(* budget are off, as simulate_path requires of the sequential driver.     *)
(***************************************************************************)
EXTENDS Sequencer

VARIABLES
    sLive,              \* the sequential driver still runs the stack
    sPos, sRot, sTime, sTimer, sPending, sFrames

seqVars == <<sLive, sPos, sRot, sTime, sTimer, sPending, sFrames>>
seqWorld == <<sPos, sRot, sTime, sTimer>>

ASSUME OneSequentialStack == N = 1 /\ LoopTick = 0 /\ ~Budgeted

SeqInit ==
    /\ sLive = TRUE
    /\ sPos = 0 /\ sRot = 0 /\ sTime = 0 /\ sTimer = 0
    /\ sPending = NoPending
    /\ sFrames = <<>>

\* The robot moves by d along (mode, sign), in d units of time.
SeqDisplaced(mode, sign, d) ==
    /\ sPos' = IF mode = "drive" THEN sPos + sign * d ELSE sPos
    /\ sRot' = IF mode = "turn" THEN sRot + sign * d ELSE sRot
SeqElapsed(d) == sTime' = sTime + d /\ sTimer' = sTimer + d
SeqMoved(mode, sign, d) == SeqDisplaced(mode, sign, d) /\ SeqElapsed(d)

\* A blocking motion is carried out on the spot; what was armed is cleared.
SeqBlocking(mode, sign, d) ==
    SeqMoved(mode, sign, d) /\ sPending' = NoPending /\ UNCHANGED <<sLive, sFrames>>
SeqArm(p) == sPending' = p /\ UNCHANGED <<sLive, seqWorld, sFrames>>

\* A wait lets the armed motion run for its time and leaves it armed.
SeqWait(seconds) ==
    SeqMoved(sPending.mode, sPending.sign, seconds) /\ UNCHANGED <<sLive, sPending, sFrames>>

\* drive_is_done and drive_is_moving are constant without a sequencer.
SeqReadings(p, h) ==
    [position |-> p, heading |-> h % Circle, rotation |-> sRot, timer |-> sTimer,
     variable |-> var, drive_done |-> 1, drive_moving |-> 0]

SeqCap == CASE sPending.mode = "drive" -> FieldCap
            [] sPending.mode = "turn" -> Circle
            [] OTHER -> 0
SeqAhead(d) ==
    IF sPending.mode = "drive" THEN SeqReadings(sPos + sPending.sign * d, sRot)
                               ELSE SeqReadings(sPos, sRot + sPending.sign * d)
Crossings(c) == {d \in 1..SeqCap : Holds(c, SeqAhead(d))}

\* The unmet wait_until raises its gate: out of the innermost receiver, or of the stack.
SeqGate ==
    IF sFrames = <<>> THEN sLive' = FALSE /\ UNCHANGED sFrames
    ELSE LET f == Head(sFrames)
         IN  /\ sFrames' = IF f.left > 1 THEN <<[f EXCEPT !.left = @ - 1]>> \o Tail(sFrames)
                                         ELSE Tail(sFrames)
             /\ UNCHANGED sLive

\* The two drivers part on an unmet wait_until inside a receiver (run Gated_receiver
\* shows what the scheduler does there) and on one with a turn armed, which only the
\* sequential driver clears: those blocks are left out of the comparison.
Comparable(c) ==
    \/ HoldsNow(c) \/ Crossings(c) # {}
    \/ sFrames = <<>> /\ sPending.mode # "turn"

SeqWaitUntil(c) ==
    IF Holds(c, SeqReadings(sPos, sRot)) THEN UNCHANGED seqVars
    ELSE /\ sPending' = NoPending
         /\ IF Crossings(c) # {}
            THEN /\ \E d \in Crossings(c) : (\A e \in Crossings(c) : d <= e)
                                            /\ SeqMoved(sPending.mode, sPending.sign, d)
                 /\ UNCHANGED <<sLive, sFrames>>
            ELSE /\ SeqGate
                 /\ IF sPending.mode = "drive" THEN SeqMoved("drive", sPending.sign, FieldCap)
                                               ELSE UNCHANGED seqWorld

SeqFinish ==
    /\ sPending' = NoPending
    /\ IF sPending.mode = "drive" THEN SeqMoved("drive", sPending.sign, FieldCap)
       ELSE SeqDisplaced(sPending.mode, sPending.sign, Quarter) /\ UNCHANGED <<sTime, sTimer>>
    /\ UNCHANGED <<sLive, sFrames>>

-----------------------------------------------------------------------------
\* The blocks that change the sequential world ...
BothMove ==
    \/ \E s \in Signs : \/ \E d \in Lengths : \/ DriveFor(s, d) /\ SeqBlocking("drive", s, d)
                                              \/ TurnFor(s, d) /\ SeqBlocking("turn", s, d)
                        \/ Drive(s) /\ SeqArm([mode |-> "drive", sign |-> s])
                        \/ Turn(s) /\ SeqArm([mode |-> "turn", sign |-> s])
    \/ \E r \in Targets :
         /\ TurnToRotation(r)
         /\ IF r > sRot THEN SeqBlocking("turn", 1, r - sRot) ELSE SeqBlocking("turn", -1, sRot - r)
    \/ (StopDriving \/ SetHeading) /\ SeqArm(NoPending)
    \/ \E w \in Waits : Wait(w) /\ SeqWait(w)
    \/ \E c \in Conds : Comparable(c) /\ WaitUntil(c) /\ SeqWaitUntil(c)
    \/ ResetTimer /\ sTimer' = 0 /\ UNCHANGED <<sLive, sPos, sRot, sTime, sPending, sFrames>>
    \/ FinishPendingMotion /\ SeqFinish

\* ... those that change the broadcasts it is in ...
BothSignal ==
    /\ (\E k \in Keys : Broadcast(k)) \/ ReceiverEnd \/ Break
    /\ sFrames' = frames'[1]
    /\ sLive' = (sLive /\ status'[1] # "gated")
    /\ UNCHANGED <<seqWorld, sPending>>

\* ... and the steps only the scheduler has.
OnlyScheduler ==
    /\ \/ Resume(1) \/ AdvanceClock \/ GateConds \/ UnmetGate(1) \/ GateDone \/ EndRun
       \/ BudgetStop \/ StopProject \/ EndStack \/ LoopPass(0) \/ Instant
       \/ \E v \in Values : SetVariable(v)
    /\ UNCHANGED seqVars

LockstepSpec ==
    (Init /\ SeqInit) /\ [][BothMove \/ BothSignal \/ OnlyScheduler]_<<vars, seqVars>>

-----------------------------------------------------------------------------
SameWorld == pos = sPos /\ rot = sRot /\ now = sTime /\ timer = sTimer

\* Gate G3: between two blocks of the stack, and when the run is over, the cooperative
\* and the sequential simulation have the same pose, clock, timer and armed motion, are in
\* the same broadcasts, and agree on whether the stack was gated.
SingleStackIdentity ==
    /\ running # 0 => SameWorld /\ sLive /\ pending = sPending /\ frames[1] = sFrames
    /\ phase \in {"finished", "stopped"} => SameWorld
    /\ phase = "finished" => (status[1] = "gated" <=> ~sLive)
=============================================================================
