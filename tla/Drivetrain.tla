----------------------------- MODULE Drivetrain -----------------------------
(***************************************************************************)
(* What the simulator promises of the robot's one drivetrain, whatever the *)
(* threads of the program do to it (BUILD_SPEC 2.4 and the OI-28 note at   *)
(* _loop_tick_park): the drivetrain is a cell that holds at most one       *)
(* motion, a command overwrites the cell outright, and simulated time      *)
(* passes only together with the displacement of whatever motion the cell  *)
(* holds.  Sequencer implements this with a blocking motion, a pending     *)
(* continuous motion and a queue; velocities are one unit per unit of time.*)
(***************************************************************************)
EXTENDS Integers

CONSTANTS
    Overrun,    \* one frame the outgoing continuous motion keeps (0: no loop clock)
    FieldCap,   \* how far a robot left driving runs: 4 x the field radius
    Quarter     \* the nominal turn of a robot left turning: 90 degrees

VARIABLES
    cell,       \* the motion the drivetrain holds
    pos, rot,   \* where the robot is along its line, and its rotation
    now         \* the simulated clock, sim_time_s

vars == <<cell, pos, rot, now>>

Idle == [mode |-> "idle", sign |-> 0, left |-> 0, open |-> FALSE]

\* A closed motion ends by itself after `left`; an open one never does.
Closed == [mode : {"drive", "turn"}, sign : {-1, 1}, left : Nat, open : {FALSE}]
Open   == [mode : {"drive", "turn"}, sign : {-1, 1}, left : {0}, open : {TRUE}]

\* The robot is displaced by d along the motion c.
Displaced(c, d) ==
    /\ pos' = IF c.mode = "drive" THEN pos + c.sign * d ELSE pos
    /\ rot' = IF c.mode = "turn" THEN rot + c.sign * d ELSE rot

Init == cell = Idle /\ pos = 0 /\ rot = 0 /\ now = 0

\* A command of any thread overwrites the cell; an open motion it takes
\* over gets one more frame.
Command ==
    LET d == IF cell.open THEN Overrun ELSE 0
    IN  /\ cell' \in {Idle} \cup Closed \cup Open
        /\ Displaced(cell, d)
        /\ now' = now + d

\* Time passes and the motion in the cell is carried out for exactly as long.
\* A closed motion is never overshot, and only its end frees the cell (for a
\* motion that was interrupted before, if one is queued).  An open one goes
\* on, or stops where a wait_until found its condition true.
Elapse ==
    LET dt == now' - now
    IN  /\ dt >= 0
        /\ cell \in Closed => dt <= cell.left
        /\ Displaced(cell, dt)
        /\ \/ cell = Idle /\ cell' = Idle
           \/ cell.open /\ cell' \in {cell, Idle}
           \/ /\ cell \in Closed
              /\ IF dt < cell.left THEN cell' = [cell EXCEPT !.left = @ - dt]
                                   ELSE cell' \in {Idle} \cup Closed

\* A continuous motion that nothing will stop: the robot runs off the field,
\* or makes the nominal turn, and that is the end of the motion.
RunOff ==
    /\ cell.open
    /\ cell' = Idle
    /\ \/ /\ cell.mode = "drive"
          /\ \E d \in 0..FieldCap : Displaced(cell, d) /\ now' = now + d
       \/ /\ cell.mode = "turn"
          /\ Displaced(cell, Quarter)
          /\ now' = now

Next == Command \/ Elapse \/ RunOff

Spec == Init /\ [][Next]_vars
=============================================================================
