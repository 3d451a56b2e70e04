------------------------------- MODULE Lockout -------------------------------
(***************************************************************************)
(* Sequencer under the OI-7 lockout: simulate_path was given the           *)
(* stack_precedence that names one of several when_started stacks, and all *)
(* the others lose the drivetrain to it.  A history variable keeps the     *)
(* last motion the winner ordered and where the robot was then.            *)
(***************************************************************************)
EXTENDS Sequencer

VARIABLE ordered

AsOf(cell, p, r, time) == [cell |-> cell, pos |-> p, rot |-> r, now |-> time]

\* The winner orders by the steps of its own that change what the drivetrain holds.
Orders == running \in Threads \ Losers /\ Cell' # Cell

LockoutInit == Init /\ ordered = AsOf(D!Idle, 0, 0, 0)

LockoutNext ==
    /\ Next
    /\ ordered' = IF Orders THEN AsOf(Cell', pos', rot', now') ELSE ordered

LockoutSpec == LockoutInit /\ [][LockoutNext]_<<vars, ordered>>

-----------------------------------------------------------------------------
\* How far the robot has gone since the order, the way it was ordered to.
Gone == ordered.cell.sign * (IF ordered.cell.mode = "drive" THEN pos - ordered.pos
                                                            ELSE rot - ordered.rot)

\* "only B's motion happens": whatever the losing stacks execute, wait for, broadcast or
\* are gated in the middle of, the robot is always where the winner's last command takes
\* it.  It has neither driven nor turned otherwise; while that motion lasts it has gone
\* on with the clock, without a pause; a blocking motion is carried out to its full
\* length, no other is put in its place; and the only thing that a losing stack can do
\* to an armed one is end it early or run it off, never turn it back.
OnlyWinnersMotion ==
    /\ ordered.cell.mode # "drive" => pos = ordered.pos
    /\ ordered.cell.mode # "turn" => rot = ordered.rot
    /\ IF Cell # D!Idle
       THEN /\ Gone = now - ordered.now
            /\ Cell = [ordered.cell EXCEPT !.left = IF ordered.cell.open THEN 0 ELSE @ - Gone]
       ELSE IF ordered.cell.open THEN Gone >= 0 ELSE Gone = ordered.cell.left
=============================================================================
