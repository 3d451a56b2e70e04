--------------------------- MODULE SequencerProofs ---------------------------
(***************************************************************************)
(* What Sequencer guarantees for every number of threads, program, policy, *)
(* lockout and budget: its types, that the clock stays within the time     *)
(* budget, and that it implements Drivetrain; then who owns a motion and   *)
(* who waits for it; of SequencerHistory, what a thread that waits is      *)
(* owed; of Lockout, that the robot goes where the winner orders.          *)
(***************************************************************************)
EXTENDS SequencerHistory, Lockout, SequenceTheorems, TLAPS

USE NAssumption, PolicyAssumption, MenuAssumption, BoundAssumption

-----------------------------------------------------------------------------
(***************************************************************************)
(* Facts about the operators the actions share.                            *)
(***************************************************************************)

\* Moving the robot keeps its pose integral.
LEMMA DisplacedType ==
    ASSUME pos \in Int, rot \in Int, NEW mode, NEW sign \in Int, NEW d \in Int,
           Displaced(mode, sign, d)
    PROVE  pos' \in Int /\ rot' \in Int
BY DEF Displaced

\* What the budget leaves of an interval is no longer than it, and no longer
\* than what is left of the budget.
LEMMA InBudgetBounds ==
    ASSUME now \in Nat, NEW d \in Nat
    PROVE  /\ InBudget(d) \in Nat
           /\ InBudget(d) <= d
           /\ Budgeted /\ now <= TimeBudget => now + InBudget(d) <= TimeBudget
           /\ Budgeted /\ now > TimeBudget => InBudget(d) = 0
BY DEF InBudget

\* Every event lies at a natural distance.
LEMMA EventsAreNat == TypeOK => Events \subseteq Nat
<1> SUFFICES ASSUME TypeOK, NEW e \in Events PROVE e \in Nat
  OBVIOUS
<1>1. CASE e \in Completion
  BY <1>1 DEF TypeOK, Completion, Blocking, MotionType, NoMotion
<1>2. CASE e \in Wakes
  BY <1>2 DEF TypeOK, Wakes
<1>3. CASE e \in CondEvents
  <2>1. PICK t \in CondParked :
          e \in (IF HoldsNow(cond[t]) THEN {0}
                 ELSE {d \in 1..MarchCap : Bounded(d) /\ Holds(cond[t], Ahead(d))})
    BY <1>3 DEF CondEvents
  <2>2. MarchCap \in Nat
    BY DEF MarchCap
  <2> QED
    BY <2>1, <2>2
<1> QED
  BY <1>1, <1>2, <1>3 DEF Events

\* The pieces of the state's type that the takeover, the notification and the
\* end of a receiver touch.
LEMMA TakeoverType ==
    ASSUME TypeOK, TakeoverPending
    PROVE  pos' \in Int /\ rot' \in Int /\ now' \in Nat /\ timer' \in Nat
<1>1. Overrun \in Nat
  BY DEF Overrun
<1>2. pending.sign \in Int
  BY DEF TypeOK, NoPending
<1> QED
  BY <1>1, <1>2, DisplacedType DEF TakeoverPending, Elapsed, TypeOK

LEMMA NotifyType ==
    ASSUME TypeOK, running # 0, NotifyDrivetrainCommand
    PROVE  /\ resumeQ' \in Seq(MotionType)
           /\ writers' \subseteq Threads
           /\ flags' \subseteq FlagType
           /\ Superseded \in [Threads -> Statuses]
<1>1. Blocking => active \in MotionType
  BY DEF TypeOK, Blocking, NoMotion
<1>2. resumeQ' \in Seq(MotionType)
  BY <1>1 DEF TypeOK, NotifyDrivetrainCommand, Interrupted
<1>3. Superseded \in [Threads -> Statuses]
  BY <1>1 DEF TypeOK, Superseded, Statuses, MotionType
<1> QED
  BY <1>2, <1>3 DEF TypeOK, NotifyDrivetrainCommand, FlagType

LEMMA ReceiverLeftType ==
    ASSUME TypeOK, NEW t \in Threads, frames[t] # <<>>, ReceiverLeft(t)
    PROVE  /\ frames' \in [Threads -> Seq([key : Keys, left : Nat])]
           /\ activeB' \subseteq Keys
<1> DEFINE F == [key : Keys, left : Nat]
<1>1. frames \in [Threads -> Seq(F)] /\ frames[t] \in Seq(F)
  BY DEF TypeOK
<1>2. Head(frames[t]) \in F /\ Tail(frames[t]) \in Seq(F)
  BY <1>1, HeadTailProperties
<1>3. \A g \in F : g.left > 1 => [g EXCEPT !.left = @ - 1] \in F
  OBVIOUS
<1>4. \A g \in F : <<g>> \in Seq(F) /\ <<g>> \o Tail(frames[t]) \in Seq(F)
  BY <1>2, ConcatProperties
<1>5. frames' \in [Threads -> Seq(F)]
  <2>1. CASE Head(frames[t]).left > 1
    <3>1. [Head(frames[t]) EXCEPT !.left = @ - 1] \in F
      BY <1>2, <1>3, <2>1
    <3>2. <<[Head(frames[t]) EXCEPT !.left = @ - 1]>> \o Tail(frames[t]) \in Seq(F)
      BY <3>1, <1>4
    <3> QED
      BY <1>1, <2>1, <3>2 DEF ReceiverLeft
  <2>2. CASE ~(Head(frames[t]).left > 1)
    BY <1>1, <1>2, <2>2 DEF ReceiverLeft
  <2> QED
    BY <2>1, <2>2
<1> QED
  BY <1>5 DEF TypeOK, ReceiverLeft

-----------------------------------------------------------------------------
(***************************************************************************)
(* Type correctness, one lemma for each group of actions.                  *)
(***************************************************************************)
LEMMA TypeInit == Init => TypeOK
BY EmptySeq DEF Init, TypeOK, Threads, Statuses, NoMotion, NoPending, NoCond

\* A yield stores a status.
LEMMA YieldedType ==
    ASSUME TypeOK, running # 0, NEW st \in [Threads -> Statuses], NEW parked \in Statuses
    PROVE  Yielded(st, parked) \in [Threads -> Statuses]
BY DEF TypeOK, Yielded, Statuses

LEMMA TypeBlockingMotion ==
    ASSUME TypeOK, NEW op, Commands(op), NEW mode \in Modes, NEW sign \in {-1, 1},
           NEW length \in Nat, BlockingMotion(mode, sign, length)
    PROVE  TypeOK'
<1>1. running \in Threads /\ running # 0 /\ blocks' \in Nat
  BY DEF TypeOK, Commands, Executes
<1>2. TakeoverPending /\ NotifyDrivetrainCommand
  BY DEF BlockingMotion
<1>3. pos' \in Int /\ rot' \in Int /\ now' \in Nat /\ timer' \in Nat
  BY <1>2, TakeoverType
<1>4. /\ resumeQ' \in Seq(MotionType) /\ writers' \subseteq Threads /\ flags' \subseteq FlagType
      /\ Superseded \in [Threads -> Statuses]
  BY <1>1, <1>2, NotifyType
<1>5. status' \in [Threads -> Statuses]
  BY <1>1, <1>4, YieldedType DEF BlockingMotion, Statuses
<1>6. active' \in MotionType \cup {NoMotion} /\ pending' = NoPending /\ running' = 0
  BY <1>1 DEF BlockingMotion, MotionType
<1>7. UNCHANGED <<wake, cond, frames, cursor, phase, gating, var, activeB>>
  BY DEF BlockingMotion, schedVars
<1> QED
  BY <1>1, <1>3, <1>4, <1>5, <1>6, <1>7 DEF TypeOK

LEMMA TypeContinuousMotion ==
    ASSUME TypeOK, NEW op, Commands(op), NEW mode \in Modes, NEW sign \in {-1, 1},
           ContinuousMotion(mode, sign)
    PROVE  TypeOK'
<1>1. running \in Threads /\ running # 0 /\ blocks' \in Nat
  BY DEF TypeOK, Commands, Executes
<1>2. CASE Reissued(mode, sign)
  BY <1>1, <1>2 DEF ContinuousMotion, TypeOK, threadVars, driveVars, schedVars, worldVars
<1>3. CASE ~Reissued(mode, sign)
  <2>1. TakeoverPending /\ NotifyDrivetrainCommand
    BY <1>3 DEF ContinuousMotion
  <2>2. pos' \in Int /\ rot' \in Int /\ now' \in Nat /\ timer' \in Nat
    BY <2>1, TakeoverType
  <2>3. /\ resumeQ' \in Seq(MotionType) /\ writers' \subseteq Threads /\ flags' \subseteq FlagType
        /\ Superseded \in [Threads -> Statuses]
    BY <1>1, <2>1, NotifyType
  <2>4. /\ status' = Superseded /\ active' = NoMotion
        /\ pending' = [mode |-> mode, sign |-> sign]
        /\ UNCHANGED <<wake, cond, frames, running, cursor, phase, gating, var, activeB>>
    BY <1>3 DEF ContinuousMotion, schedVars
  <2> QED
    BY <1>1, <2>2, <2>3, <2>4 DEF TypeOK
<1> QED
  BY <1>2, <1>3

LEMMA TypeStopDriving == ASSUME TypeOK, StopDriving PROVE TypeOK'
<1>1. running \in Threads /\ running # 0 /\ blocks' \in Nat
  BY DEF TypeOK, StopDriving, Commands, Executes
<1>2. TakeoverPending /\ NotifyDrivetrainCommand
  BY DEF StopDriving
<1>3. pos' \in Int /\ rot' \in Int /\ now' \in Nat /\ timer' \in Nat
  BY <1>2, TakeoverType
<1>4. /\ resumeQ' \in Seq(MotionType) /\ writers' \subseteq Threads /\ flags' \subseteq FlagType
      /\ Superseded \in [Threads -> Statuses]
  BY <1>1, <1>2, NotifyType
<1>5. /\ status' = Superseded /\ active' = NoMotion /\ pending' = NoPending
      /\ UNCHANGED <<wake, cond, frames, running, cursor, phase, gating, var, activeB>>
  BY DEF StopDriving, schedVars
<1> QED
  BY <1>1, <1>3, <1>4, <1>5 DEF TypeOK

LEMMA TypeSetHeading == ASSUME TypeOK, SetHeading PROVE TypeOK'
<1>1. blocks' \in Nat
  BY DEF TypeOK, SetHeading, Commands, Executes
<1>2. TakeoverPending
  BY DEF SetHeading
<1>3. pos' \in Int /\ rot' \in Int /\ now' \in Nat /\ timer' \in Nat
  BY <1>2, TakeoverType
<1>4. /\ pending' = NoPending
      /\ UNCHANGED <<threadVars, frames, active, resumeQ, running, schedVars, writers,
                     flags, var, activeB>>
  BY DEF SetHeading
<1> QED
  BY <1>1, <1>3, <1>4 DEF TypeOK, threadVars, schedVars

LEMMA TypeParkTime ==
    ASSUME TypeOK, NEW op, Executes(op), NEW seconds \in Nat, ParkTime(seconds)
    PROVE  TypeOK'
<1>1. running \in Threads /\ running # 0 /\ blocks' \in Nat
  BY DEF TypeOK, Executes
<1>2. status' \in [Threads -> Statuses]
  BY <1>1, YieldedType DEF ParkTime, TypeOK, Statuses
<1>3. wake' \in [Threads -> Nat]
  BY <1>1 DEF ParkTime, TypeOK
<1> QED
  BY <1>1, <1>2, <1>3 DEF TypeOK, ParkTime, driveVars, schedVars, worldVars

LEMMA TypeWaitUntil ==
    ASSUME TypeOK, NEW c \in Conds, WaitUntil(c)
    PROVE  TypeOK'
<1>1. running \in Threads /\ running # 0 /\ blocks' \in Nat
  BY DEF TypeOK, WaitUntil, Executes
<1>2. /\ status' \in [Threads -> Statuses]
      /\ cond' \in [Threads -> Conds \cup {NoCond}]
      /\ wake' \in [Threads -> Nat]
      /\ running' \in Threads \cup {0}
  <2>1. CASE HoldsNow(c)
    BY <2>1 DEF TypeOK, WaitUntil, threadVars
  <2>2. CASE ~HoldsNow(c)
    <3>1. status' = Yielded(status, "parked_cond") /\ running' = 0 /\ wake' = wake
      BY <2>2 DEF WaitUntil
    <3>2. status' \in [Threads -> Statuses]
      BY <1>1, <3>1, YieldedType DEF TypeOK, Statuses
    <3>3. cond' \in [Threads -> Conds \cup {NoCond}]
      BY <1>1, <2>2 DEF TypeOK, WaitUntil
    <3> QED
      BY <3>1, <3>2, <3>3 DEF TypeOK
  <2> QED
    BY <2>1, <2>2
<1> QED
  BY <1>1, <1>2 DEF TypeOK, WaitUntil, driveVars, schedVars, worldVars

LEMMA TypeBroadcast ==
    ASSUME TypeOK, NEW k \in Keys, Broadcast(k)
    PROVE  TypeOK'
<1> DEFINE F == [key : Keys, left : Nat]
           new == [key |-> k, left |-> Receivers[k]]
<1>1. running \in Threads /\ blocks' \in Nat
  BY DEF TypeOK, Broadcast, Executes
<1>2. frames[running] \in Seq(F) /\ new \in F
  BY <1>1 DEF TypeOK
<1>3. <<new>> \o frames[running] \in Seq(F)
  <2>1. <<new>> \in Seq(F)
    BY <1>2
  <2> QED
    BY <1>2, <2>1, ConcatProperties
<1>4. frames' \in [Threads -> Seq(F)] /\ activeB' \subseteq Keys /\ flags' \subseteq FlagType
  BY <1>1, <1>3 DEF TypeOK, Broadcast, FlagType
<1> QED
  BY <1>1, <1>4 DEF TypeOK, Broadcast, threadVars, driveVars, schedVars, worldVars

LEMMA TypeBreak == ASSUME TypeOK, Break PROVE TypeOK'
<1>1. running \in Threads /\ running # 0 /\ blocks' \in Nat
  BY DEF TypeOK, Break, Executes
<1>2. /\ frames' \in [Threads -> Seq([key : Keys, left : Nat])]
      /\ activeB' \subseteq Keys
      /\ status' \in [Threads -> Statuses]
      /\ running' \in Threads \cup {0}
  <2>1. CASE frames[running] # <<>>
    BY <1>1, <2>1, ReceiverLeftType DEF TypeOK, Break
  <2>2. CASE frames[running] = <<>>
    BY <1>1, <2>2 DEF TypeOK, Break, Statuses
  <2> QED
    BY <2>1, <2>2
<1> QED
  BY <1>1, <1>2 DEF TypeOK, Break, driveVars, schedVars, worldVars

LEMMA TypeReceiverEnd == ASSUME TypeOK, ReceiverEnd PROVE TypeOK'
<1>1. running \in Threads /\ frames[running] # <<>> /\ ReceiverLeft(running)
  BY DEF TypeOK, ReceiverEnd
<1>2. frames' \in [Threads -> Seq([key : Keys, left : Nat])] /\ activeB' \subseteq Keys
  BY <1>1, ReceiverLeftType
<1> QED
  BY <1>2 DEF TypeOK, ReceiverEnd, threadVars, driveVars, schedVars, worldVars

\* The drivetrain's motion has an integral sign, 0 when there is none.
LEMMA MotionSignInt == TypeOK => MotionSign \in Int
BY DEF TypeOK, MotionSign, Blocking, MotionType, NoMotion, NoPending

LEMMA TypeSlice ==
    ASSUME TypeOK, NEW dt \in Nat, Slice(dt),
           UNCHANGED <<frames, running, phase, gating, flags, var, activeB, blocks>>,
           cursor' = 0, writers' = {}
    PROVE  TypeOK'
<1>1. pos' \in Int /\ rot' \in Int /\ now' \in Nat /\ timer' \in Nat
  <2>1. Displaced(MotionMode, MotionSign, dt) /\ Elapsed(dt)
    BY DEF Slice
  <2>2. MotionSign \in Int
    BY MotionSignInt
  <2>3. dt \in Int /\ pos \in Int /\ rot \in Int
    BY DEF TypeOK
  <2>4. pos' \in Int /\ rot' \in Int
    BY <2>1, <2>2, <2>3, DisplacedType
  <2>5. now' \in Nat /\ timer' \in Nat
    BY <2>1 DEF TypeOK, Elapsed
  <2> QED
    BY <2>4, <2>5
<1>2. resumeQ' \in Seq(MotionType)
  <2>1. CASE Resumes(dt)
    BY <2>1, HeadTailProperties DEF Slice, Resumes, TypeOK
  <2> QED
    BY <2>1 DEF Slice, TypeOK
<1>3. active' \in MotionType \cup {NoMotion}
  <2>1. CASE Resumes(dt)
    <3>1. Head(resumeQ) \in MotionType
      BY <2>1, HeadTailProperties DEF Resumes, TypeOK
    <3> QED
      BY <2>1, <3>1 DEF Slice
  <2>2. CASE ~Resumes(dt) /\ ~Completes(dt) /\ Blocking
    <3>1. active \in MotionType /\ active.left - dt \in Nat
      BY <2>2 DEF Completes, Blocking, TypeOK, NoMotion, MotionType
    <3>2. [active EXCEPT !.left = @ - dt] \in MotionType
      BY <3>1 DEF MotionType
    <3> QED
      BY <2>2, <3>2 DEF Slice
  <2> QED
    BY <2>1, <2>2 DEF Slice, TypeOK
<1>4. pending' \in [mode : Modes, sign : {-1, 1}] \cup {NoPending}
  BY DEF Slice, TypeOK
<1>5. wake' \in [Threads -> Nat]
  <2>1. \A t \in Threads :
          (IF status[t] = "parked_time" /\ wake[t] > dt THEN wake[t] - dt ELSE 0) \in Nat
    BY DEF TypeOK
  <2>2. wake' = [t \in Threads |->
                   IF status[t] = "parked_time" /\ wake[t] > dt THEN wake[t] - dt ELSE 0]
    BY DEF Slice
  <2> QED
    BY <2>1, <2>2
<1>6. cond' \in [Threads -> Conds \cup {NoCond}]
  BY DEF Slice, TypeOK
<1>7. status' \in [Threads -> Statuses]
  BY DEF Slice, TypeOK, Statuses
<1> QED
  BY <1>1, <1>2, <1>3, <1>4, <1>5, <1>6, <1>7 DEF TypeOK

LEMMA TypeAdvanceClock == ASSUME TypeOK, AdvanceClock PROVE TypeOK'
<1>1. PICK d \in Events : (\A e \in Events : d <= e) /\ Slice(InBudget(d))
  BY DEF AdvanceClock
<1>2. InBudget(d) \in Nat
  BY EventsAreNat, InBudgetBounds DEF TypeOK
<1> QED
  BY <1>1, <1>2, TypeSlice DEF AdvanceClock

\* Running off the field, or the part of it a time budget leaves.
LEMMA RunoffType ==
    ASSUME TypeOK, NEW d \in Nat, Runoff(d)
    PROVE  pos' \in Int /\ rot' \in Int /\ now' \in Nat /\ timer' \in Nat
<1>1. InBudget(d) \in Nat /\ pending.sign \in Int
  <2>1. now \in Nat
    BY DEF TypeOK
  <2>2. InBudget(d) \in Nat
    BY <2>1, InBudgetBounds
  <2>3. pending.sign \in Int
    BY DEF TypeOK, NoPending
  <2> QED
    BY <2>2, <2>3
<1>2. Displaced("drive", pending.sign, InBudget(d)) /\ Elapsed(InBudget(d))
  BY DEF Runoff
<1>3. pos \in Int /\ rot \in Int /\ now \in Nat /\ timer \in Nat
  BY DEF TypeOK
<1>4. pos' \in Int /\ rot' \in Int
  BY <1>1, <1>2, <1>3, DisplacedType
<1>5. now' \in Nat /\ timer' \in Nat
  BY <1>1, <1>2, <1>3 DEF Elapsed
<1> QED
  BY <1>4, <1>5

LEMMA TypeUnmetGate == ASSUME TypeOK, NEW t \in Threads, UnmetGate(t) PROVE TypeOK'
<1>1. /\ pos' \in Int /\ rot' \in Int /\ now' \in Nat /\ timer' \in Nat
      /\ pending' \in [mode : Modes, sign : {-1, 1}] \cup {NoPending}
  <2>1. CASE pending.mode = "drive"
    BY <2>1, RunoffType DEF UnmetGate
  <2>2. CASE pending.mode # "drive"
    BY <2>2 DEF UnmetGate, TypeOK, worldVars
  <2> QED
    BY <2>1, <2>2
<1>2. /\ frames' \in [Threads -> Seq([key : Keys, left : Nat])]
      /\ activeB' \subseteq Keys
      /\ status' \in [Threads -> Statuses]
      /\ running' \in Threads \cup {0}
  <2>1. CASE frames[t] # <<>>
    BY <2>1, ReceiverLeftType DEF TypeOK, UnmetGate
  <2>2. CASE frames[t] = <<>>
    BY <2>2 DEF TypeOK, UnmetGate, Statuses
  <2> QED
    BY <2>1, <2>2
<1>3. cond' \in [Threads -> Conds \cup {NoCond}] /\ flags' \subseteq FlagType
  BY DEF UnmetGate, TypeOK, FlagType
<1> QED
  BY <1>1, <1>2, <1>3 DEF TypeOK, UnmetGate

LEMMA TypeFinish == ASSUME TypeOK, FinishPendingMotion PROVE TypeOK'
<1>1. pos' \in Int /\ rot' \in Int /\ now' \in Nat /\ timer' \in Nat
  <2>1. CASE pending.mode = "drive"
    BY <2>1, RunoffType DEF FinishPendingMotion
  <2>2. CASE pending.mode # "drive"
    <3>1. pending.sign \in Int
      BY DEF TypeOK, NoPending
    <3> QED
      BY <2>2, <3>1, DisplacedType DEF FinishPendingMotion, TypeOK
  <2> QED
    BY <2>1, <2>2
<1> QED
  BY <1>1 DEF TypeOK, FinishPendingMotion, threadVars

LEMMA TypeNext == TypeOK /\ [Next]_vars => TypeOK'
<1> SUFFICES ASSUME TypeOK, [Next]_vars PROVE TypeOK'
  OBVIOUS
<1>1. ASSUME NEW t \in Threads, Resume(t) PROVE TypeOK'
  BY <1>1 DEF TypeOK, Resume, threadVars, driveVars, worldVars
<1>2. CASE BudgetStop \/ ResetTimer \/ Instant \/ StopProject \/ EndStack
  <2>0. blocks + 1 \in Nat
    BY DEF TypeOK
  <2>1. CASE BudgetStop
    <3>1. blocks' \in Nat
      BY <2>0, <2>1 DEF BudgetStop
    <3> QED
      BY <2>1, <3>1 DEF TypeOK, BudgetStop, threadVars, driveVars, worldVars
  <2>2. CASE ResetTimer
    <3>1. blocks' \in Nat
      BY <2>0, <2>2 DEF ResetTimer, Executes
    <3> QED
      BY <2>2, <3>1 DEF TypeOK, ResetTimer, threadVars, driveVars, schedVars, worldVars
  <2>3. CASE Instant
    <3>1. blocks' \in Nat
      BY <2>0, <2>3 DEF Instant, Executes
    <3> QED
      BY <2>3, <3>1 DEF TypeOK, Instant, threadVars, driveVars, schedVars, worldVars
  <2>4. CASE StopProject
    <3>1. blocks' \in Nat
      BY <2>0, <2>4 DEF StopProject, Executes
    <3> QED
      BY <2>4, <3>1 DEF TypeOK, StopProject, threadVars, driveVars, worldVars
  <2>5. CASE EndStack
    BY <2>5 DEF TypeOK, EndStack, Statuses, driveVars, schedVars, worldVars
  <2> QED
    BY <1>2, <2>1, <2>2, <2>3, <2>4, <2>5
<1>3. ASSUME NEW s \in Signs, NEW d \in Lengths, DriveFor(s, d) \/ TurnFor(s, d)
      PROVE  TypeOK'
  BY <1>3, TypeBlockingMotion DEF DriveFor, TurnFor, Modes
<1>4. ASSUME NEW r \in Targets, TurnToRotation(r) PROVE TypeOK'
  <2> DEFINE delta == r - rot'
             sign == IF delta > 0 THEN 1 ELSE -1
             length == IF delta > 0 THEN delta ELSE -delta
  <2>1. Commands("turn_to_rotation") /\ BlockingMotion("turn", sign, length)
    BY <1>4 DEF TurnToRotation
  <2>2. rot' \in Int
    BY <2>1, TakeoverType DEF BlockingMotion
  <2>3. length \in Nat /\ sign \in {-1, 1}
    <3>1. r \in Int /\ delta \in Int
      BY <2>2
    <3> HIDE DEF delta
    <3> QED
      BY <3>1
  <2> QED
    BY <2>1, <2>3, TypeBlockingMotion DEF Modes
<1>5. ASSUME NEW s \in Signs, Drive(s) \/ Turn(s) PROVE TypeOK'
  BY <1>5, TypeContinuousMotion DEF Drive, Turn, Modes
<1>6. ASSUME NEW w \in Waits, Wait(w) PROVE TypeOK'
  BY <1>6, TypeParkTime DEF Wait
<1>7. ASSUME NEW r \in 0..LoopTick, LoopPass(r) PROVE TypeOK'
  BY <1>7, TypeParkTime DEF LoopPass
<1>8. ASSUME NEW v \in Values, SetVariable(v) PROVE TypeOK'
  <2>1. blocks + 1 \in Nat /\ v \in Int
    BY DEF TypeOK
  <2>2. blocks' \in Nat /\ var' \in Int
    BY <1>8, <2>1 DEF SetVariable, Executes
  <2> QED
    BY <1>8, <2>2 DEF TypeOK, SetVariable, threadVars, driveVars, schedVars, worldVars
<1>9. CASE ClockBudgetStop \/ GateConds \/ GateDone \/ EndRun
  <2>1. CASE ClockBudgetStop
    BY <2>1 DEF TypeOK, ClockBudgetStop, threadVars, driveVars, worldVars
  <2>2. CASE GateConds
    BY <2>2 DEF TypeOK, GateConds, CondParked, threadVars, driveVars, worldVars
  <2>3. CASE GateDone
    BY <2>3 DEF TypeOK, GateDone, threadVars, driveVars, worldVars
  <2>4. CASE EndRun
    BY <2>4 DEF TypeOK, EndRun, threadVars, driveVars, worldVars
  <2> QED
    BY <1>9, <2>1, <2>2, <2>3, <2>4
<1>10. CASE UNCHANGED vars
  BY <1>10 DEF TypeOK, vars, threadVars, driveVars, schedVars, worldVars
<1> QED
  BY <1>1, <1>2, <1>3, <1>4, <1>5, <1>6, <1>7, <1>8, <1>9, <1>10, TypeStopDriving,
     TypeSetHeading, TypeWaitUntil, TypeBroadcast, TypeBreak, TypeReceiverEnd,
     TypeAdvanceClock, TypeUnmetGate, TypeFinish
  DEF Next, Step

\* Every variable keeps its type: statuses, clocks and budgets are natural, and whatever
\* is active or queued is a motion of some thread.
THEOREM TypeCorrect == Spec => []TypeOK
BY TypeInit, TypeNext, PTL DEF Spec

-----------------------------------------------------------------------------
(***************************************************************************)
(* The clock.                                                              *)
(***************************************************************************)

\* A command is executed within the budget, so the frame it grants to the
\* motion it takes over ends at most one frame beyond.
LEMMA TakeoverWithinBudget ==
    ASSUME TypeOK, WithinBudgets, TakeoverPending
    PROVE  ClockWithinBudget'
<1>1. /\ Overrun \in Nat
      /\ Overrun <= IF LoopTick > 0 THEN Frame ELSE 0
  BY DEF Overrun
<1>2. now \in Nat /\ now' = now + Overrun
  BY DEF TakeoverPending, Elapsed, TypeOK
<1>3. Budgeted => now < TimeBudget
  BY <1>2 DEF WithinBudgets, OverTime
<1> QED
  BY <1>1, <1>2, <1>3 DEF ClockWithinBudget

\* Neither a slice nor a runoff carries the clock past the budget.
LEMMA ElapsedWithinBudget ==
    ASSUME TypeOK, ClockWithinBudget, NEW d \in Nat, Elapsed(InBudget(d))
    PROVE  ClockWithinBudget'
<1>1. now \in Nat /\ InBudget(d) \in Nat /\ now' = now + InBudget(d)
  BY InBudgetBounds DEF Elapsed, TypeOK
<1>2. CASE Budgeted /\ now <= TimeBudget
  <2>1. now' <= TimeBudget
    BY <1>1, <1>2, InBudgetBounds
  <2> QED
    BY <1>1, <2>1 DEF ClockWithinBudget
<1>3. CASE Budgeted /\ now > TimeBudget
  <2>1. now' = now
    BY <1>1, <1>3, InBudgetBounds
  <2> QED
    BY <2>1 DEF ClockWithinBudget
<1> QED
  BY <1>1, <1>2, <1>3 DEF ClockWithinBudget

LEMMA ClockStep ==
    ASSUME TypeOK, ClockWithinBudget, [Next]_vars
    PROVE  ClockWithinBudget'
<1>1. CASE now' = now
  BY <1>1 DEF ClockWithinBudget
<1>2. CASE WithinBudgets /\ TakeoverPending
  BY <1>2, TakeoverWithinBudget
<1>3. CASE \E d \in Nat : Elapsed(InBudget(d))
  BY <1>3, ElapsedWithinBudget
<1>4. ASSUME Step PROVE now' = now \/ (WithinBudgets /\ TakeoverPending)
  BY <1>4 DEF Step, BudgetStop, DriveFor, TurnFor, TurnToRotation, Drive, Turn,
              StopDriving, SetHeading, Wait, LoopPass, WaitUntil, ResetTimer, Instant,
              SetVariable, Broadcast, ReceiverEnd, Break, EndStack, StopProject, Commands,
              Executes, BlockingMotion, ContinuousMotion, ParkTime, worldVars
<1>5. ASSUME AdvanceClock PROVE \E d \in Nat : Elapsed(InBudget(d))
  BY <1>5, EventsAreNat DEF AdvanceClock, Slice
<1>6. ASSUME NEW t \in Threads, UnmetGate(t)
      PROVE  now' = now \/ \E d \in Nat : Elapsed(InBudget(d))
  BY <1>6 DEF UnmetGate, Runoff, worldVars
<1>7. ASSUME FinishPendingMotion
      PROVE  now' = now \/ \E d \in Nat : Elapsed(InBudget(d))
  BY <1>7 DEF FinishPendingMotion, Runoff
<1>8. ASSUME \/ \E t \in Threads : Resume(t)
             \/ ClockBudgetStop \/ GateConds \/ GateDone \/ EndRun \/ UNCHANGED vars
      PROVE  now' = now
  BY <1>8 DEF Resume, ClockBudgetStop, GateConds, GateDone, EndRun, vars, worldVars
<1> QED
  BY <1>1, <1>2, <1>3, <1>4, <1>5, <1>6, <1>7, <1>8 DEF Next

\* time_budget_s: whatever the program, the clock never runs past the end of the
\* observed run by more than the frame of one takeover.
THEOREM ClockStaysWithinBudget == Spec => []ClockWithinBudget
<1>1. Init => ClockWithinBudget
  BY DEF Init, ClockWithinBudget
<1>2. TypeOK /\ ClockWithinBudget /\ [Next]_vars => ClockWithinBudget'
  BY ClockStep
<1> QED
  BY <1>1, <1>2, TypeCorrect, PTL DEF Spec
-----------------------------------------------------------------------------
(***************************************************************************)
(* The refinement: every command of every thread is one command of the     *)
(* abstract cell of Drivetrain, time passes there exactly when it passes   *)
(* here, and nothing else touches the cell.  The one invariant the         *)
(* argument needs is that the two places a motion is kept in -- the active *)
(* blocking motion and the armed continuous one -- are never both in use.  *)
(***************************************************************************)
\* A motion occupies the drivetrain in one of two ways, never in both.
OneCell == Blocking => pending = NoPending

LEMMA OneCellStep ==
    ASSUME TypeOK, OneCell, [Next]_vars
    PROVE  OneCell'
<1>1. ASSUME UNCHANGED <<active, pending>> PROVE OneCell'
  BY <1>1 DEF OneCell, Blocking, NoPending
<1>2. ASSUME pending' = NoPending PROVE OneCell'
  BY <1>2 DEF OneCell, NoPending
<1>3. ASSUME active' = NoMotion PROVE OneCell'
  BY <1>3 DEF OneCell, Blocking, NoMotion
<1>4. ASSUME Step PROVE OneCell'
  <2>1. ASSUME NEW mode, NEW sign, NEW length, BlockingMotion(mode, sign, length)
        PROVE  OneCell'
    BY <2>1, <1>2 DEF BlockingMotion
  <2>2. ASSUME NEW mode, NEW sign, ContinuousMotion(mode, sign)
        PROVE  OneCell'
    BY <2>2, <1>1, <1>3 DEF ContinuousMotion, driveVars
  <2>3. CASE StopDriving \/ SetHeading
    BY <2>3, <1>2 DEF StopDriving, SetHeading
  <2> QED
    BY <1>4, <1>1, <2>1, <2>2, <2>3
       DEF Step, BudgetStop, DriveFor, TurnFor, TurnToRotation, Drive, Turn, Wait,
           LoopPass, WaitUntil, ResetTimer, Instant, SetVariable, Broadcast, ReceiverEnd,
           Break, EndStack, StopProject, ParkTime, driveVars
<1>5. ASSUME AdvanceClock PROVE OneCell'
  <2>1. PICK dt : Slice(dt)
    BY <1>5 DEF AdvanceClock
  <2>2. CASE Blocking
    BY <2>1, <2>2, <1>2 DEF Slice, OneCell
  <2>3. CASE ~Blocking
    <3>1. active' = active
      BY <2>1, <2>3 DEF Slice, Resumes, Completes
    <3> QED
      BY <2>3, <3>1 DEF OneCell, Blocking
  <2> QED
    BY <2>2, <2>3
<1>6. ASSUME NEW t \in Threads, UnmetGate(t) PROVE OneCell'
  BY <1>6, <1>1, <1>2 DEF UnmetGate
<1>7. ASSUME FinishPendingMotion PROVE OneCell'
  BY <1>7, <1>2 DEF FinishPendingMotion
<1> QED
  BY <1>1, <1>4, <1>5, <1>6, <1>7
     DEF Next, Resume, ClockBudgetStop, GateConds, GateDone, EndRun, vars, driveVars

\* Exactly one motion at a time: while a blocking motion is under way nothing is armed.
THEOREM OneCellAlways == Spec => []OneCell
<1>1. Init => OneCell
  BY DEF Init, OneCell
<1>2. TypeOK /\ OneCell /\ [Next]_vars => OneCell'
  BY OneCellStep
<1> QED
  BY <1>1, <1>2, TypeCorrect, PTL DEF Spec

-----------------------------------------------------------------------------
(***************************************************************************)
(* The abstract cell.                                                      *)
(***************************************************************************)

\* The fields of what is active and armed.
LEMMA MotionFields ==
    ASSUME TypeOK
    PROVE  /\ Blocking => /\ active \in MotionType /\ active.mode \in Modes
                          /\ active.sign \in {-1, 1} /\ active.left \in Nat
           /\ ~Blocking => active = NoMotion
           /\ Armed => pending.mode \in Modes /\ pending.sign \in {-1, 1}
           /\ ~Armed => pending = NoPending
<1>1. active \in MotionType \cup {NoMotion}
  BY DEF TypeOK
<1>2. pending \in [mode : Modes, sign : {-1, 1}] \cup {NoPending}
  BY DEF TypeOK
<1>3. \A m \in MotionType : m.thread # 0
  BY DEF MotionType, Threads
<1> QED
  BY <1>1, <1>2, <1>3 DEF Blocking, Armed, MotionType, Modes, NoMotion, NoPending

\* The cell is idle, closed or open, as the sequencer's two places say.
LEMMA CellCases ==
    ASSUME TypeOK
    PROVE  /\ Blocking => /\ Cell \in D!Closed /\ ~Cell.open /\ Cell.mode = active.mode
                          /\ Cell.sign = active.sign /\ Cell.left = active.left
           /\ ~Blocking /\ Armed => /\ Cell \in D!Open /\ Cell \notin D!Closed /\ Cell.open
                                    /\ Cell.mode = pending.mode /\ Cell.sign = pending.sign
           /\ ~Blocking /\ ~Armed => /\ Cell = D!Idle /\ Cell \notin D!Closed /\ ~Cell.open
                                     /\ Cell.mode = "idle" /\ Cell.sign = 0
<1>1. CASE Blocking
  <2>1. Cell = [mode |-> active.mode, sign |-> active.sign, left |-> active.left,
                open |-> FALSE]
    BY <1>1 DEF Cell
  <2> QED
    BY <1>1, <2>1, MotionFields DEF D!Closed, Modes
<1>2. CASE ~Blocking /\ Armed
  <2>1. Cell = [mode |-> pending.mode, sign |-> pending.sign, left |-> 0, open |-> TRUE]
    BY <1>2 DEF Cell
  <2> QED
    BY <1>2, <2>1, MotionFields DEF D!Open, D!Closed, Modes
<1>3. CASE ~Blocking /\ ~Armed
  <2>1. Cell = [mode |-> "idle", sign |-> 0, left |-> 0, open |-> FALSE]
    <3>1. pending = NoPending /\ Armed = FALSE
      BY <1>3, MotionFields DEF Armed
    <3>2. pending.mode = "idle" /\ pending.sign = 0
      BY <3>1 DEF NoPending
    <3> QED
      BY <1>3, <3>1, <3>2 DEF Cell
  <2>2. Cell = D!Idle /\ ~Cell.open /\ Cell.mode = "idle" /\ Cell.sign = 0
    BY <2>1 DEF D!Idle
  <2>3. Cell \notin D!Closed
    BY <2>2 DEF D!Closed
  <2> QED
    BY <1>3, <2>2, <2>3
<1> QED
  BY <1>1, <1>2, <1>3

CellTypeOK == Cell \in {D!Idle} \cup D!Closed \cup D!Open

LEMMA CellType == TypeOK => CellTypeOK
BY CellCases DEF CellTypeOK

LEMMA CellTypeNext == TypeOK' => CellTypeOK'
BY CellType, PTL

\* What a step that leaves both places and the pose alone is to the cell.
LEMMA StutterStep ==
    ASSUME UNCHANGED <<active, pending, pos, rot, now>>
    PROVE  UNCHANGED D!vars
BY DEF D!vars, Cell, Blocking, Armed

LEMMA CommandStep ==
    ASSUME TypeOK, TypeOK', OneCell, TakeoverPending
    PROVE  D!Command
<1>1. (IF Cell.open THEN IF LoopTick > 0 THEN Frame ELSE 0 ELSE 0) = Overrun
  BY CellCases DEF OneCell, Overrun, Armed, NoPending
<1>2. Cell' \in {D!Idle} \cup D!Closed \cup D!Open
  BY CellTypeNext DEF CellTypeOK
<1>3. D!Displaced(Cell, Overrun)
  <2>1. CASE Armed
    BY <2>1, CellCases DEF TakeoverPending, Displaced, D!Displaced, OneCell, Armed, NoPending
  <2>2. CASE ~Armed
    <3>1. Overrun = 0 /\ pos' = pos /\ rot' = rot
      BY <2>2 DEF TakeoverPending, Displaced, Overrun, Armed, TypeOK, NoPending
    <3>2. Cell.sign \in Int
      BY <2>2, CellCases, MotionFields
    <3>3. pos \in Int /\ rot \in Int
      BY DEF TypeOK
    <3> QED
      BY <3>1, <3>2, <3>3 DEF D!Displaced
  <2> QED
    BY <2>1, <2>2
<1> QED
  BY <1>1, <1>2, <1>3 DEF D!Command, TakeoverPending, Elapsed

-----------------------------------------------------------------------------
(***************************************************************************)
(* The steps.                                                              *)
(***************************************************************************)
LEMMA LeftUpdated ==
    ASSUME NEW c \in D!Closed, NEW k \in Nat
    PROVE  [c EXCEPT !.left = k]
             = [mode |-> c.mode, sign |-> c.sign, left |-> k, open |-> FALSE]
<1>1. c = [mode |-> c.mode, sign |-> c.sign, left |-> c.left, open |-> FALSE]
  BY DEF D!Closed
<1>2. DOMAIN c = {"mode", "sign", "left", "open"} /\ c.open = FALSE
  BY <1>1
<1> DEFINE u == [c EXCEPT !.left = k]
<1>3. u = [f \in {"mode", "sign", "left", "open"} |-> IF f = "left" THEN k ELSE c[f]]
  BY <1>2
<1>4. /\ u.mode = c.mode /\ u.sign = c.sign /\ u.left = k /\ u.open = FALSE
      /\ DOMAIN u = {"mode", "sign", "left", "open"}
  BY <1>2, <1>3
<1>5. u = [f \in {"mode", "sign", "left", "open"} |-> u[f]]
  BY <1>3
<1> HIDE DEF u
<1>6. u = [mode |-> c.mode, sign |-> c.sign, left |-> k, open |-> FALSE]
  BY <1>4, <1>5
<1> QED
  BY <1>6 DEF u

LEMMA SliceStep ==
    ASSUME TypeOK, TypeOK', OneCell, NEW dt \in Nat, Slice(dt),
           Blocking => dt <= active.left
    PROVE  D!Elapse
<1>1. now' - now = dt
  <2>1. now' = now + dt
    BY DEF Slice, Elapsed
  <2>2. now \in Nat
    BY DEF TypeOK
  <2> QED
    BY <2>1, <2>2
<1>2. Cell \in D!Closed => dt <= Cell.left
  BY CellCases
<1>3. D!Displaced(Cell, dt)
  <2>1. Displaced(MotionMode, MotionSign, dt)
    BY DEF Slice
  <2>2. CASE Blocking
    BY <2>1, <2>2, CellCases DEF Displaced, D!Displaced, MotionMode, MotionSign
  <2>3. CASE ~Blocking /\ Armed
    BY <2>1, <2>3, CellCases DEF Displaced, D!Displaced, MotionMode, MotionSign
  <2>4. CASE ~Blocking /\ ~Armed
    BY <2>1, <2>4, CellCases, MotionFields
       DEF Displaced, D!Displaced, MotionMode, MotionSign, NoPending
  <2> QED
    BY <2>2, <2>3, <2>4
<1>4. CASE Blocking
  <2>1. pending' = NoPending /\ pending = NoPending
    BY <1>4 DEF Slice, OneCell
  <2>2. CASE dt < active.left
    <3>1. active' = [active EXCEPT !.left = active.left - dt]
      BY <1>4, <2>2, MotionFields DEF Slice, Resumes, Completes
    <3>2. Cell' = [Cell EXCEPT !.left = Cell.left - dt]
      <4>1. /\ active'.thread # 0 /\ active'.mode = active.mode
            /\ active'.sign = active.sign /\ active'.left = active.left - dt
        BY <1>4, <3>1, MotionFields DEF MotionType, Blocking
      <4>2. Cell' = [mode |-> active.mode, sign |-> active.sign, left |-> active.left - dt,
                     open |-> FALSE]
        BY <4>1 DEF Cell, Blocking
      <4>3. active.left - dt \in Nat /\ Cell.left - dt = active.left - dt
        BY <1>4, <2>2, CellCases, MotionFields
      <4>4. [Cell EXCEPT !.left = active.left - dt] = Cell'
        BY <1>4, <4>2, <4>3, CellCases, LeftUpdated
      <4> QED
        BY <4>3, <4>4
    <3> QED
      BY <1>1, <1>2, <1>3, <1>4, <2>2, <3>2, CellCases DEF D!Elapse
  <2>3. CASE dt >= active.left
    <3>1. Cell' \in {D!Idle} \cup D!Closed
      <4>1. CellTypeOK'
        BY CellTypeNext
      <4>2. ~Armed'
        BY <2>1 DEF Armed, NoPending
      <4>3. Cell' \notin D!Open
        BY <4>2 DEF Cell, D!Open, Blocking, Armed
      <4> QED
        BY <4>1, <4>3 DEF CellTypeOK
    <3>2. ~(dt < Cell.left)
      BY <1>4, <2>3, CellCases, MotionFields
    <3> QED
      BY <1>1, <1>2, <1>3, <1>4, <3>1, <3>2, CellCases DEF D!Elapse
  <2> QED
    BY <2>2, <2>3, MotionFields, <1>4
<1>5. CASE ~Blocking
  <2>1. active' = active
    BY <1>5 DEF Slice, Resumes, Completes
  <2>2. pending' = pending \/ pending' = NoPending
    BY DEF Slice
  <2>3. CASE Armed
    <3>1. Cell' \in {Cell, D!Idle}
      <4>1. CASE pending' = pending
        BY <2>1, <4>1 DEF Cell, Blocking, Armed
      <4>2. CASE pending' = NoPending
        BY <1>5, <2>1, <4>2 DEF Cell, Blocking, Armed, NoPending, D!Idle
      <4> QED
        BY <2>2, <4>1, <4>2
    <3> QED
      BY <1>1, <1>2, <1>3, <1>5, <2>3, <3>1, CellCases DEF D!Elapse
  <2>4. CASE ~Armed
    <3>1. Cell' = Cell
      BY <1>5, <2>1, <2>2, <2>4, MotionFields DEF Cell, Blocking, Armed
    <3> QED
      BY <1>1, <1>2, <1>3, <1>5, <2>4, <3>1, CellCases DEF D!Elapse
  <2> QED
    BY <2>3, <2>4
<1> QED
  BY <1>4, <1>5

LEMMA AdvanceStep ==
    ASSUME TypeOK, TypeOK', OneCell, AdvanceClock
    PROVE  D!Elapse
<1>1. PICK d \in Events : (\A e \in Events : d <= e) /\ Slice(InBudget(d))
  BY DEF AdvanceClock
<1>2. d \in Nat /\ InBudget(d) \in Nat /\ InBudget(d) <= d
  BY EventsAreNat, InBudgetBounds DEF TypeOK
<1>3. Blocking => d <= active.left
  BY <1>1 DEF Events, Completion
<1>4. Blocking => active.left \in Nat
  BY MotionFields
<1>5. Blocking => InBudget(d) <= active.left
  BY <1>2, <1>3, <1>4
<1> QED
  BY <1>1, <1>2, <1>5, SliceStep

LEMMA RunoffStep ==
    ASSUME TypeOK, OneCell, pending.mode = "drive", Runoff(FieldCap), pending' = NoPending,
           active' = active
    PROVE  D!RunOff
<1>1. ~Blocking /\ Armed
  BY DEF OneCell, Armed, NoPending
<1>2. Cell' = D!Idle
  BY <1>1 DEF Cell, Blocking, Armed, NoPending, D!Idle
<1>3. InBudget(FieldCap) \in 0..FieldCap
  BY InBudgetBounds DEF TypeOK
<1>4. /\ Displaced("drive", pending.sign, InBudget(FieldCap))
      /\ now' = now + InBudget(FieldCap)
  BY DEF Runoff, Elapsed
<1>5. D!Displaced(Cell, InBudget(FieldCap))
  BY <1>1, <1>4, CellCases DEF Displaced, D!Displaced
<1> QED
  BY <1>1, <1>2, <1>3, <1>4, <1>5, CellCases DEF D!RunOff

LEMMA FinishStep ==
    ASSUME TypeOK, OneCell, FinishPendingMotion
    PROVE  D!RunOff \/ UNCHANGED D!vars
<1>1. pending' = NoPending /\ active' = active
  BY DEF FinishPendingMotion
<1>2. CASE pending.mode = "drive"
  BY <1>1, <1>2, RunoffStep DEF FinishPendingMotion
<1>3. CASE pending.mode = "turn"
  <2>1. ~Blocking /\ Armed
    BY <1>3 DEF OneCell, Armed, NoPending
  <2>2. Cell' = D!Idle
    BY <1>1, <2>1 DEF Cell, Blocking, Armed, NoPending, D!Idle
  <2>3. Displaced("turn", pending.sign, Quarter) /\ now' = now
    BY <1>3 DEF FinishPendingMotion
  <2>4. D!Displaced(Cell, Quarter)
    BY <1>3, <2>1, <2>3, CellCases DEF Displaced, D!Displaced
  <2> QED
    BY <1>3, <2>1, <2>2, <2>3, <2>4, CellCases DEF D!RunOff
<1>4. CASE pending.mode = "idle"
  <2>1. pending = NoPending
    BY <1>4, MotionFields DEF Armed
  <2>2. pos' = pos /\ rot' = rot /\ now' = now
    BY <1>4 DEF FinishPendingMotion, Displaced
  <2> QED
    BY <1>1, <2>1, <2>2, StutterStep
<1> QED
  BY <1>2, <1>3, <1>4, MotionFields DEF Armed, Modes

LEMMA BlockStep ==
    ASSUME TypeOK, TypeOK', OneCell, Step
    PROVE  D!Next \/ UNCHANGED D!vars
<1>1. CASE TakeoverPending
  BY <1>1, CommandStep DEF D!Next
<1>2. CASE UNCHANGED <<active, pending, pos, rot, now>>
  BY <1>2, StutterStep
<1>3. TakeoverPending \/ UNCHANGED <<active, pending, pos, rot, now>>
  BY DEF Step, BudgetStop, DriveFor, TurnFor, TurnToRotation, Drive, Turn,
         StopDriving, SetHeading, Wait, LoopPass, WaitUntil, ResetTimer, Instant,
         SetVariable, Broadcast, ReceiverEnd, Break, EndStack, StopProject,
         BlockingMotion, ContinuousMotion, ParkTime, driveVars, worldVars
<1> QED
  BY <1>1, <1>2, <1>3

LEMMA RefinementStep ==
    ASSUME TypeOK, TypeOK', OneCell, [Next]_vars
    PROVE  [D!Next]_(D!vars)
<1>1. CASE Step
  BY <1>1, BlockStep
<1>2. CASE AdvanceClock
  BY <1>2, AdvanceStep DEF D!Next
<1>3. ASSUME NEW t \in Threads, UnmetGate(t) PROVE D!Next \/ UNCHANGED D!vars
  <2>1. active' = active
    BY <1>3 DEF UnmetGate
  <2>2. CASE pending.mode = "drive"
    BY <1>3, <2>1, <2>2, RunoffStep DEF UnmetGate, D!Next
  <2>3. CASE pending.mode # "drive"
    BY <1>3, <2>1, <2>3, StutterStep DEF UnmetGate, worldVars
  <2> QED
    BY <2>2, <2>3
<1>4. CASE FinishPendingMotion
  BY <1>4, FinishStep DEF D!Next
<1>5. ASSUME \/ \E t \in Threads : Resume(t)
             \/ ClockBudgetStop \/ GateConds \/ GateDone \/ EndRun \/ UNCHANGED vars
      PROVE  UNCHANGED D!vars
  BY <1>5, StutterStep
     DEF Resume, ClockBudgetStop, GateConds, GateDone, EndRun, vars, driveVars, worldVars
<1> QED
  BY <1>1, <1>2, <1>3, <1>4, <1>5 DEF Next

\* The scheduler keeps the drivetrain's promise for every number of threads, every
\* program, policy, lockout and budget: the robot moves only with the clock, along the
\* one motion the last command left in the cell, and never beyond a motion's end.
THEOREM SequencerImplementsDrivetrain == Spec => ImplementsDrivetrain
<1>1. Init => D!Init
  <2> SUFFICES ASSUME Init PROVE D!Init
    OBVIOUS
  <2>1. ~Blocking /\ pending.mode = "idle" /\ pending.sign = 0 /\ Armed = FALSE
    BY DEF Init, Blocking, Armed, NoMotion, NoPending
  <2>2. Cell = D!Idle
    BY <2>1 DEF Cell, D!Idle
  <2> QED
    BY <2>2 DEF Init, D!Init
<1>2. TypeOK /\ TypeOK' /\ OneCell /\ [Next]_vars => [D!Next]_(D!vars)
  BY RefinementStep
<1> QED
  BY <1>1, <1>2, TypeCorrect, OneCellAlways, PTL DEF Spec, ImplementsDrivetrain, D!Spec

-----------------------------------------------------------------------------
(***************************************************************************)
(* A motion has one owner and every owner is accounted for; so run()       *)
(* forgets nobody.  The inductive invariant is Ownership: that the thread  *)
(* which commands the drivetrain is not itself parked on a motion needs    *)
(* RunnerMayRun, and that a motion taken back from the queue does not      *)
(* displace its owner needs QueueIsDistinct.  From it: who comes back from *)
(* a motion and why.  Then the broadcast guard, which is the set of        *)
(* broadcasts that some thread is inside of.                               *)
(***************************************************************************)
-----------------------------------------------------------------------------
(***************************************************************************)
(* The three ways a step treats the motions.                               *)
(***************************************************************************)

\* Nothing changes hands.
LEMMA MotionsKept ==
    ASSUME OneMotionOneOwner, QueueIsDistinct, active \in MotionType \cup {NoMotion},
           UNCHANGED <<active, resumeQ>>, pending' \in {pending, NoPending},
           \A t \in Threads : status'[t] = "parked_motion" <=> status[t] = "parked_motion"
    PROVE  OneMotionOneOwner' /\ QueueIsDistinct'
<1>1. QueueIsDistinct'
  BY DEF QueueIsDistinct
<1>2. Blocking' => status'[active'.thread] = "parked_motion" /\ ~Armed'
  BY DEF OneMotionOneOwner, Blocking, Armed, NoPending, MotionType, NoMotion
<1>3. \A t \in Threads : Queued(t)' <=> Queued(t)
  BY DEF Queued
<1> QED
  BY <1>1, <1>2, <1>3 DEF OneMotionOneOwner

\* What becomes of the superseded motion's owner, and of nobody else.
LEMMA SupersededOwner ==
    ASSUME TypeOK, Ownership, running # 0
    PROVE  /\ Superseded \in [Threads -> Statuses]
           /\ running \in Threads /\ running # active.thread
           /\ status[running] # "parked_motion" /\ ~Queued(running)
           /\ \A t \in Threads : t # active.thread => Superseded[t] = status[t]
           /\ Policy # "resume_after" /\ Blocking => Superseded[active.thread] # "parked_motion"
           /\ Policy = "resume_after" => Superseded = status
<1>1. running \in Threads /\ status \in [Threads -> Statuses]
  BY DEF TypeOK
<1>2. status[running] # "parked_motion"
  BY DEF Ownership, RunnerMayRun
<1>3. running # active.thread /\ ~Queued(running)
  BY <1>1, <1>2 DEF Ownership, OneMotionOneOwner
<1>4. Blocking => active.thread \in Threads
  BY DEF TypeOK, Blocking, MotionType, NoMotion
<1>5. Superseded \in [Threads -> Statuses]
  BY <1>1, <1>4 DEF Superseded, Statuses
<1>6. \A t \in Threads : t # active.thread => Superseded[t] = status[t]
  BY <1>1, <1>4 DEF Superseded
<1>7. Policy # "resume_after" /\ Blocking => Superseded[active.thread] # "parked_motion"
  BY <1>1, <1>4 DEF Superseded, Policies
<1>8. Policy = "resume_after" => Superseded = status
  BY <1>1, <1>4 DEF Superseded
<1> QED
  BY <1>1, <1>2, <1>3, <1>5, <1>6, <1>7, <1>8

\* The queue after a command: what was superseded, if the policy keeps it.
LEMMA QueueAfterCommand ==
    ASSUME TypeOK, Ownership, NotifyDrivetrainCommand
    PROVE  /\ \A t \in Threads :
                Queued(t)' <=> \/ Queued(t)
                               \/ Policy = "resume_after" /\ t = active.thread
           /\ \A i, j \in DOMAIN resumeQ' : resumeQ'[i].thread = resumeQ'[j].thread => i = j
           /\ Policy # "resume_after" => resumeQ' = <<>>
<1>1. CASE Blocking /\ Policy = "resume_after"
  <2>1. resumeQ \in Seq(MotionType) /\ active \in MotionType
    BY <1>1 DEF TypeOK, Blocking, NoMotion
  <2>2. resumeQ' = Append(resumeQ, active)
    BY <1>1 DEF NotifyDrivetrainCommand, Interrupted
  <2>3. /\ DOMAIN resumeQ = 1..Len(resumeQ) /\ Len(resumeQ) \in Nat
        /\ DOMAIN resumeQ' = 1..(Len(resumeQ) + 1)
        /\ \A i \in 1..Len(resumeQ) : resumeQ'[i] = resumeQ[i]
        /\ resumeQ'[Len(resumeQ) + 1] = active
    BY <2>1, <2>2
  <2>4. \A i \in DOMAIN resumeQ' : i \in DOMAIN resumeQ \/ i = Len(resumeQ) + 1
    BY <2>3
  <2>5. Len(resumeQ) + 1 \in DOMAIN resumeQ' /\ DOMAIN resumeQ \subseteq DOMAIN resumeQ'
    BY <2>3
  <2>6. \A t \in Threads : Queued(t)' <=> Queued(t) \/ t = active.thread
    BY <2>3, <2>4, <2>5 DEF Queued
  <2>7. \A i, j \in DOMAIN resumeQ' : resumeQ'[i].thread = resumeQ'[j].thread => i = j
    BY <2>3, <2>4 DEF Ownership, QueueIsDistinct
  <2> QED
    BY <1>1, <2>6, <2>7
<1>2. CASE ~(Blocking /\ Policy = "resume_after")
  <2>1. resumeQ' = resumeQ
    BY <1>2 DEF NotifyDrivetrainCommand, Interrupted
  <2>2. \A t \in Threads : Queued(t)' <=> Queued(t)
    BY <2>1 DEF Queued
  <2>3. \A t \in Threads : ~(Policy = "resume_after" /\ t = active.thread)
    BY <1>2 DEF Blocking, Threads
  <2> QED
    BY <2>1, <2>2, <2>3 DEF Ownership, QueueIsDistinct
<1> QED
  BY <1>1, <1>2

\* A command that leaves no blocking motion behind.
LEMMA MotionReleased ==
    ASSUME TypeOK, Ownership, running # 0, NotifyDrivetrainCommand, active' = NoMotion,
           \A t \in Threads : status'[t] = "parked_motion" <=> Superseded[t] = "parked_motion"
    PROVE  OneMotionOneOwner' /\ QueueIsDistinct'
<1>1. active'.thread = 0 /\ \A t \in Threads : t # 0
  BY DEF NoMotion, Threads
<1>2. QueueIsDistinct'
  <2>1. resumeQ' \in Seq(MotionType)
    BY NotifyType
  <2>2. \A i \in DOMAIN resumeQ' : resumeQ'[i].thread # 0
    <3>1. \A m \in MotionType : m.thread # 0
      BY DEF MotionType, Threads
    <3>2. \A i \in DOMAIN resumeQ' : resumeQ'[i] \in MotionType
      BY <2>1
    <3> QED
      BY <3>1, <3>2
  <2> QED
    BY <1>1, <2>2, QueueAfterCommand DEF QueueIsDistinct
<1>3. \A t \in Threads :
        status'[t] = "parked_motion" <=> (t = active'.thread \/ Queued(t)')
  <2> TAKE t \in Threads
  <2>1. status[t] = "parked_motion" <=> (t = active.thread \/ Queued(t))
    BY DEF Ownership, OneMotionOneOwner
  <2>2. CASE t = active.thread
    <3>1. Blocking /\ ~Queued(t)
      BY <2>2, <1>1 DEF Blocking, Ownership, QueueIsDistinct, Queued
    <3> QED
      BY <1>1, <2>1, <2>2, <3>1, SupersededOwner, QueueAfterCommand
  <2>3. CASE t # active.thread
    BY <1>1, <2>1, <2>3, SupersededOwner, QueueAfterCommand
  <2> QED
    BY <2>2, <2>3
<1>4. ~Blocking'
  BY <1>1 DEF Blocking
<1> QED
  BY <1>2, <1>3, <1>4 DEF OneMotionOneOwner

\* A command that claims the drivetrain for the running thread.
LEMMA MotionClaimed ==
    ASSUME TypeOK, Ownership, running # 0, NotifyDrivetrainCommand,
           active'.thread = running, pending' = NoPending,
           status' = [Superseded EXCEPT ![running] = "parked_motion"]
    PROVE  OneMotionOneOwner' /\ QueueIsDistinct'
<1>1. running \in Threads /\ running # active.thread /\ ~Queued(running)
  BY SupersededOwner
<1>2. \A t \in Threads : t = running => ~Queued(t)'
  BY <1>1, QueueAfterCommand
<1>3. QueueIsDistinct'
  <2>1. \A i \in DOMAIN resumeQ' : resumeQ'[i].thread # running
    BY <1>1, <1>2 DEF Queued
  <2> QED
    BY <2>1, QueueAfterCommand DEF QueueIsDistinct
<1>4. \A t \in Threads :
        status'[t] = "parked_motion" <=> (t = active'.thread \/ Queued(t)')
  <2> TAKE t \in Threads
  <2>1. status[t] = "parked_motion" <=> (t = active.thread \/ Queued(t))
    BY DEF Ownership, OneMotionOneOwner
  <2>2. CASE t = running
    BY <1>1, <2>2, SupersededOwner
  <2>3. CASE t = active.thread
    <3>1. Blocking /\ ~Queued(t)
      BY <2>3 DEF Blocking, Threads, Ownership, QueueIsDistinct, Queued
    <3> QED
      BY <1>1, <2>1, <2>3, <3>1, SupersededOwner, QueueAfterCommand
  <2>4. CASE t # active.thread /\ t # running
    BY <1>1, <2>1, <2>4, SupersededOwner, QueueAfterCommand
  <2> QED
    BY <2>2, <2>3, <2>4
<1>5. Blocking' => status'[active'.thread] = "parked_motion" /\ ~Armed'
  BY <1>1, SupersededOwner DEF Armed, NoPending
<1> QED
  BY <1>3, <1>4, <1>5 DEF OneMotionOneOwner

-----------------------------------------------------------------------------
(***************************************************************************)
(* The actions.                                                            *)
(***************************************************************************)
LEMMA OwnBlockingMotion ==
    ASSUME TypeOK, Ownership, NEW op, Commands(op), NEW mode, NEW sign, NEW length,
           BlockingMotion(mode, sign, length)
    PROVE  Ownership'
<1>1. running # 0 /\ NotifyDrivetrainCommand /\ pending' = NoPending /\ running' = 0
      /\ phase' = phase /\ gating' = gating
  BY DEF Commands, Executes, BlockingMotion, schedVars
<1>2. phase \in {"sweep", "gate"}
  BY <1>1 DEF Ownership, RunnerMayRun
<1>3. CASE phase = "gate"
  <2>1. active' = NoMotion /\ status' = [Superseded EXCEPT ![running] = "gated"]
    BY <1>3 DEF BlockingMotion, Yielded
  <2>2. \A t \in Threads : status'[t] = "parked_motion" <=> Superseded[t] = "parked_motion"
    BY <1>1, <2>1, SupersededOwner
  <2>3. \A t \in gating : status'[t] = "parked_cond" /\ t # running'
    <3> TAKE t \in gating
    <3>1. t \in Threads /\ t # running /\ status[t] = "parked_cond"
      BY <1>3 DEF TypeOK, Ownership, RunnerMayRun
    <3>2. t # active.thread
      BY <3>1 DEF Ownership, OneMotionOneOwner
    <3> QED
      BY <1>1, <2>1, <3>1, <3>2, SupersededOwner DEF Threads
  <2> QED
    BY <1>1, <2>1, <2>2, <2>3, MotionReleased DEF Ownership, RunnerMayRun
<1>4. CASE phase = "sweep"
  <2>1. active'.thread = running
    BY <1>4 DEF BlockingMotion
  <2>2. status' = [Superseded EXCEPT ![running] = "parked_motion"]
    BY <1>4 DEF BlockingMotion, Yielded
  <2>3. OneMotionOneOwner' /\ QueueIsDistinct'
    BY <1>1, <2>1, <2>2, MotionClaimed
  <2> QED
    BY <1>1, <1>4, <2>3 DEF Ownership, RunnerMayRun
<1> QED
  BY <1>2, <1>3, <1>4

\* The running thread and the threads to be gated are left as they were.
LEMMA RunnerKept ==
    ASSUME RunnerMayRun, UNCHANGED <<running, phase, gating>>,
           \A t \in {running} \cup gating : status'[t] = status[t]
    PROVE  RunnerMayRun'
BY DEF RunnerMayRun

\* drive, turn and stop: the thread goes on.
LEMMA OwnReleasingCommand ==
    ASSUME TypeOK, Ownership, running # 0, NotifyDrivetrainCommand, active' = NoMotion,
           status' = Superseded, UNCHANGED <<running, phase, gating>>
    PROVE  Ownership'
<1>1. OneMotionOneOwner' /\ QueueIsDistinct'
  BY MotionReleased
<1>2. phase = "gate" \/ phase = "sweep"
  BY DEF Ownership, RunnerMayRun
<1>3. status'[running] = status[running]
  BY SupersededOwner
<1>4. phase = "gate" => \A t \in gating : status'[t] = status[t]
  <2> SUFFICES ASSUME phase = "gate", NEW t \in gating PROVE status'[t] = status[t]
    OBVIOUS
  <2>1. t \in Threads /\ status[t] = "parked_cond"
    BY DEF TypeOK, Ownership, RunnerMayRun
  <2>2. t # active.thread
    BY <2>1 DEF Ownership, OneMotionOneOwner
  <2> QED
    BY <2>1, <2>2, SupersededOwner
<1>5. RunnerMayRun'
  BY <1>3, <1>4 DEF Ownership, RunnerMayRun
<1> QED
  BY <1>1, <1>5 DEF Ownership

\* Steps that leave the motions alone and park, gate or end the running thread.
LEMMA OwnYield ==
    ASSUME TypeOK, Ownership, running # 0, UNCHANGED <<active, resumeQ, pending, phase, gating>>,
           running' = 0, NEW st \in Statuses \ {"parked_motion"},
           status' = [status EXCEPT ![running] = st]
    PROVE  Ownership'
<1>1. running \in Threads /\ status \in [Threads -> Statuses] /\ gating \subseteq Threads
      /\ active \in MotionType \cup {NoMotion}
  BY DEF TypeOK
<1>2. status[running] # "parked_motion"
  BY DEF Ownership, RunnerMayRun
<1>3. \A t \in Threads : status'[t] = "parked_motion" <=> status[t] = "parked_motion"
  BY <1>1, <1>2
<1>4. OneMotionOneOwner' /\ QueueIsDistinct'
  BY <1>1, <1>3, MotionsKept DEF Ownership
<1>5. RunnerMayRun'
  BY <1>1 DEF Ownership, RunnerMayRun, Threads
<1> QED
  BY <1>4, <1>5 DEF Ownership

\* Steps that leave the motions and the statuses alone.
LEMMA OwnStatusKept ==
    ASSUME TypeOK, Ownership, UNCHANGED <<active, resumeQ, status>>,
           pending' \in {pending, NoPending}, RunnerMayRun'
    PROVE  Ownership'
<1>1. active \in MotionType \cup {NoMotion}
  BY DEF TypeOK
<1> QED
  BY <1>1, MotionsKept DEF Ownership

\* A slice: the completed motion's owner runs again, and the motion resumed in its
\* place is the one its own owner has been parked on all along.
LEMMA OwnSlice ==
    ASSUME TypeOK, Ownership, NEW dt, Slice(dt), running = 0,
           UNCHANGED <<running, phase, gating>>, phase = "sweep"
    PROVE  Ownership'
<1>1. /\ active \in MotionType \cup {NoMotion} /\ resumeQ \in Seq(MotionType)
      /\ status \in [Threads -> Statuses]
      /\ \A t \in Threads : t # 0
  BY DEF TypeOK, Threads
<1>2. \A t \in Threads :
        status'[t] = "parked_motion"
          <=> status[t] = "parked_motion" /\ ~(Completes(dt) /\ t = active.thread)
  <2>1. Woken \subseteq CondParked
    BY DEF Woken, Satisfied
  <2>2. \A t \in Woken : status[t] = "parked_cond"
    BY <2>1 DEF CondParked
  <2> QED
    BY <1>1, <2>2 DEF Slice, Rested
<1>3. Blocking => pending = NoPending
  <2>1. pending \in [mode : Modes, sign : {-1, 1}] \cup {NoPending}
    BY DEF TypeOK
  <2>2. Blocking => pending.mode = "idle"
    BY DEF Ownership, OneMotionOneOwner, Armed
  <2> QED
    BY <2>1, <2>2 DEF Modes
<1>4. pending' \in {pending, NoPending}
  BY DEF Slice
<1>5. CASE Resumes(dt)
  <2>1. Blocking /\ Completes(dt) /\ resumeQ # <<>> /\ Policy = "resume_after"
    BY <1>5 DEF Resumes, Completes
  <2>2. active' = Head(resumeQ) /\ resumeQ' = Tail(resumeQ)
    BY <1>5 DEF Slice
  <2>3. /\ Len(resumeQ) \in Nat \ {0} /\ DOMAIN resumeQ = 1..Len(resumeQ)
        /\ active' = resumeQ[1] /\ resumeQ[1] \in MotionType
        /\ DOMAIN resumeQ' = 1..(Len(resumeQ) - 1)
        /\ \A i \in 1..(Len(resumeQ) - 1) : resumeQ'[i] = resumeQ[i + 1]
    BY <1>1, <2>1, <2>2
  <2>4. active'.thread \in Threads
    BY <2>3 DEF MotionType
  <2>5. \A t \in Threads : Queued(t) <=> (t = active'.thread \/ Queued(t)')
    <3> TAKE t \in Threads
    <3>1. ASSUME Queued(t) PROVE t = active'.thread \/ Queued(t)'
      <4>1. PICK i \in DOMAIN resumeQ : resumeQ[i].thread = t
        BY <3>1 DEF Queued
      <4>2. CASE i = 1
        BY <2>3, <4>1, <4>2
      <4>3. CASE i # 1
        <5>1. i - 1 \in DOMAIN resumeQ' /\ resumeQ'[i - 1] = resumeQ[i]
          BY <2>3, <4>1, <4>3
        <5> QED
          BY <4>1, <5>1 DEF Queued
      <4> QED
        BY <4>2, <4>3
    <3>2. ASSUME t = active'.thread PROVE Queued(t)
      BY <2>3, <3>2 DEF Queued
    <3>3. ASSUME Queued(t)' PROVE Queued(t)
      <4>1. PICK i \in DOMAIN resumeQ' : resumeQ'[i].thread = t
        BY <3>3 DEF Queued
      <4>2. i + 1 \in DOMAIN resumeQ /\ resumeQ[i + 1].thread = t
        BY <2>3, <4>1
      <4> QED
        BY <4>2 DEF Queued
    <3> QED
      BY <3>1, <3>2, <3>3
  <2>6. \A t \in Threads : t = active.thread => ~Queued(t)
    BY DEF Ownership, QueueIsDistinct, Queued
  <2>7. \A t \in Threads :
          status'[t] = "parked_motion" <=> (t = active'.thread \/ Queued(t)')
    <3> TAKE t \in Threads
    <3>1. status[t] = "parked_motion" <=> (t = active.thread \/ Queued(t))
      BY DEF Ownership, OneMotionOneOwner
    <3> QED
      BY <1>2, <2>1, <2>5, <2>6, <3>1
  <2>8. QueueIsDistinct'
    <3>1. \A i, j \in DOMAIN resumeQ : resumeQ[i].thread = resumeQ[j].thread => i = j
      BY DEF Ownership, QueueIsDistinct
    <3>2. \A i, j \in DOMAIN resumeQ' : resumeQ'[i].thread = resumeQ'[j].thread => i = j
      <4> TAKE i \in DOMAIN resumeQ', j \in DOMAIN resumeQ'
      <4>1. /\ i + 1 \in DOMAIN resumeQ /\ j + 1 \in DOMAIN resumeQ
            /\ resumeQ'[i] = resumeQ[i + 1] /\ resumeQ'[j] = resumeQ[j + 1]
            /\ i \in Nat /\ j \in Nat
        BY <2>3
      <4> HAVE resumeQ'[i].thread = resumeQ'[j].thread
      <4>2. i + 1 = j + 1
        BY <3>1, <4>1
      <4> QED
        BY <4>1, <4>2
    <3>3. \A i \in DOMAIN resumeQ' : resumeQ'[i].thread # active'.thread
      <4> TAKE i \in DOMAIN resumeQ'
      <4>1. /\ i + 1 \in DOMAIN resumeQ /\ 1 \in DOMAIN resumeQ /\ i + 1 # 1
            /\ resumeQ'[i] = resumeQ[i + 1]
        BY <2>3
      <4> QED
        BY <2>3, <3>1, <4>1
    <3> QED
      BY <2>1, <3>2, <3>3 DEF QueueIsDistinct
  <2>9. Blocking' => status'[active'.thread] = "parked_motion" /\ ~Armed'
    BY <1>3, <1>4, <2>1, <2>4, <2>7 DEF Armed, NoPending
  <2> QED
    BY <2>7, <2>8, <2>9 DEF Ownership, OneMotionOneOwner, RunnerMayRun
<1>6. CASE ~Resumes(dt) /\ Completes(dt)
  <2>1. Blocking /\ active' = NoMotion /\ resumeQ' = resumeQ
    BY <1>6 DEF Slice, Completes
  <2>2. active'.thread = 0 /\ \A t \in Threads : Queued(t)' <=> Queued(t)
    BY <2>1 DEF NoMotion, Queued
  <2>3. \A i \in DOMAIN resumeQ : resumeQ[i].thread # 0
    <3>1. \A m \in MotionType : m.thread # 0
      BY DEF MotionType, Threads
    <3> QED
      BY <1>1, <3>1
  <2>4. QueueIsDistinct'
    BY <2>1, <2>2, <2>3 DEF Ownership, QueueIsDistinct
  <2>5. \A t \in Threads : t = active.thread => ~Queued(t)
    BY DEF Ownership, QueueIsDistinct, Queued
  <2>6. \A t \in Threads :
          status'[t] = "parked_motion" <=> (t = active'.thread \/ Queued(t)')
    <3> TAKE t \in Threads
    <3>1. status[t] = "parked_motion" <=> (t = active.thread \/ Queued(t))
      BY DEF Ownership, OneMotionOneOwner
    <3> QED
      BY <1>1, <1>2, <1>6, <2>2, <2>5, <3>1
  <2>7. ~Blocking'
    BY <2>2 DEF Blocking
  <2> QED
    BY <2>4, <2>6, <2>7 DEF Ownership, OneMotionOneOwner, RunnerMayRun
<1>7. CASE ~Completes(dt)
  <2>1. resumeQ' = resumeQ /\ active'.thread = active.thread
    BY <1>1, <1>7 DEF Slice, Resumes, MotionType, NoMotion, Blocking
  <2>2. \A t \in Threads : status'[t] = "parked_motion" <=> status[t] = "parked_motion"
    BY <1>2, <1>7
  <2>3. \A t \in Threads : Queued(t)' <=> Queued(t)
    BY <2>1 DEF Queued
  <2>4. QueueIsDistinct'
    BY <2>1 DEF Ownership, QueueIsDistinct
  <2>5. Blocking' => status'[active'.thread] = "parked_motion" /\ ~Armed'
    BY <1>1, <1>3, <1>4, <2>1, <2>2
       DEF Ownership, OneMotionOneOwner, Blocking, Armed, NoPending, MotionType, NoMotion
  <2>6. OneMotionOneOwner'
    BY <2>1, <2>2, <2>3, <2>5 DEF Ownership, OneMotionOneOwner
  <2> QED
    BY <2>4, <2>6 DEF Ownership, RunnerMayRun
<1> QED
  BY <1>5, <1>6, <1>7

\* A gated thread was parked on its condition, so it owned no motion.
LEMMA OwnUnmetGate ==
    ASSUME TypeOK, Ownership, NEW t \in Threads, UnmetGate(t)
    PROVE  Ownership'
<1>1. /\ phase = "gate" /\ phase' = "gate" /\ running = 0 /\ t \in gating
      /\ gating' = gating \ {t} /\ UNCHANGED <<active, resumeQ>>
      /\ pending' \in {pending, NoPending}
  BY DEF UnmetGate
<1>2. status[t] = "parked_cond" /\ \A u \in gating : status[u] = "parked_cond"
  BY <1>1 DEF Ownership, RunnerMayRun
<1>3. /\ status \in [Threads -> Statuses] /\ gating \subseteq Threads
      /\ active \in MotionType \cup {NoMotion}
      /\ \A u \in Threads : u # 0
  BY DEF TypeOK, Threads
<1>4. \A u \in Threads : status'[u] = "parked_motion" <=> status[u] = "parked_motion"
  BY <1>2, <1>3 DEF UnmetGate
<1>5. OneMotionOneOwner' /\ QueueIsDistinct'
  BY <1>1, <1>3, <1>4, MotionsKept DEF Ownership
<1>6. RunnerMayRun'
  BY <1>1, <1>2, <1>3 DEF UnmetGate, RunnerMayRun
<1> QED
  BY <1>5, <1>6 DEF Ownership

LEMMA OwnStep ==
    ASSUME TypeOK, Ownership, Step
    PROVE  Ownership'
<1>1. running # 0
  BY DEF Step, BudgetStop, DriveFor, TurnFor, TurnToRotation, Drive, Turn,
         StopDriving, SetHeading, Wait, LoopPass, WaitUntil, ResetTimer, Instant, SetVariable,
         Broadcast, ReceiverEnd, Break, EndStack, StopProject, Commands, Executes
<1>2. ASSUME NEW op, Commands(op), NEW mode, NEW sign, ContinuousMotion(mode, sign)
      PROVE  Ownership'
  <2>1. CASE Reissued(mode, sign)
    <3>1. UNCHANGED <<threadVars, driveVars, running, schedVars>>
      BY <1>2, <2>1 DEF ContinuousMotion
    <3> QED
      BY <3>1, OwnStatusKept, RunnerKept DEF Ownership, threadVars, driveVars, schedVars
  <2>2. CASE ~Reissued(mode, sign)
    BY <1>1, <1>2, <2>2, OwnReleasingCommand DEF ContinuousMotion, schedVars
  <2> QED
    BY <2>1, <2>2
<1>3. ASSUME StopDriving PROVE Ownership'
  BY <1>1, <1>3, OwnReleasingCommand DEF StopDriving, schedVars
<1>4. ASSUME UNCHANGED <<status, active, resumeQ, running, phase, gating>>,
             pending' \in {pending, NoPending}
      PROVE  Ownership'
  BY <1>4, OwnStatusKept, RunnerKept DEF Ownership
<1>5. ASSUME NEW parked \in Statuses \ {"parked_motion"}, status' = Yielded(status, parked),
             running' = 0, UNCHANGED <<active, resumeQ, pending, phase, gating>>
      PROVE  Ownership'
  <2>1. PICK st \in Statuses \ {"parked_motion"} : status' = [status EXCEPT ![running] = st]
    BY <1>5 DEF Yielded, Statuses
  <2> QED
    BY <1>1, <1>5, <2>1, OwnYield
<1>6. ASSUME NEW seconds, ParkTime(seconds) PROVE Ownership'
  BY <1>5, <1>6 DEF ParkTime, Statuses, driveVars, schedVars
<1>7. ASSUME NEW c, WaitUntil(c) PROVE Ownership'
  <2>1. CASE HoldsNow(c)
    BY <1>4, <1>7, <2>1 DEF WaitUntil, threadVars, driveVars, schedVars
  <2>2. CASE ~HoldsNow(c)
    BY <1>5, <1>7, <2>2 DEF WaitUntil, Statuses, driveVars, schedVars
  <2> QED
    BY <2>1, <2>2
<1>8. ASSUME BudgetStop \/ StopProject PROVE Ownership'
  <2>1. /\ UNCHANGED <<status, active, resumeQ, pending>>
        /\ running' = 0 /\ phase' = "stopped"
    BY <1>8 DEF BudgetStop, StopProject, threadVars, driveVars
  <2>2. RunnerMayRun'
    BY <2>1 DEF RunnerMayRun
  <2> QED
    BY <2>1, <2>2, OwnStatusKept
<1>9. ASSUME Break \/ EndStack PROVE Ownership'
  <2>1. CASE UNCHANGED <<status, running>>
    BY <1>4, <1>9, <2>1 DEF Break, EndStack, driveVars, schedVars
  <2>2. CASE ~(UNCHANGED <<status, running>>)
    <3>1. PICK st \in {"gated", "done"} : status' = [status EXCEPT ![running] = st]
      BY <1>9, <2>2 DEF Break, EndStack
    <3>2. running' = 0 /\ UNCHANGED <<active, resumeQ, pending, phase, gating>>
      BY <1>9, <2>2 DEF Break, EndStack, driveVars, schedVars
    <3>3. st \in Statuses \ {"parked_motion"}
      BY DEF Statuses
    <3> QED
      BY <1>1, <3>1, <3>2, <3>3, OwnYield
  <2> QED
    BY <2>1, <2>2
<1>10. ASSUME \/ ResetTimer \/ Instant \/ ReceiverEnd \/ SetHeading
              \/ \E v \in Values : SetVariable(v)
              \/ \E k \in Keys : Broadcast(k)
       PROVE  Ownership'
  BY <1>4, <1>10 DEF ResetTimer, Instant, ReceiverEnd, SetHeading, SetVariable,
                     Broadcast, threadVars, driveVars, schedVars
<1>11. ASSUME NEW s \in Signs, Drive(s) \/ Turn(s) PROVE Ownership'
  BY <1>2, <1>11 DEF Drive, Turn
<1>12. ASSUME NEW s \in Signs, NEW d \in Lengths, DriveFor(s, d) \/ TurnFor(s, d)
       PROVE  Ownership'
  BY <1>12, OwnBlockingMotion DEF DriveFor, TurnFor
<1>13. ASSUME NEW r \in Targets, TurnToRotation(r) PROVE Ownership'
  BY <1>13, OwnBlockingMotion DEF TurnToRotation
<1> QED
  BY <1>3, <1>6, <1>7, <1>8, <1>9, <1>10, <1>11, <1>12, <1>13 DEF Step, Wait, LoopPass

LEMMA OwnNext ==
    ASSUME TypeOK, Ownership, [Next]_vars
    PROVE  Ownership'
<1>1. ASSUME NEW t \in Threads, Resume(t) PROVE Ownership'
  <2>1. UNCHANGED <<status, active, resumeQ, pending>> /\ running' = t
        /\ phase = "sweep" /\ phase' = "sweep" /\ status[t] = "runnable"
    BY <1>1 DEF Resume, NextInSweep, Runnable, threadVars, driveVars
  <2>2. RunnerMayRun'
    BY <2>1 DEF RunnerMayRun
  <2> QED
    BY <2>1, <2>2, OwnStatusKept
<1>2. ASSUME AdvanceClock PROVE Ownership'
  <2>1. PICK dt : Slice(dt)
    BY <1>2 DEF AdvanceClock
  <2> QED
    BY <1>2, <2>1, OwnSlice DEF AdvanceClock, Waiting, Quiescent
<1>3. ASSUME ClockBudgetStop \/ GateConds \/ GateDone \/ EndRun \/ FinishPendingMotion
      PROVE  Ownership'
  <2>1. UNCHANGED <<status, active, resumeQ>> /\ pending' \in {pending, NoPending}
    BY <1>3 DEF ClockBudgetStop, GateConds, GateDone, EndRun, FinishPendingMotion,
                threadVars, driveVars
  <2>2. RunnerMayRun'
    <3>1. CASE GateConds
      BY <3>1 DEF GateConds, Waiting, Quiescent, CondParked, RunnerMayRun, Threads, threadVars
    <3>2. CASE ClockBudgetStop \/ EndRun
      BY <3>2 DEF ClockBudgetStop, EndRun, Waiting, Quiescent, RunnerMayRun
    <3>3. CASE GateDone
      BY <3>3 DEF GateDone, RunnerMayRun
    <3>4. CASE FinishPendingMotion
      BY <3>4 DEF FinishPendingMotion, Ownership, RunnerMayRun
    <3> QED
      BY <1>3, <3>1, <3>2, <3>3, <3>4
  <2> QED
    BY <2>1, <2>2, OwnStatusKept
<1>4. ASSUME UNCHANGED vars PROVE Ownership'
  <2>1. UNCHANGED <<status, active, resumeQ, pending, running, phase, gating>>
    BY <1>4 DEF vars, threadVars, driveVars, schedVars
  <2> QED
    BY <2>1, OwnStatusKept, RunnerKept DEF Ownership
<1> QED
  BY <1>1, <1>2, <1>3, <1>4, OwnStep, OwnUnmetGate DEF Next

-----------------------------------------------------------------------------
\* Exactly one blocking motion at a time, its thread parked on it; every other thread
\* parked on a motion is queued, once; and the thread that runs is not itself parked.
THEOREM OwnershipAlways == Spec => []Ownership
<1>1. Init => Ownership
  BY DEF Init, Ownership, OneMotionOneOwner, QueueIsDistinct, RunnerMayRun, Queued, Blocking,
         NoMotion, Threads
<1>2. TypeOK /\ Ownership /\ [Next]_vars => Ownership'
  BY OwnNext
<1> QED
  BY <1>1, <1>2, TypeCorrect, PTL DEF Spec

\* The run is over only when it is quiet: nothing is left that a slice could complete, and
\* an interrupted motion's owner is still there only under resume_after.
LEMMA EndForgetsNobody ==
    ASSUME TypeOK, Ownership, NobodyLeftParked, [Next]_vars
    PROVE  NobodyLeftParked'
<1> SUFFICES ASSUME phase' \in {"ended", "finished"}, Policy # "resume_after"
             PROVE  Parked' = {}
  BY DEF NobodyLeftParked
<1>1. CASE EndRun
  <2>1. Parked' = Parked
    BY <1>1 DEF EndRun, Parked, threadVars
  <2>2. CASE Events = {} /\ CondParked = {}
    <3>1. ~Blocking /\ \A t \in Threads : status[t] \notin {"parked_time", "parked_cond"}
      BY <2>2 DEF Events, Completion, Wakes, CondParked
    <3>2. \A t \in Threads : ~Queued(t)
      BY DEF Ownership, QueueIsDistinct, Queued
    <3>3. \A t \in Threads : status[t] # "parked_motion"
      BY <3>1, <3>2 DEF Ownership, OneMotionOneOwner, Blocking, Threads
    <3> QED
      BY <2>1, <3>1, <3>3 DEF Parked
  <2> QED
    BY <1>1, <2>1, <2>2 DEF EndRun
<1>2. CASE UNCHANGED status /\ phase \in {"ended", "finished"}
  BY <1>2 DEF NobodyLeftParked, Parked
<1>3. CASE Step
  <2>1. running # 0 => phase \in {"sweep", "gate"}
    BY DEF Ownership, RunnerMayRun
  <2>2. running # 0 /\ phase' \in {phase, "stopped"}
    BY <1>3 DEF Step, BudgetStop, DriveFor, TurnFor, TurnToRotation, Drive, Turn,
         StopDriving, SetHeading, Wait, LoopPass, WaitUntil, ResetTimer, Instant, SetVariable,
         Broadcast, ReceiverEnd, Break, EndStack, StopProject, Commands, Executes,
         BlockingMotion, ContinuousMotion, ParkTime, schedVars
  <2> QED
    BY <2>1, <2>2
<1>4. ASSUME NEW t \in Threads, Resume(t) \/ UnmetGate(t) PROVE phase' \in {"sweep", "gate"}
  BY <1>4 DEF Resume, UnmetGate
<1>5. ASSUME AdvanceClock \/ ClockBudgetStop \/ GateConds \/ GateDone
      PROVE  phase' \in {"sweep", "gate", "stopped"}
  BY <1>5 DEF AdvanceClock, ClockBudgetStop, GateConds, GateDone, Waiting, Quiescent
<1>6. CASE FinishPendingMotion \/ UNCHANGED vars
  BY <1>2, <1>6 DEF FinishPendingMotion, vars, threadVars, schedVars
<1> QED
  BY <1>1, <1>3, <1>4, <1>5, <1>6 DEF Next

\* run() leaves no thread behind: when it returns, every thread has ended or was gated.
THEOREM NobodyForgotten == Spec => []NobodyLeftParked
<1>1. Init => NobodyLeftParked
  BY DEF Init, NobodyLeftParked
<1>2. TypeOK /\ Ownership /\ NobodyLeftParked /\ [Next]_vars => NobodyLeftParked'
  BY EndForgetsNobody
<1> QED
  BY <1>1, <1>2, TypeCorrect, OwnershipAlways, PTL DEF Spec

-----------------------------------------------------------------------------
(***************************************************************************)
(* Whose steps do what: a blocking motion gives its thread back when it is *)
(* over, and a locked-out stack touches none.                              *)
(***************************************************************************)
\* A block changes the status of the thread that executes it and, if it is a command, of
\* the thread whose motion it supersedes.
LEMMA BlockStatuses ==
    ASSUME TypeOK, Step
    PROVE  /\ running \in Threads
           /\ \A t \in Threads : \/ t = running
                                 \/ status'[t] = status[t]
                                 \/ t = active.thread /\ running \in writers'
<1>1. running \in Threads
  BY DEF TypeOK, Step, BudgetStop, DriveFor, TurnFor, TurnToRotation, Drive, Turn,
         StopDriving, SetHeading, Wait, LoopPass, WaitUntil, ResetTimer, Instant, SetVariable,
         Broadcast, ReceiverEnd, Break, EndStack, StopProject, Commands, Executes
<1>2. status \in [Threads -> Statuses]
  BY DEF TypeOK
<1>3. \A t \in Threads : t # active.thread => Superseded[t] = status[t]
  BY <1>2 DEF Superseded
<1>4. Superseded \in [Threads -> Statuses]
  BY <1>2 DEF Superseded, Statuses
<1>5. ASSUME NEW st \in [Threads -> Statuses], NEW parked, NEW t \in Threads, t # running
      PROVE  Yielded(st, parked)[t] = st[t]
  BY <1>5 DEF Yielded
<1>6. ASSUME NotifyDrivetrainCommand, NEW t \in Threads, t # running,
             \/ status' = Superseded
             \/ \E parked \in Statuses : status' = Yielded(Superseded, parked)
      PROVE  status'[t] = status[t] \/ (t = active.thread /\ running \in writers')
  <2>1. running \in writers'
    BY <1>6 DEF NotifyDrivetrainCommand
  <2>2. status'[t] = Superseded[t]
    BY <1>4, <1>5, <1>6
  <2> QED
    BY <1>3, <2>1, <2>2
<1>7. ASSUME NEW mode, NEW sign, NEW length, BlockingMotion(mode, sign, length),
             NEW t \in Threads, t # running
      PROVE  status'[t] = status[t] \/ (t = active.thread /\ running \in writers')
  BY <1>6, <1>7 DEF BlockingMotion, Statuses
<1>8. ASSUME NEW mode, NEW sign, ContinuousMotion(mode, sign), NEW t \in Threads, t # running
      PROVE  status'[t] = status[t] \/ (t = active.thread /\ running \in writers')
  BY <1>6, <1>8 DEF ContinuousMotion, threadVars
<1>9. ASSUME StopDriving, NEW t \in Threads, t # running
      PROVE  status'[t] = status[t] \/ (t = active.thread /\ running \in writers')
  BY <1>6, <1>9 DEF StopDriving
<1>10. ASSUME NEW seconds, ParkTime(seconds), NEW t \in Threads, t # running
       PROVE  status'[t] = status[t]
  BY <1>2, <1>5, <1>10 DEF ParkTime
<1>11. ASSUME NEW c, WaitUntil(c), NEW t \in Threads, t # running PROVE status'[t] = status[t]
  BY <1>2, <1>5, <1>11 DEF WaitUntil, threadVars
<1>12. ASSUME Break \/ EndStack, NEW t \in Threads, t # running PROVE status'[t] = status[t]
  BY <1>2, <1>12 DEF Break, EndStack
<1>13. ASSUME \/ BudgetStop \/ SetHeading \/ ResetTimer \/ Instant \/ ReceiverEnd
              \/ StopProject
              \/ \E v \in Values : SetVariable(v)
              \/ \E k \in Keys : Broadcast(k)
       PROVE  status' = status
  BY <1>13 DEF BudgetStop, SetHeading, ResetTimer, Instant, ReceiverEnd, StopProject,
               SetVariable, Broadcast, threadVars
<1> QED
  BY <1>1, <1>7, <1>8, <1>9, <1>10, <1>11, <1>12, <1>13
     DEF Step, DriveFor, TurnFor, TurnToRotation, Drive, Turn, Wait, LoopPass

\* An interval ends with the first event, or earlier for the budget: a motion that is
\* over at its end has been carried out exactly.
LEMMA CompletedIsCarriedOut ==
    ASSUME TypeOK, AdvanceClock
    PROVE  \E dt \in Nat : /\ Slice(dt)
                           /\ Blocking => dt <= active.left
                           /\ \A t \in Threads : status[t] = "parked_time" => dt <= wake[t]
<1>1. PICK d \in Events : (\A e \in Events : d <= e) /\ Slice(InBudget(d))
  BY DEF AdvanceClock
<1>2. d \in Nat /\ now \in Nat
  BY EventsAreNat DEF TypeOK
<1>3. InBudget(d) \in Nat /\ InBudget(d) <= d
  BY <1>2, InBudgetBounds
<1>4. ASSUME NEW e \in Events PROVE InBudget(d) <= e
  <2>1. e \in Nat /\ d <= e
    BY <1>1, EventsAreNat
  <2> QED
    BY <1>2, <1>3, <2>1
<1>5. Blocking => active.left \in Events
  BY DEF Events, Completion
<1>6. \A t \in Threads : status[t] = "parked_time" => wake[t] \in Events
  BY DEF Events, Wakes
<1> QED
  BY <1>1, <1>3, <1>4, <1>5, <1>6

LEMMA ReturnsWhenOver ==
    ASSUME TypeOK, Ownership, [Next]_vars, NEW t \in Threads,
           status[t] = "parked_motion", status'[t] = "runnable"
    PROVE  \/ active.thread = t /\ now' = now + active.left
           \/ active.thread = t /\ running \notin {0, t} /\ running \in writers'
<1>1. CASE Step
  <2>1. running # 0
    BY <1>1, BlockStatuses DEF Threads
  <2>2. running # t
    BY <2>1 DEF Ownership, RunnerMayRun
  <2> QED
    BY <1>1, <2>1, <2>2, BlockStatuses
<1>2. CASE AdvanceClock
  <2>1. PICK dt \in Nat : Slice(dt) /\ (Blocking => dt <= active.left)
    BY <1>2, CompletedIsCarriedOut
  <2>2. t \notin Woken /\ ~Rested(t, dt)
    BY DEF Woken, Satisfied, CondParked, Rested
  <2>3. Completes(dt) /\ t = active.thread
    BY <2>1, <2>2 DEF Slice
  <2>4. active.left \in Nat
    BY SMTT(30), <2>3 DEF Completes, Blocking, TypeOK, MotionType, NoMotion
  <2>5. dt = active.left
    BY <2>1, <2>3, <2>4 DEF Completes
  <2> QED
    BY <2>1, <2>3, <2>5 DEF Slice, Elapsed
<1>3. ASSUME NEW u \in Threads, UnmetGate(u) PROVE status'[t] # "runnable"
  BY <1>3 DEF UnmetGate, TypeOK
<1> QED
  BY <1>1, <1>2, <1>3
     DEF Next, Resume, ClockBudgetStop, GateConds, GateDone, EndRun, FinishPendingMotion, vars,
         threadVars

\* A thread comes back from a blocking motion when it is over, exactly, or because another
\* thread's command cut it: never by a slice that stopped short of its end, and never twice.
THEOREM MotionsReturnWhenOver == Spec => MotionReturnsWhenOver
<1>1. TypeOK /\ Ownership /\ [Next]_vars =>
        [\A t \in Threads :
           status[t] = "parked_motion" /\ status'[t] = "runnable"
             => \/ active.thread = t /\ now' = now + active.left
                \/ active.thread = t /\ running \notin {0, t} /\ running \in writers']_vars
  BY ReturnsWhenOver
<1> QED
  BY <1>1, TypeCorrect, OwnershipAlways, PTL DEF Spec, MotionReturnsWhenOver

-----------------------------------------------------------------------------
(***************************************************************************)
(* The broadcast guard: the keys held are those of the broadcasts in       *)
(* progress, whatever ends, breaks or gates a receiver.                    *)
(***************************************************************************)
\* Taking an element off the front of a sequence, and putting one there.
LEMMA FrontTaken ==
    ASSUME NEW S, NEW s \in Seq(S), s # <<>>
    PROVE  /\ Len(s) \in Nat /\ Len(s) >= 1 /\ Head(s) = s[1] /\ s[1] \in S
           /\ Tail(s) \in Seq(S) /\ Len(Tail(s)) = Len(s) - 1
           /\ \A i \in 1..(Len(s) - 1) : Tail(s)[i] = s[i + 1]
<1>1. Len(s) \in Nat /\ Len(s) >= 1
  BY EmptySeq
<1>2. 1 \in 1..Len(s)
  BY <1>1
<1>3. s[1] \in S /\ Head(s) = s[1]
  BY <1>2, ElementOfSeq
<1> QED
  BY <1>1, <1>3, HeadTailProperties

LEMMA FrontPut ==
    ASSUME NEW S, NEW s \in Seq(S), NEW e \in S
    PROVE  /\ <<e>> \o s \in Seq(S) /\ Len(<<e>> \o s) = Len(s) + 1
           /\ (<<e>> \o s)[1] = e
           /\ \A i \in 1..Len(s) : (<<e>> \o s)[i + 1] = s[i]
<1>1. <<e>> \in Seq(S) /\ Len(<<e>>) = 1 /\ <<e>>[1] = e
  OBVIOUS
<1>2. /\ <<e>> \o s \in Seq(S) /\ Len(<<e>> \o s) = 1 + Len(s)
      /\ \A i \in 1..(1 + Len(s)) :
            (<<e>> \o s)[i] = IF i <= 1 THEN <<e>>[i] ELSE s[i - 1]
  BY <1>1, ConcatProperties
<1>3. Len(s) \in Nat
  BY LenProperties
<1>4. (<<e>> \o s)[1] = e
  BY <1>1, <1>2, <1>3
<1>5. ASSUME NEW i \in 1..Len(s) PROVE (<<e>> \o s)[i + 1] = s[i]
  <2>1. i + 1 \in 1..(1 + Len(s)) /\ ~(i + 1 <= 1) /\ (i + 1) - 1 = i
    BY <1>3
  <2> QED
    BY <1>2, <2>1
<1> QED
  BY <1>2, <1>3, <1>4, <1>5

\* The broadcasts a thread is inside of, as records.
FrameRecord == [key : Keys, left : Nat]

LEMMA FramesType ==
    ASSUME TypeOK
    PROVE  /\ frames \in [Threads -> Seq(FrameRecord)]
           /\ \A t \in Threads :
                /\ frames[t] \in Seq(FrameRecord)
                /\ Len(frames[t]) \in Nat /\ DOMAIN frames[t] = 1..Len(frames[t])
                /\ \A i \in 1..Len(frames[t]) : /\ frames[t][i] \in FrameRecord
                                                /\ frames[t][i].key \in Keys
                                                /\ frames[t][i].left \in Nat
<1>1. frames \in [Threads -> Seq(FrameRecord)]
  BY DEF TypeOK, FrameRecord
<1>2. \A f \in FrameRecord : f.key \in Keys /\ f.left \in Nat
  BY DEF FrameRecord
<1> SUFFICES ASSUME NEW t \in Threads
             PROVE  /\ frames[t] \in Seq(FrameRecord)
                    /\ Len(frames[t]) \in Nat /\ DOMAIN frames[t] = 1..Len(frames[t])
                    /\ \A i \in 1..Len(frames[t]) : frames[t][i] \in FrameRecord
  BY <1>1, <1>2
<1>3. frames[t] \in Seq(FrameRecord)
  BY <1>1
<1> QED
  BY <1>3, LenProperties, ElementOfSeq

\* The keys held are those of the frames, and no two frames have the same.
GuardMatches ==
    /\ \A k \in Keys : k \in activeB
         <=> \E t \in Threads : \E i \in 1..Len(frames[t]) : frames[t][i].key = k
    /\ \A t, u \in Threads : \A i \in 1..Len(frames[t]), j \in 1..Len(frames[u]) :
         frames[t][i].key = frames[u][j].key => t = u /\ i = j

\* Only a policy or an unmet condition stops a thread in the middle of a broadcast.
StoppedOutside ==
    Policy # "truncate_and_park" /\ "wait_until" \notin Menu =>
        /\ phase # "gate"
        /\ \A t \in Threads : /\ status[t] # "parked_cond"
                              /\ status[t] \in {"gated", "done"} => frames[t] = <<>>

GuardInvariant == GuardMatches /\ StoppedOutside

LEMMA GuardInvariantSuffices ==
    ASSUME TypeOK, GuardInvariant
    PROVE  BroadcastGuard
<1> DEFINE Open == UNION {{t} \X DOMAIN frames[t] : t \in Threads}
           Key(f) == frames[f[1]][f[2]].key
<1>1. \A t \in Threads : /\ DOMAIN frames[t] = 1..Len(frames[t])
                         /\ \A i \in 1..Len(frames[t]) : frames[t][i].key \in Keys
  BY FramesType
<1>2. \A f : f \in Open <=> \E t \in Threads : \E i \in 1..Len(frames[t]) : f = <<t, i>>
  BY <1>1
<1>3. activeB = {Key(f) : f \in Open}
  <2>1. ASSUME NEW f \in Open PROVE Key(f) \in activeB
    <3>1a. PICK t \in Threads : \E i \in 1..Len(frames[t]) : f = <<t, i>>
      BY <1>2
    <3>1. PICK i \in 1..Len(frames[t]) : f = <<t, i>>
      BY <3>1a
    <3>2. Key(f) = frames[t][i].key /\ frames[t][i].key \in Keys
      BY <1>1, <3>1
    <3> QED
      BY <3>2 DEF GuardInvariant, GuardMatches
  <2>2. ASSUME NEW k \in activeB PROVE \E f \in Open : Key(f) = k
    <3>1. k \in Keys
      BY DEF TypeOK
    <3>2a. PICK t \in Threads : \E i \in 1..Len(frames[t]) : frames[t][i].key = k
      BY <3>1 DEF GuardInvariant, GuardMatches
    <3>2. PICK i \in 1..Len(frames[t]) : frames[t][i].key = k
      BY <3>2a
    <3>3. <<t, i>> \in Open /\ Key(<<t, i>>) = k
      BY <1>2, <3>2
    <3> QED
      BY <3>3
  <2> QED
    BY <2>1, <2>2
<1>4. ASSUME NEW f \in Open, NEW g \in Open, Key(f) = Key(g) PROVE f = g
  <2>1a. PICK t \in Threads : \E i \in 1..Len(frames[t]) : f = <<t, i>>
    BY <1>2
  <2>1. PICK i \in 1..Len(frames[t]) : f = <<t, i>>
    BY <2>1a
  <2>2a. PICK u \in Threads : \E j \in 1..Len(frames[u]) : g = <<u, j>>
    BY <1>2
  <2>2. PICK j \in 1..Len(frames[u]) : g = <<u, j>>
    BY <2>2a
  <2>3. frames[t][i].key = frames[u][j].key
    BY <1>4, <2>1, <2>2
  <2> QED
    BY <2>1, <2>2, <2>3 DEF GuardInvariant, GuardMatches
<1> QED
  BY <1>3, <1>4 DEF BroadcastGuard, GuardInvariant, StoppedOutside

\* The end of a receiver leaves the keys of a thread's frames alone, or takes the first
\* frame away and with it the key.
LEMMA ReceiverLeftFrames ==
    ASSUME TypeOK, NEW t \in Threads, frames[t] # <<>>, ReceiverLeft(t)
    PROVE  /\ \A u \in Threads : u # t => frames'[u] = frames[u]
           /\ \/ /\ activeB' = activeB /\ Len(frames'[t]) = Len(frames[t])
                 /\ \A i \in 1..Len(frames[t]) : frames'[t][i].key = frames[t][i].key
              \/ /\ activeB' = activeB \ {frames[t][1].key}
                 /\ Len(frames'[t]) = Len(frames[t]) - 1
                 /\ \A i \in 1..Len(frames'[t]) : frames'[t][i] = frames[t][i + 1]
<1> DEFINE s == frames[t]
           less == [Head(s) EXCEPT !.left = @ - 1]
<1>1. frames \in [Threads -> Seq(FrameRecord)] /\ s \in Seq(FrameRecord)
  BY FramesType
<1>2. \A u \in Threads : u # t => frames'[u] = frames[u]
  BY <1>1 DEF ReceiverLeft
<1>3. /\ Len(s) \in Nat /\ Len(s) >= 1 /\ Head(s) = s[1] /\ s[1] \in FrameRecord
      /\ Tail(s) \in Seq(FrameRecord) /\ Len(Tail(s)) = Len(s) - 1
      /\ \A i \in 1..(Len(s) - 1) : Tail(s)[i] = s[i + 1]
  <2> HIDE DEF s
  <2> QED
    BY <1>1, FrontTaken DEF s
<1>4. CASE Head(s).left > 1
  <2>1. less \in FrameRecord /\ less.key = s[1].key
    <3>1. \A f \in FrameRecord : f.left > 1 =>
            LET g == [f EXCEPT !.left = @ - 1] IN g \in FrameRecord /\ g.key = f.key
      BY DEF FrameRecord
    <3> QED
      BY <1>3, <1>4, <3>1
  <2>2. frames'[t] = <<less>> \o Tail(s) /\ activeB' = activeB
    BY <1>1, <1>4 DEF ReceiverLeft
  <2> HIDE DEF less, s
  <2>4. /\ Len(<<less>> \o Tail(s)) = Len(s)
        /\ (<<less>> \o Tail(s))[1] = less
        /\ \A i \in 1..(Len(s) - 1) : (<<less>> \o Tail(s))[i + 1] = s[i + 1]
    BY <1>3, <2>1, FrontPut
  <2>5. ASSUME NEW i \in 1..Len(s) PROVE frames'[t][i].key = s[i].key
    <3>1. CASE i = 1
      BY <2>1, <2>2, <2>4, <3>1
    <3>2. CASE i # 1
      <4>1. i - 1 \in 1..(Len(s) - 1) /\ (i - 1) + 1 = i
        BY <1>3, <3>2
      <4> QED
        BY <2>2, <2>4, <4>1
    <3> QED
      BY <3>1, <3>2
  <2> QED
    BY <1>2, <2>2, <2>4, <2>5 DEF s
<1>5. CASE ~(Head(s).left > 1)
  <2>1. frames'[t] = Tail(s) /\ activeB' = activeB \ {Head(s).key}
    BY <1>1, <1>5 DEF ReceiverLeft
  <2> QED
    BY <1>2, <1>3, <2>1
<1> QED
  BY <1>4, <1>5

LEMMA GuardReceiverLeft ==
    ASSUME TypeOK, GuardMatches, NEW t \in Threads, frames[t] # <<>>, ReceiverLeft(t)
    PROVE  GuardMatches'
<1>0. \A u \in Threads : /\ Len(frames[u]) \in Nat
                         /\ \A i \in 1..Len(frames[u]) : frames[u][i].key \in Keys
  BY FramesType
<1>1. \A u \in Threads : u # t => frames'[u] = frames[u]
  BY ReceiverLeftFrames
<1>2. CASE /\ activeB' = activeB /\ Len(frames'[t]) = Len(frames[t])
           /\ \A i \in 1..Len(frames[t]) : frames'[t][i].key = frames[t][i].key
  <2>1. \A u \in Threads : /\ Len(frames'[u]) = Len(frames[u])
                           /\ \A i \in 1..Len(frames[u]) : frames'[u][i].key = frames[u][i].key
    BY <1>1, <1>2
  <2>2. ASSUME NEW k \in Keys
        PROVE  (\E u \in Threads : \E i \in 1..Len(frames'[u]) : frames'[u][i].key = k)
           <=> \E u \in Threads : \E i \in 1..Len(frames[u]) : frames[u][i].key = k
    <3>1. ASSUME NEW u \in Threads
          PROVE  (\E i \in 1..Len(frames'[u]) : frames'[u][i].key = k)
             <=> \E i \in 1..Len(frames[u]) : frames[u][i].key = k
      BY <2>1
    <3> QED
      BY <3>1
  <2>3. ASSUME NEW u \in Threads, NEW v \in Threads, NEW i \in 1..Len(frames'[u]),
               NEW j \in 1..Len(frames'[v]), frames'[u][i].key = frames'[v][j].key
        PROVE  u = v /\ i = j
    <3>1. /\ i \in 1..Len(frames[u]) /\ j \in 1..Len(frames[v])
          /\ frames[u][i].key = frames[v][j].key
      BY <2>1, <2>3
    <3> QED
      BY <3>1 DEF GuardMatches
  <2>4. \A k \in Keys : k \in activeB' <=> k \in activeB
    BY <1>2
  <2> QED
    BY <2>2, <2>3, <2>4 DEF GuardMatches
<1>3. CASE /\ activeB' = activeB \ {frames[t][1].key}
           /\ Len(frames'[t]) = Len(frames[t]) - 1
           /\ \A i \in 1..Len(frames'[t]) : frames'[t][i] = frames[t][i + 1]
  <2> DEFINE old(u, i) == IF u = t THEN i + 1 ELSE i
  <2>1. Len(frames[t]) >= 1
    BY FramesType, FrontTaken
  <2>2. \A u \in Threads : \A i \in 1..Len(frames'[u]) :
          old(u, i) \in 1..Len(frames[u]) /\ frames'[u][i] = frames[u][old(u, i)]
    BY <1>0, <1>1, <1>3, <2>1
  <2>3. ASSUME NEW k \in Keys
        PROVE  k \in activeB' <=> \E u \in Threads : \E i \in 1..Len(frames'[u]) : frames'[u][i].key = k
    <3>1. ASSUME k \in activeB'
          PROVE  \E u \in Threads : \E i \in 1..Len(frames'[u]) : frames'[u][i].key = k
      <4>1. k \in activeB /\ k # frames[t][1].key
        BY <1>3, <3>1
      <4>2a. PICK u \in Threads : \E i \in 1..Len(frames[u]) : frames[u][i].key = k
        BY <4>1 DEF GuardMatches
      <4>2. PICK i \in 1..Len(frames[u]) : frames[u][i].key = k
        BY <4>2a
      <4>3. CASE u # t
        BY <1>1, <4>2, <4>3
      <4>4. CASE u = t
        <5>1. i # 1
          BY <4>1, <4>2, <4>4
        <5>2. i - 1 \in 1..Len(frames'[t])
          BY <1>0, <1>3, <4>4, <5>1
        <5>3. frames'[t][i - 1] = frames[t][i]
          BY <1>3, <5>2
        <5> QED
          BY <4>2, <4>4, <5>2, <5>3
      <4> QED
        BY <4>3, <4>4
    <3>2. ASSUME NEW u \in Threads, NEW i \in 1..Len(frames'[u]), frames'[u][i].key = k
          PROVE  k \in activeB'
      <4>1. old(u, i) \in 1..Len(frames[u]) /\ frames[u][old(u, i)].key = k
        BY <2>2, <3>2
      <4>2. ~(u = t /\ old(u, i) = 1)
        BY <1>0, <1>1, <1>3
      <4>3. 1 \in 1..Len(frames[t])
        BY <1>0, <2>1
      <4>4. k # frames[t][1].key
        BY <4>1, <4>2, <4>3 DEF GuardMatches
      <4>5. k \in activeB
        BY <4>1 DEF GuardMatches
      <4> QED
        BY <1>3, <4>4, <4>5
    <3> QED
      BY <3>1, <3>2
  <2>4. ASSUME NEW u \in Threads, NEW v \in Threads, NEW i \in 1..Len(frames'[u]),
               NEW j \in 1..Len(frames'[v]), frames'[u][i].key = frames'[v][j].key
        PROVE  u = v /\ i = j
    <3>1. /\ old(u, i) \in 1..Len(frames[u]) /\ old(v, j) \in 1..Len(frames[v])
          /\ frames[u][old(u, i)].key = frames[v][old(v, j)].key
      BY <2>2, <2>4
    <3>2. u = v /\ old(u, i) = old(v, j)
      BY <3>1 DEF GuardMatches
    <3>3. i \in Int /\ j \in Int
      OBVIOUS
    <3> QED
      BY <3>2, <3>3
  <2> QED
    BY <2>3, <2>4 DEF GuardMatches
<1> QED
  BY <1>2, <1>3, ReceiverLeftFrames

\* A broadcast that is let in holds a key that nobody held.
LEMMA GuardBroadcast ==
    ASSUME TypeOK, GuardMatches, NEW k \in Keys, Broadcast(k), running \in Threads
    PROVE  GuardMatches'
<1>1. CASE Receivers[k] = 0 \/ k \in activeB
  <2>1. frames' = frames /\ activeB' = activeB
    BY <1>1 DEF Broadcast
  <2> QED
    BY <2>1 DEF GuardMatches
<1>2. CASE ~(Receivers[k] = 0 \/ k \in activeB)
  <2> DEFINE s == frames[running]
             new == [key |-> k, left |-> Receivers[k]]
  <2>0. /\ frames \in [Threads -> Seq(FrameRecord)] /\ s \in Seq(FrameRecord)
        /\ new \in FrameRecord /\ new.key = k
    BY FramesType DEF FrameRecord
  <2>1. activeB' = activeB \cup {k} /\ frames' = [frames EXCEPT ![running] = <<new>> \o s]
    BY <1>2 DEF Broadcast
  <2>2. \A u \in Threads : u # running => frames'[u] = frames[u]
    BY <2>0, <2>1
  <2>3. frames'[running] = <<new>> \o s
    BY <2>0, <2>1
  <2>5. /\ Len(frames'[running]) = Len(s) + 1 /\ frames'[running][1] = new
        /\ \A i \in 1..Len(s) : frames'[running][i + 1] = s[i]
    <3> HIDE DEF new, s
    <3> QED
      BY <2>0, <2>3, FrontPut
  <2> HIDE DEF new
  <2>6. \A u \in Threads : /\ Len(frames[u]) \in Nat
                           /\ \A i \in 1..Len(frames[u]) : frames[u][i].key \in Keys
    BY FramesType
  <2> DEFINE old(u, i) == IF u = running THEN i - 1 ELSE i
  <2>7. \A u \in Threads : \A i \in 1..Len(frames'[u]) :
          \/ u = running /\ i = 1 /\ frames'[u][i].key = k
          \/ /\ old(u, i) \in 1..Len(frames[u])
             /\ frames'[u][i].key = frames[u][old(u, i)].key
             /\ frames'[u][i].key # k
    <3> SUFFICES ASSUME NEW u \in Threads, NEW i \in 1..Len(frames'[u])
                 PROVE  \/ u = running /\ i = 1 /\ frames'[u][i].key = k
                        \/ /\ old(u, i) \in 1..Len(frames[u])
                           /\ frames'[u][i].key = frames[u][old(u, i)].key
                           /\ frames'[u][i].key # k
      OBVIOUS
    <3>1. CASE u = running /\ i = 1
      BY <2>0, <2>5, <3>1
    <3>2. CASE ~(u = running /\ i = 1)
      <4>1. old(u, i) \in 1..Len(frames[u])
        BY <2>2, <2>5, <2>6, <3>2
      <4>2. frames'[u][i] = frames[u][old(u, i)]
        <5>1. CASE u # running
          BY <2>2, <5>1
        <5>2. CASE u = running
          <6>1. i - 1 \in 1..Len(s) /\ (i - 1) + 1 = i
            BY <4>1, <5>2
          <6> QED
            BY <2>5, <5>2, <6>1
        <5> QED
          BY <5>1, <5>2
      <4>3. frames[u][old(u, i)].key # k
        BY <1>2, <4>1 DEF GuardMatches
      <4> QED
        BY <4>1, <4>2, <4>3
    <3> QED
      BY <3>1, <3>2
  <2>8. ASSUME NEW l \in Keys
        PROVE  l \in activeB' <=> \E u \in Threads : \E i \in 1..Len(frames'[u]) : frames'[u][i].key = l
    <3>1. ASSUME l \in activeB'
          PROVE  \E u \in Threads : \E i \in 1..Len(frames'[u]) : frames'[u][i].key = l
      <4>1. CASE l = k
        BY <2>0, <2>5, <2>6, <4>1
      <4>2. CASE l # k
        <5>1. l \in activeB
          BY <2>1, <3>1, <4>2
        <5>2a. PICK u \in Threads : \E i \in 1..Len(frames[u]) : frames[u][i].key = l
          BY <5>1 DEF GuardMatches
        <5>2. PICK i \in 1..Len(frames[u]) : frames[u][i].key = l
          BY <5>2a
        <5>3. CASE u # running
          BY <2>2, <5>2, <5>3
        <5>4. CASE u = running
          <6>1. i \in 1..Len(s) /\ Len(s) \in Nat
            BY <2>6, <5>4
          <6>2. i + 1 \in 1..(Len(s) + 1)
            BY <6>1
          <6>3. i + 1 \in 1..Len(frames'[u]) /\ frames'[u][i + 1] = frames[u][i]
            BY <2>5, <5>4, <6>1, <6>2
          <6> QED
            BY <5>2, <6>3
        <5> QED
          BY <5>3, <5>4
      <4> QED
        BY <4>1, <4>2
    <3>2. ASSUME NEW u \in Threads, NEW i \in 1..Len(frames'[u]), frames'[u][i].key = l
          PROVE  l \in activeB'
      <4>1. CASE frames'[u][i].key = k
        BY <2>1, <3>2, <4>1
      <4>2. CASE frames'[u][i].key # k
        <5>1. old(u, i) \in 1..Len(frames[u]) /\ frames[u][old(u, i)].key = l
          BY <2>7, <3>2, <4>2
        <5> QED
          BY <2>1, <5>1 DEF GuardMatches
      <4> QED
        BY <4>1, <4>2
    <3> QED
      BY <3>1, <3>2
  <2>9. ASSUME NEW u \in Threads, NEW v \in Threads, NEW i \in 1..Len(frames'[u]),
               NEW j \in 1..Len(frames'[v]), frames'[u][i].key = frames'[v][j].key
        PROVE  u = v /\ i = j
    <3>1. CASE frames'[u][i].key = k
      BY ZenonT(40), <2>7, <2>9, <3>1
    <3>2. CASE frames'[u][i].key # k
      <4>1. /\ old(u, i) \in 1..Len(frames[u]) /\ old(v, j) \in 1..Len(frames[v])
            /\ frames[u][old(u, i)].key = frames[v][old(v, j)].key
        BY <2>7, <2>9, <3>2
      <4>2. u = v /\ old(u, i) = old(v, j)
        BY <4>1 DEF GuardMatches
      <4> QED
        BY <2>5, <2>6, <4>2
    <3> QED
      BY <3>1, <3>2
  <2> QED
    BY <2>8, <2>9 DEF GuardMatches
<1> QED
  BY <1>1, <1>2

\* The statuses a block leaves behind, when nothing stops a thread inside a broadcast.
LEMMA StoppedBlock ==
    ASSUME TypeOK, Ownership, StoppedOutside, Step, NEW t \in Threads,
           Policy # "truncate_and_park", "wait_until" \notin Menu
    PROVE  /\ phase' # "gate"
           /\ status'[t] # "parked_cond"
           /\ status'[t] \in {"gated", "done"} => frames'[t] = <<>>
<1>1. /\ running \in Threads /\ running # 0 /\ phase # "gate"
      /\ status[running] = "runnable"
  <2>1. running \in Threads
    BY BlockStatuses
  <2> QED
    BY <2>1 DEF Ownership, RunnerMayRun, StoppedOutside, Threads
<1>2. /\ status \in [Threads -> Statuses] /\ status[t] # "parked_cond"
      /\ status[t] \in {"gated", "done"} => frames[t] = <<>>
  BY DEF TypeOK, StoppedOutside
<1>3. /\ Superseded \in [Threads -> Statuses]
      /\ Superseded[t] \in {status[t], "runnable"}
  BY <1>2 DEF Superseded, Statuses, Policies
<1>4. ASSUME NEW st \in [Threads -> Statuses], NEW parked
      PROVE  Yielded(st, parked)[t] \in {st[t], parked}
  BY <1>1, <1>4 DEF Yielded
<1>5. ASSUME NEW mode, NEW sign, NEW length, BlockingMotion(mode, sign, length)
      PROVE  phase' = phase /\ frames' = frames /\ status'[t] \in {status[t], "runnable", "parked_motion"}
  BY <1>3, <1>4, <1>5 DEF BlockingMotion, schedVars
<1>6. ASSUME NEW mode, NEW sign, ContinuousMotion(mode, sign)
      PROVE  phase' = phase /\ frames' = frames /\ status'[t] \in {status[t], "runnable"}
  BY <1>3, <1>6 DEF ContinuousMotion, schedVars, threadVars
<1>7. ASSUME StopDriving
      PROVE  phase' = phase /\ frames' = frames /\ status'[t] \in {status[t], "runnable"}
  BY <1>3, <1>7 DEF StopDriving, schedVars
<1>8. ASSUME NEW seconds, ParkTime(seconds)
      PROVE  /\ phase' = phase /\ frames' = frames
             /\ status'[t] \in {status[t], "runnable", "parked_time"}
  BY <1>2, <1>4, <1>8 DEF ParkTime, schedVars
<1>9. ASSUME Break
      PROVE  /\ phase' = phase /\ \A u \in Threads : u # running => frames'[u] = frames[u]
             /\ \/ status' = status
                \/ status'[t] \in {status[t], "gated"} /\ frames' = frames /\ frames[running] = <<>>
                   /\ (t # running => status'[t] = status[t])
  <2>1. CASE frames[running] # <<>>
    <3>1. ReceiverLeft(running) /\ status' = status /\ phase' = phase
      BY <1>9, <2>1 DEF Break, schedVars
    <3> QED
      BY <1>1, <2>1, <3>1, ReceiverLeftFrames
  <2>2. CASE frames[running] = <<>>
    BY <1>1, <1>2, <1>9, <2>2 DEF Break, schedVars
  <2> QED
    BY <2>1, <2>2
<1>10. ASSUME ReceiverEnd
       PROVE  /\ phase' = phase /\ status' = status
              /\ \A u \in Threads : u # running => frames'[u] = frames[u]
  <2>1. /\ frames[running] # <<>> /\ ReceiverLeft(running) /\ status' = status
        /\ phase' = phase
    BY <1>10 DEF ReceiverEnd, threadVars, schedVars
  <2> QED
    BY <1>1, <2>1, ReceiverLeftFrames
<1>11. ASSUME NEW k \in Keys, Broadcast(k)
       PROVE  /\ phase' = phase /\ status' = status
              /\ \A u \in Threads : u # running => frames'[u] = frames[u]
  <2>1. frames \in [Threads -> Seq(FrameRecord)]
    BY FramesType
  <2> QED
    BY <1>11, <2>1 DEF Broadcast, threadVars, schedVars
<1>12. ASSUME EndStack
       PROVE  /\ phase' = phase /\ frames' = frames /\ frames[running] = <<>>
              /\ status'[t] = IF t = running THEN "done" ELSE status[t]
  BY <1>2, <1>12 DEF EndStack, schedVars
<1>13. ASSUME \/ BudgetStop \/ SetHeading \/ ResetTimer \/ Instant \/ StopProject
              \/ \E v \in Values : SetVariable(v)
       PROVE  phase' \in {phase, "stopped"} /\ frames' = frames /\ status' = status
  BY <1>13 DEF BudgetStop, SetHeading, ResetTimer, Instant, StopProject, SetVariable,
               threadVars, schedVars
<1>14. \A c \in Conds : ~WaitUntil(c)
  BY DEF WaitUntil, Executes
<1> QED
  BY <1>1, <1>2, <1>5, <1>6, <1>7, <1>8, <1>9, <1>10, <1>11, <1>12, <1>13, <1>14
     DEF Step, DriveFor, TurnFor, TurnToRotation, Drive, Turn, Wait, LoopPass

LEMMA StoppedNext ==
    ASSUME TypeOK, Ownership, StoppedOutside, [Next]_vars
    PROVE  StoppedOutside'
<1>1. ASSUME Policy # "truncate_and_park", "wait_until" \notin Menu, NEW t \in Threads
      PROVE  /\ phase' # "gate"
             /\ status'[t] # "parked_cond"
             /\ status'[t] \in {"gated", "done"} => frames'[t] = <<>>
  <2>1. /\ phase # "gate" /\ status[t] # "parked_cond" /\ CondParked = {}
        /\ status[t] \in {"gated", "done"} => frames[t] = <<>>
    BY <1>1 DEF StoppedOutside, CondParked
  <2>2. CASE Step
    BY <1>1, <2>2, StoppedBlock
  <2>3. CASE AdvanceClock
    <3>1. PICK dt \in Nat : Slice(dt)
      BY <2>3, CompletedIsCarriedOut
    <3>2. status'[t] \in {status[t], "runnable"}
      BY <3>1 DEF Slice
    <3> QED
      BY <2>1, <2>3, <3>2 DEF AdvanceClock
  <2>4. ~GateConds /\ \A u \in Threads : ~UnmetGate(u)
    BY <2>1 DEF GateConds, UnmetGate
  <2>5. ASSUME \/ \E u \in Threads : Resume(u)
               \/ ClockBudgetStop \/ GateDone \/ EndRun \/ FinishPendingMotion
               \/ UNCHANGED vars
        PROVE  phase' # "gate" /\ status' = status /\ frames' = frames
    BY <2>1, <2>5
       DEF Resume, ClockBudgetStop, GateDone, EndRun, FinishPendingMotion, vars, threadVars,
           schedVars
  <2> QED
    BY <2>1, <2>2, <2>3, <2>4, <2>5 DEF Next
<1>2. N \in Nat /\ 1 \in Threads
  BY DEF Threads
<1> QED
  BY <1>1, <1>2 DEF StoppedOutside

LEMMA MatchesNext == TypeOK /\ Ownership /\ GuardMatches /\ [Next]_vars => GuardMatches'
<1> SUFFICES ASSUME TypeOK, Ownership, GuardMatches, [Next]_vars PROVE GuardMatches'
  OBVIOUS
<1>1. ASSUME NEW k \in Keys, Broadcast(k) PROVE GuardMatches'
  <2>1. running \in Threads
    BY <1>1 DEF Broadcast, Executes, TypeOK
  <2> QED
    BY <1>1, <2>1, GuardBroadcast
<1>2. ASSUME ReceiverEnd PROVE GuardMatches'
  BY <1>2, GuardReceiverLeft DEF ReceiverEnd, TypeOK
<1>3. ASSUME Break PROVE GuardMatches'
  <2>1. CASE frames[running] # <<>>
    BY <1>3, <2>1, GuardReceiverLeft DEF Break, Executes, TypeOK
  <2>2. CASE frames[running] = <<>>
    <3>1. frames' = frames /\ activeB' = activeB
      BY <1>3, <2>2 DEF Break
    <3> QED
      BY <3>1 DEF GuardMatches
  <2> QED
    BY <2>1, <2>2
<1>4. ASSUME NEW t \in Threads, UnmetGate(t) PROVE GuardMatches'
  <2>1. CASE frames[t] # <<>>
    BY <1>4, <2>1, GuardReceiverLeft DEF UnmetGate
  <2>2. CASE frames[t] = <<>>
    <3>1. frames' = frames /\ activeB' = activeB
      BY <1>4, <2>2 DEF UnmetGate
    <3> QED
      BY <3>1 DEF GuardMatches
  <2> QED
    BY <2>1, <2>2
<1>5. ASSUME Step, ~Break, ~ReceiverEnd, \A k \in Keys : ~Broadcast(k)
      PROVE  frames' = frames /\ activeB' = activeB
  BY <1>5 DEF Step, BudgetStop, DriveFor, TurnFor, TurnToRotation, Drive, Turn,
       BlockingMotion, ContinuousMotion, StopDriving, SetHeading, Wait, LoopPass, WaitUntil,
       ResetTimer, Instant, SetVariable, EndStack, StopProject, ParkTime
<1>6. ASSUME frames' = frames /\ activeB' = activeB PROVE GuardMatches'
  BY <1>6 DEF GuardMatches
<1> QED
  BY <1>1, <1>2, <1>3, <1>4, <1>5, <1>6
     DEF Next, Resume, AdvanceClock, ClockBudgetStop, GateConds, GateDone, EndRun,
         FinishPendingMotion, vars

\* The broadcast guard is held by the broadcasts in progress and by no other, for every
\* program: none is entered twice, none is released by another thread, and none is kept
\* by a thread that has ended.
THEOREM GuardIsHeldInside == Spec => []BroadcastGuard
<1>1. Init => GuardInvariant
  BY DEF Init, GuardInvariant, GuardMatches, StoppedOutside
<1>2. TypeOK /\ Ownership /\ GuardInvariant /\ [Next]_vars => GuardInvariant'
  BY MatchesNext, StoppedNext DEF GuardInvariant
<1>3. TypeOK /\ GuardInvariant => BroadcastGuard
  BY GuardInvariantSuffices
<1> QED
  BY <1>1, <1>2, <1>3, TypeCorrect, OwnershipAlways, PTL DEF Spec

-----------------------------------------------------------------------------
(***************************************************************************)
(* What a thread that waits is owed: a runnable one is resumed before any  *)
(* other is resumed twice, a sleeper is woken at its time, and a           *)
(* wait_until is given up only when the motion under way cannot help it.   *)
(***************************************************************************)
-----------------------------------------------------------------------------
(***************************************************************************)
(* Going round: a remainder does not see whole circles.                    *)
(***************************************************************************)
LEMMA Division ==
    ASSUME NEW C \in Nat \ {0}, NEW y \in Int
    PROVE  y \div C \in Int /\ y % C \in 0..(C - 1) /\ y = C * (y \div C) + (y % C)
OBVIOUS

LEMMA WholeCircles ==
    ASSUME NEW C \in Nat \ {0}, NEW x \in Int, NEW m \in Int
    PROVE  (x + C * m) % C = x % C
<1> DEFINE a == x \div C
           b == (x + C * m) \div C
           r == x % C
           s == (x + C * m) % C
<1>1. /\ a \in Int /\ r \in 0..(C - 1) /\ x = C * a + r
  BY Division
<1>2. C * m \in Int /\ x + C * m \in Int
  OBVIOUS
<1>4. b \in Int /\ s \in 0..(C - 1) /\ x + C * m = C * b + s
  BY <1>2, Division
<1> HIDE DEF a, b, r, s
<1> DEFINE k == a + m - b
<1>5. k \in Int /\ C * k = s - r
  <2>1. C * (a + m - b) = C * a + C * m - C * b
    BY <1>1, <1>4
  <2>2. C * a \in Int /\ C * b \in Int
    BY <1>1, <1>4
  <2> QED
    BY <1>1, <1>2, <1>4, <2>1, <2>2
<1> HIDE DEF k
<1>6. k >= 1 => C * k >= C
  BY <1>5
<1>7. k <= -1 => C * k <= -C
  BY <1>5
<1>8. k = 0
  BY <1>1, <1>4, <1>5, <1>6, <1>7
<1>9. s = r
  BY <1>1, <1>4, <1>5, <1>8
<1> QED
  BY <1>9 DEF s, r

\* A turn of any length ends at a heading that one of less than a circle reaches.
LEMMA HeadingRepeats ==
    ASSUME NEW x \in Int, NEW s \in Int, NEW d \in Nat
    PROVE  \E e \in 0..(Circle - 1) : (x + s * d) % Circle = (x + s * e) % Circle
<1> DEFINE e == d % Circle
           q == d \div Circle
<1>1. e \in 0..(Circle - 1) /\ q \in Int /\ d = Circle * q + e
  OBVIOUS
<1> HIDE DEF e, q
<1>2. s * d = Circle * (s * q) + s * e
  BY <1>1
<1>3. s * q \in Int /\ s * e \in Int /\ x + s * e \in Int /\ Circle \in Nat \ {0}
  BY <1>1
<1>4. x + s * d = (x + s * e) + Circle * (s * q)
  <2>1. Circle * (s * q) \in Int
    BY <1>3
  <2> QED
    BY <1>2, <1>3, <2>1
<1>5. ((x + s * e) + Circle * (s * q)) % Circle = (x + s * e) % Circle
  BY <1>3, WholeCircles
<1> QED
  BY <1>1, <1>4, <1>5

-----------------------------------------------------------------------------
(***************************************************************************)
(* Unmet conditions.                                                       *)
(***************************************************************************)

\* When no event is left there is no motion with an end, and no condition holds now or
\* anywhere the march looks.
LEMMA NothingAhead ==
    ASSUME TypeOK, Events = {}
    PROVE  /\ ~Blocking /\ \A t \in Threads : status[t] # "parked_time"
           /\ \A t \in CondParked : /\ ~HoldsNow(cond[t])
                                    /\ \A d \in 1..MarchCap : ~Holds(cond[t], Ahead(d))
<1>1. Completion = {} /\ Wakes = {} /\ CondEvents = {}
  BY DEF Events
<1>2. ~Blocking
  BY <1>1 DEF Completion
<1>3. \A t \in Threads : status[t] # "parked_time"
  BY <1>1 DEF Wakes
<1>4. \A d : Bounded(d)
  BY <1>1 DEF Bounded
<1>5. ASSUME NEW t \in CondParked
      PROVE  /\ ~HoldsNow(cond[t])
             /\ \A d \in 1..MarchCap : ~Holds(cond[t], Ahead(d))
  <2> DEFINE ev(u) == IF HoldsNow(cond[u]) THEN {0}
                      ELSE {d \in 1..MarchCap : Bounded(d) /\ Holds(cond[u], Ahead(d))}
  <2>1. ev(t) \subseteq CondEvents
    BY DEF CondEvents
  <2>2. ev(t) = {}
    BY <1>1, <2>1
  <2> QED
    BY <1>4, <2>2
<1> QED
  BY <1>2, <1>3, <1>5

\* The march stops at the field's size or at a full circle, but what lies beyond it
\* reads the same: no position is past the field, no heading past the circle.
LEMMA NothingBeyond ==
    ASSUME TypeOK, Events = {}, NEW t \in CondParked, NEW d \in 0..FieldCap,
           cond[t].kind \in {"position", "heading"}
    PROVE  ~Holds(cond[t], Later(d))
<1> DEFINE c == cond[t]
           s == MotionSign
<1>1. /\ ~HoldsNow(c)
      /\ \A e \in 1..MarchCap : ~Holds(c, Ahead(e))
  BY NothingAhead
<1>2. pos \in Int /\ rot \in Int /\ s \in Int /\ d \in Nat
  <2>1. s \in Int
    BY MotionSignInt
  <2> QED
    BY <2>1 DEF TypeOK
<1>3. CASE c.kind = "position" /\ MotionMode = "drive"
  <2>1. d # 0 => d \in 1..MarchCap
    BY <1>3 DEF MarchCap
  <2>2. d # 0 => ~(pos + s * d >= c.k)
    BY <1>1, <1>3, <2>1 DEF Holds, Ahead, Readings
  <2>3. d = 0 => pos + s * d = pos
    BY <1>2
  <2>4. ~(pos >= c.k)
    BY <1>1, <1>3 DEF HoldsNow, Holds, World, Readings
  <2> QED
    BY <1>3, <2>2, <2>3, <2>4 DEF Holds, Later, Readings
<1>4. CASE c.kind = "position" /\ MotionMode # "drive"
  BY <1>1, <1>4 DEF HoldsNow, Holds, World, Later, Readings
<1>5. CASE c.kind = "heading" /\ MotionMode # "turn"
  BY <1>1, <1>5 DEF HoldsNow, Holds, World, Later, Readings
<1>6. CASE c.kind = "heading" /\ MotionMode = "turn"
  <2>0. \E e \in 0..(Circle - 1) : (rot + s * d) % Circle = (rot + s * e) % Circle
    <3> DEFINE Repeats(x, m, n) ==
            \E e \in 0..(Circle - 1) : (x + m * n) % Circle = (x + m * e) % Circle
    <3>1. \A x \in Int, m \in Int, n \in Nat : Repeats(x, m, n)
      BY HeadingRepeats
    <3> HIDE DEF Repeats
    <3>2. Repeats(rot, s, d)
      BY <1>2, <3>1
    <3> QED
      BY <3>2 DEF Repeats
  <2>1. PICK e \in 0..(Circle - 1) : (rot + s * d) % Circle = (rot + s * e) % Circle
    BY <2>0
  <2>2. e # 0 => e \in 1..MarchCap
    BY <1>6 DEF MarchCap
  <2>3. e # 0 => ~((rot + s * e) % Circle >= c.k)
    BY <1>1, <1>6, <2>2 DEF Holds, Ahead, Readings
  <2>4. e = 0 => rot + s * e = rot
    BY <1>2
  <2>5. ~(rot % Circle >= c.k)
    BY <1>1, <1>6 DEF HoldsNow, Holds, World, Readings
  <2>6. ~((rot + s * d) % Circle >= c.k)
    BY <2>1, <2>3, <2>4, <2>5
  <2> QED
    BY <1>6, <2>6 DEF Holds, Later, Readings
<1> QED
  BY <1>3, <1>4, <1>5, <1>6

\* A wait_until on the position or the heading is given up only when the motion under
\* way would never make it true, though the march looks no further than one field and
\* one circle.
THEOREM UnmetConditionsAreHopeless == Spec => UnmetMotionIsHopeless
<1>1. ASSUME TypeOK, Ownership, [Next]_vars, phase = "sweep", phase' = "gate"
      PROVE  Events = {} /\ gating' = CondParked
  <2>2. ~Step
    BY <1>1 DEF Step, BudgetStop, DriveFor, TurnFor, TurnToRotation, Drive, Turn,
         BlockingMotion, ContinuousMotion, StopDriving, SetHeading, Wait, LoopPass,
         WaitUntil, ResetTimer, Instant, SetVariable, Broadcast, ReceiverEnd, Break, EndStack,
         StopProject, ParkTime, schedVars
  <2>3. ~(UNCHANGED vars)
    BY <1>1 DEF vars, schedVars
  <2> QED
    BY <1>1, <2>2, <2>3 DEF Next, Resume, AdvanceClock, ClockBudgetStop, GateConds, UnmetGate, GateDone,
         EndRun, FinishPendingMotion
<1>2. TypeOK /\ Ownership /\ [Next]_vars => [UnmetIsHopeless({"position", "heading"})]_vars
  <2> SUFFICES ASSUME TypeOK, Ownership, [Next]_vars, phase = "sweep", phase' = "gate",
                      NEW t \in gating', NEW d \in 0..FieldCap,
                      cond[t].kind \in {"position", "heading"}
               PROVE  ~Holds(cond[t], Later(d))
    BY DEF UnmetIsHopeless
  <2> QED
    BY <1>1, NothingBeyond
<1> QED
  BY <1>2, TypeCorrect, OwnershipAlways, PTL DEF Spec, UnmetMotionIsHopeless

-----------------------------------------------------------------------------
(***************************************************************************)
(* The history variables change nothing: what holds of Sequencer holds of  *)
(* SequencerHistory.                                                       *)
(***************************************************************************)
LEMMA HistoryTypes == HistorySpec => []TypeOK /\ []Ownership
<1>1. HistoryInit => Init
  BY DEF HistoryInit
<1>2. [HistoryNext]_<<vars, historyVars>> => [Next]_vars
  BY DEF HistoryNext
<1>3. HistorySpec => Spec
  BY <1>1, <1>2, PTL DEF HistorySpec, Spec
<1> QED
  BY <1>3, TypeCorrect, OwnershipAlways, PTL

-----------------------------------------------------------------------------
(***************************************************************************)
(* The round robin.  A thread that is runnable has been passed over by     *)
(* none of the places the sweep still has to visit before it: with them it *)
(* comes to no more than N - 1.  The sweep goes back to the start only     *)
(* when nothing is runnable, which needs that gating a condition wakes     *)
(* nobody.                                                                 *)
(***************************************************************************)
PlacesBefore(t) == IF cursor < t THEN t - cursor - 1 ELSE N - cursor + t - 1

GateIsQuiet ==
    phase = "gate" => active.thread = 0 /\ \A t \in Threads : status[t] # "runnable"

TurnsLeft ==
    /\ passed \in [Threads -> Nat]
    /\ \A t \in Threads :
         passed[t] + (IF status[t] = "runnable" THEN PlacesBefore(t) ELSE N - 1) <= N - 1

\* A block executed under a gate wakes no other thread and ends in the gate.
LEMMA QuietBlock ==
    ASSUME TypeOK, Ownership, GateIsQuiet, Step, phase = "gate"
    PROVE  active'.thread = 0 /\ \A t \in Threads : status'[t] # "runnable"
<1>1. /\ running \in Threads
      /\ \A t \in Threads : t # running => status'[t] = status[t] \/ t = active.thread
  BY BlockStatuses
<1>2. active.thread = 0 /\ ~Blocking /\ \A t \in Threads : status[t] # "runnable" /\ t # active.thread
  BY DEF GateIsQuiet, Blocking, Threads
<1>3. active'.thread = 0
  <2>1. active' \in {active, NoMotion}
    BY DEF Step, BudgetStop, DriveFor, TurnFor, TurnToRotation, Drive, Turn,
         BlockingMotion, ContinuousMotion, StopDriving, SetHeading, Wait, LoopPass,
         WaitUntil, ResetTimer, Instant, SetVariable, Broadcast, ReceiverEnd, Break, EndStack,
         StopProject, ParkTime, driveVars
  <2> QED
    BY <1>2, <2>1 DEF NoMotion
<1>4. status \in [Threads -> Statuses] /\ Superseded = status
  BY <1>2 DEF TypeOK, Superseded
<1>5. \A parked : Yielded(status, parked)[running] = "gated"
  BY <1>1, <1>4 DEF Yielded
<1>6. status'[running] # "runnable"
  <2>1. ASSUME NEW mode, NEW sign, NEW length, BlockingMotion(mode, sign, length)
        PROVE  status'[running] # "runnable"
    BY <1>4, <1>5, <2>1 DEF BlockingMotion
  <2>2. ASSUME NEW seconds, ParkTime(seconds) PROVE status'[running] # "runnable"
    BY <1>5, <2>2 DEF ParkTime
  <2>3. ASSUME NEW c, WaitUntil(c) PROVE status'[running] # "runnable"
    BY <1>1, <1>2, <1>5, <2>3 DEF WaitUntil, threadVars
  <2>4. ASSUME Break \/ EndStack PROVE status'[running] # "runnable"
    BY <1>1, <1>2, <1>4, <2>4 DEF Break, EndStack
  <2>5. ASSUME \/ BudgetStop \/ SetHeading \/ ResetTimer \/ Instant
               \/ ReceiverEnd \/ StopProject \/ StopDriving
               \/ \E mode, sign : ContinuousMotion(mode, sign)
               \/ \E v \in Values : SetVariable(v)
               \/ \E k \in Keys : Broadcast(k)
        PROVE  status' = status
    BY <1>4, <2>5 DEF BudgetStop, SetHeading, ResetTimer, Instant, ReceiverEnd,
                 StopProject, StopDriving, ContinuousMotion, SetVariable, Broadcast, threadVars
  <2> QED
    BY <1>1, <1>2, <2>1, <2>2, <2>3, <2>4, <2>5
       DEF Step, DriveFor, TurnFor, TurnToRotation, Drive, Turn, Wait, LoopPass
<1> QED
  BY <1>1, <1>2, <1>3, <1>6

LEMMA QuietNext ==
    ASSUME TypeOK, Ownership, GateIsQuiet, [Next]_vars
    PROVE  GateIsQuiet'
<1>1. CASE Step
  <2>1. phase' \in {phase, "stopped"}
    BY <1>1 DEF Step, BudgetStop, DriveFor, TurnFor, TurnToRotation, Drive, Turn,
         BlockingMotion, ContinuousMotion, StopDriving, SetHeading, Wait, LoopPass,
         WaitUntil, ResetTimer, Instant, SetVariable, Broadcast, ReceiverEnd, Break, EndStack,
         StopProject, ParkTime, schedVars
  <2> QED
    BY <1>1, <2>1, QuietBlock DEF GateIsQuiet
<1>2. CASE GateConds
  <2>1. ~Blocking /\ Runnable = {}
    BY <1>2, NothingAhead DEF GateConds, Waiting, Quiescent
  <2> QED
    BY <1>2, <2>1 DEF GateConds, GateIsQuiet, Blocking, Runnable, threadVars, driveVars
<1>3. ASSUME NEW t \in Threads, UnmetGate(t) PROVE GateIsQuiet'
  <2>1. active' = active /\ \A u \in Threads : status'[u] \in {status[u], "gated"}
    BY <1>3 DEF UnmetGate, TypeOK
  <2> QED
    BY <1>3, <2>1 DEF UnmetGate, GateIsQuiet
<1>4. ASSUME ~Step, ~GateConds, \A t \in Threads : ~UnmetGate(t)
      PROVE  phase' # "gate" \/ (phase' = phase /\ active' = active /\ status' = status)
  BY <1>4 DEF Next, Resume, AdvanceClock, Waiting, Quiescent, ClockBudgetStop, GateDone,
         EndRun, FinishPendingMotion, vars, threadVars, driveVars, schedVars
<1> QED
  BY <1>1, <1>2, <1>3, <1>4 DEF GateIsQuiet

\* Resuming one thread takes at least its own place from what lies before each of the
\* others.
LEMMA ResumeTakesItsPlace ==
    ASSUME TypeOK, NEW u \in Threads, Resume(u), NEW t \in Threads, t # u,
           status[t] = "runnable"
    PROVE  PlacesBefore(t)' + 1 <= PlacesBefore(t)
<1>1. /\ N \in Nat /\ cursor \in 0..N /\ cursor' = u /\ u \in 1..N /\ t \in 1..N
      /\ N' = N
  BY DEF Resume, TypeOK, Threads
<1>2. \/ cursor < u /\ ~(cursor < t /\ t < u)
      \/ u <= cursor /\ ~(cursor < t /\ t < N + 1) /\ ~(0 < t /\ t < u)
  <2>1. t \in Runnable
    BY DEF Runnable
  <2>2. \A a, b : Between(a, b) = {} => ~(a < t /\ t < b)
    BY <2>1 DEF Between
  <2> QED
    BY <2>2 DEF Resume, NextInSweep
<1> QED
  BY <1>1, <1>2 DEF PlacesBefore

LEMMA TurnsNext ==
    ASSUME TypeOK, Ownership, GateIsQuiet, TurnsLeft, [HistoryNext]_<<vars, historyVars>>
    PROVE  TurnsLeft'
<1>1. N \in Nat /\ cursor \in 0..N /\ \A t \in Threads : t \in 1..N /\ passed[t] \in Nat
  BY DEF TypeOK, Threads, TurnsLeft
<1>2. \A t \in Threads : /\ status[t] # "runnable" => passed[t] = 0
                         /\ status[t] = "runnable" => passed[t] + PlacesBefore(t) <= N - 1
  BY <1>1 DEF TurnsLeft
<1>3. CASE UNCHANGED <<vars, historyVars>>
  BY <1>3 DEF TurnsLeft, PlacesBefore, vars, historyVars, threadVars, schedVars
<1>4. CASE HistoryNext
  <2>1. PassedOver /\ Next
    BY <1>4 DEF HistoryNext
  <2>2. passed' \in [Threads -> Nat]
    BY <1>1, <2>1 DEF PassedOver
  <2>3. \A t \in Threads :
          passed'[t] = IF status'[t] # "runnable" \/ running' = t THEN 0
                       ELSE IF running = 0 /\ running' # 0 THEN passed[t] + 1 ELSE passed[t]
    BY <2>1 DEF PassedOver
  <2>4. cursor' \in 0..N /\ N' = N
    <3>1. TypeOK'
      BY <2>1, TypeNext
    <3> QED
      BY SMTT(30), <1>1, <3>1 DEF TypeOK, Threads
  <2>5. \A t \in Threads : PlacesBefore(t)' \in 0..(N - 1)
    BY <1>1, <2>4 DEF PlacesBefore
  <2>6. ASSUME NEW t \in Threads, status'[t] = "runnable", passed'[t] # 0
        PROVE  passed'[t] + PlacesBefore(t)' <= N - 1
    <3>1. CASE \E u \in Threads : Resume(u)
      <4>1. PICK u \in Threads : Resume(u)
        BY <3>1
      <4>2. running' = u /\ running = 0 /\ status' = status
        BY <4>1 DEF Resume, threadVars
      <4>3. u # t /\ passed'[t] = passed[t] + 1
        BY <2>3, <2>6, <4>2 DEF Threads
      <4>4. PlacesBefore(t)' + 1 <= PlacesBefore(t)
        BY <2>6, <4>1, <4>2, <4>3, ResumeTakesItsPlace
      <4>5. PlacesBefore(t) \in Int
        BY <1>1 DEF PlacesBefore
      <4> QED
        BY <1>1, <1>2, <2>5, <2>6, <4>2, <4>3, <4>4, <4>5
    <3>2. CASE Step
      <4>1. running # 0 /\ cursor' = cursor
        BY <3>2 DEF Step, BudgetStop, DriveFor, TurnFor, TurnToRotation, Drive,
             Turn, BlockingMotion, ContinuousMotion, StopDriving, SetHeading, Wait, LoopPass,
             WaitUntil, ResetTimer, Instant, SetVariable, Broadcast, ReceiverEnd, Break,
             EndStack, StopProject, ParkTime, schedVars, Commands, Executes
      <4>2. passed'[t] = passed[t]
        BY <2>3, <2>6, <4>1
      <4>3. PlacesBefore(t)' = PlacesBefore(t)
        BY <4>1 DEF PlacesBefore
      <4> QED
        BY <1>2, <2>6, <4>2, <4>3
    <3>3. CASE AdvanceClock \/ GateDone
      <4>1. running' = running /\ running = 0 /\ status[t] # "runnable"
        BY <3>3 DEF AdvanceClock, GateDone, Waiting, Quiescent, Runnable, GateIsQuiet
      <4> QED
        BY <1>2, <2>3, <2>6, <4>1
    <3>4. CASE \E u \in Threads : UnmetGate(u)
      <4>1. status[t] # "runnable" /\ status'[t] \in {status[t], "gated"}
        BY <3>4 DEF UnmetGate, GateIsQuiet, TypeOK
      <4> QED
        BY <2>6, <4>1
    <3>5. CASE ClockBudgetStop \/ GateConds \/ EndRun \/ FinishPendingMotion
      <4>1. running' = running /\ cursor' = cursor /\ status' = status
        BY <3>5 DEF ClockBudgetStop, GateConds, EndRun, FinishPendingMotion, threadVars
      <4>2. passed'[t] = passed[t]
        BY <2>3, <2>6, <4>1
      <4>3. PlacesBefore(t)' = PlacesBefore(t)
        BY <4>1 DEF PlacesBefore
      <4> QED
        BY <1>2, <2>6, <4>1, <4>2, <4>3
    <3> QED
      BY <2>1, <3>1, <3>2, <3>3, <3>4, <3>5 DEF Next
  <2>7. ASSUME NEW t \in Threads
        PROVE  passed'[t] + (IF status'[t] = "runnable" THEN PlacesBefore(t)' ELSE N - 1) <= N - 1
    BY <1>1, <2>3, <2>5, <2>6
  <2> QED
    BY <2>2, <2>4, <2>7 DEF TurnsLeft
<1> QED
  BY <1>3, <1>4

\* The sweep is fair between its threads, whoever parks, wakes or is superseded while it
\* goes round: each of the others is resumed at most once before a runnable thread is.
THEOREM NobodyIsPassedOver == HistorySpec => []NoThreadPassedOver
<1>1. HistoryInit => GateIsQuiet /\ TurnsLeft
  BY DEF HistoryInit, Init, GateIsQuiet, TurnsLeft, PlacesBefore, Threads
<1>2. TypeOK /\ Ownership /\ GateIsQuiet /\ TurnsLeft /\ [HistoryNext]_<<vars, historyVars>>
        => GateIsQuiet' /\ TurnsLeft'
  <2>1. [HistoryNext]_<<vars, historyVars>> => [Next]_vars
    BY DEF HistoryNext
  <2> QED
    BY <2>1, QuietNext, TurnsNext
<1>3. TypeOK /\ TurnsLeft => NoThreadPassedOver
  <2> SUFFICES ASSUME TypeOK, TurnsLeft, NEW t \in Threads PROVE passed[t] \in 0..(N - 1)
    BY DEF NoThreadPassedOver
  <2>1. N \in Nat /\ cursor \in 0..N /\ t \in 1..N /\ passed[t] \in Nat
    BY DEF TypeOK, TurnsLeft, Threads
  <2>2. passed[t] + (IF status[t] = "runnable" THEN PlacesBefore(t) ELSE N - 1) <= N - 1
    BY DEF TurnsLeft
  <2> QED
    BY <2>1, <2>2 DEF PlacesBefore
<1> QED
  BY <1>1, <1>2, <1>3, HistoryTypes, PTL DEF HistorySpec

-----------------------------------------------------------------------------
(***************************************************************************)
(* The sleepers.  What is left of a sleep and what is left of the time     *)
(* until it is due are the same, in every state in which somebody sleeps:  *)
(* no clock but the sweep's moves while there are sleepers, because a      *)
(* condition is gated, and a run ends, only when no sleep is an event.     *)
(***************************************************************************)
SleepersAreDue ==
    \A t \in Threads :
        status[t] = "parked_time" => /\ phase \in {"sweep", "stopped"}
                                     /\ due[t] = now + wake[t]

\* A block of another thread lets a sleeper sleep on, and its own thread fall asleep.
LEMMA SleepersInBlock ==
    ASSUME TypeOK, Ownership, SleepersAreDue, Step, Slept, Overrun = 0,
           NEW t \in Threads
    PROVE  /\ status[t] = "parked_time" => status'[t] = "parked_time"
           /\ status'[t] = "parked_time" => /\ phase' \in {"sweep", "stopped"}
                                            /\ due'[t] = now' + wake'[t]
<1>1. /\ running \in Threads /\ running # 0 /\ phase \in {"sweep", "gate"}
      /\ status[running] = IF phase = "gate" THEN "parked_cond" ELSE "runnable"
  BY BlockStatuses DEF Ownership, RunnerMayRun, Threads
<1>2. /\ status \in [Threads -> Statuses] /\ wake \in [Threads -> Nat] /\ now \in Nat
      /\ pending.sign \in Int
  BY DEF TypeOK, NoPending
<1>3. t = active.thread => status[t] = "parked_motion"
  BY DEF Ownership, OneMotionOneOwner
<1>4. Superseded \in [Threads -> Statuses] /\ (status[t] = "parked_time" <=> Superseded[t] = "parked_time")
  BY <1>2, <1>3 DEF Superseded, Statuses, Policies
<1>5. due'[t] = IF status'[t] # "parked_time" THEN 0
                ELSE IF status[t] = "parked_time" THEN due[t] ELSE now' + wake'[t]
  BY DEF Slept
<1>6. phase' \in {phase, "stopped"}
  BY DEF Step, BudgetStop, DriveFor, TurnFor, TurnToRotation, Drive, Turn,
       BlockingMotion, ContinuousMotion, StopDriving, SetHeading, Wait, LoopPass,
       WaitUntil, ResetTimer, Instant, SetVariable, Broadcast, ReceiverEnd, Break, EndStack,
       StopProject, ParkTime, schedVars
<1>7. now' = now
  <2>1. TakeoverPending => now' = now
    BY <1>2 DEF TakeoverPending, Elapsed
  <2> QED
    BY <2>1 DEF Step, BudgetStop, DriveFor, TurnFor, TurnToRotation, Drive, Turn,
       BlockingMotion, ContinuousMotion, StopDriving, SetHeading, Wait, LoopPass,
       WaitUntil, ResetTimer, Instant, SetVariable, Broadcast, ReceiverEnd, Break, EndStack,
       StopProject, ParkTime, worldVars
<1>8. t # running => wake'[t] = wake[t]
  <2>1. \A seconds : ParkTime(seconds) /\ t # running => wake'[t] = wake[t]
    BY <1>2 DEF ParkTime
  <2>2. \/ \E seconds : ParkTime(seconds)
        \/ wake' = wake
    BY DEF Step, BudgetStop, DriveFor, TurnFor, TurnToRotation, Drive, Turn,
       BlockingMotion, ContinuousMotion, StopDriving, SetHeading, Wait, LoopPass,
       WaitUntil, ResetTimer, Instant, SetVariable, Broadcast, ReceiverEnd, Break, EndStack,
       StopProject, threadVars
  <2> QED
    BY <2>1, <2>2
<1>9. CASE t # running
  <2>1. \/ status'[t] = status[t]
        \/ status'[t] = Superseded[t]
    <3>1. ASSUME NEW st \in [Threads -> Statuses], NEW parked PROVE Yielded(st, parked)[t] = st[t]
      BY <1>9, <3>1 DEF Yielded
    <3>2. ASSUME NEW mode, NEW sign, NEW length, BlockingMotion(mode, sign, length)
          PROVE  status'[t] = Superseded[t]
      BY <1>4, <3>1, <3>2 DEF BlockingMotion
    <3>3. ASSUME NEW mode, NEW sign, ContinuousMotion(mode, sign)
          PROVE  status'[t] \in {status[t], Superseded[t]}
      BY <3>3 DEF ContinuousMotion, threadVars
    <3>4. ASSUME StopDriving PROVE status'[t] = Superseded[t]
      BY <3>4 DEF StopDriving
    <3>5. ASSUME NEW seconds, ParkTime(seconds) PROVE status'[t] = status[t]
      BY <1>2, <3>1, <3>5 DEF ParkTime
    <3>6. ASSUME NEW c, WaitUntil(c) PROVE status'[t] = status[t]
      BY <1>2, <3>1, <3>6 DEF WaitUntil, threadVars
    <3>7. ASSUME Break \/ EndStack PROVE status'[t] = status[t]
      BY <1>2, <1>9, <3>7 DEF Break, EndStack
    <3>8. ASSUME \/ BudgetStop \/ SetHeading \/ ResetTimer \/ Instant
                 \/ ReceiverEnd \/ StopProject
                 \/ \E v \in Values : SetVariable(v)
                 \/ \E k \in Keys : Broadcast(k)
          PROVE  status' = status
      BY <3>8 DEF BudgetStop, SetHeading, ResetTimer, Instant, ReceiverEnd,
             StopProject, SetVariable, Broadcast, threadVars
    <3> QED
      BY <3>2, <3>3, <3>4, <3>5, <3>6, <3>7, <3>8
         DEF Step, DriveFor, TurnFor, TurnToRotation, Drive, Turn, Wait, LoopPass
  <2> QED
    BY <1>4, <1>5, <1>6, <1>7, <1>8, <1>9, <2>1 DEF SleepersAreDue
<1>10. CASE t = running
  <2>1. status[t] # "parked_time"
    BY <1>1, <1>10
  <2>2. status'[t] = "parked_time" => phase # "gate"
    <3> SUFFICES ASSUME phase = "gate" PROVE status'[t] # "parked_time"
      OBVIOUS
    <3>1. ASSUME NEW st \in [Threads -> Statuses], NEW parked
          PROVE  Yielded(st, parked)[t] = "gated"
      BY <1>1, <1>10, <3>1 DEF Yielded
    <3>2. ASSUME NEW mode, NEW sign, NEW length, BlockingMotion(mode, sign, length)
          PROVE  status'[t] = "gated"
      BY <1>4, <3>1, <3>2 DEF BlockingMotion
    <3>3. ASSUME NEW mode, NEW sign, ContinuousMotion(mode, sign)
          PROVE  status'[t] \in {status[t], Superseded[t]}
      BY <3>3 DEF ContinuousMotion, threadVars
    <3>4. ASSUME StopDriving PROVE status'[t] = Superseded[t]
      BY <3>4 DEF StopDriving
    <3>5. ASSUME NEW seconds, ParkTime(seconds) PROVE status'[t] = "gated"
      BY <1>2, <3>1, <3>5 DEF ParkTime
    <3>6. ASSUME NEW c, WaitUntil(c) PROVE status'[t] \in {status[t], "gated"}
      BY <1>2, <3>1, <3>6 DEF WaitUntil, threadVars
    <3>7. ASSUME Break \/ EndStack PROVE status'[t] \in {status[t], "gated", "done"}
      BY <1>2, <1>10, <3>7 DEF Break, EndStack
    <3>8. ASSUME \/ BudgetStop \/ SetHeading \/ ResetTimer \/ Instant
                 \/ ReceiverEnd \/ StopProject
                 \/ \E v \in Values : SetVariable(v)
                 \/ \E k \in Keys : Broadcast(k)
          PROVE  status' = status
      BY <3>8 DEF BudgetStop, SetHeading, ResetTimer, Instant, ReceiverEnd,
             StopProject, SetVariable, Broadcast, threadVars
    <3> QED
      BY <1>4, <2>1, <3>2, <3>3, <3>4, <3>5, <3>6, <3>7, <3>8
         DEF Step, DriveFor, TurnFor, TurnToRotation, Drive, Turn, Wait, LoopPass
  <2> QED
    BY <1>1, <1>5, <1>6, <2>1, <2>2
<1> QED
  BY <1>9, <1>10

\* An interval of the clock takes the same from every sleep and from every due time, and
\* wakes the sleepers whose sleep ends with it.
LEMMA SleepersInSlice ==
    ASSUME TypeOK, Ownership, SleepersAreDue, AdvanceClock, Slept, NEW t \in Threads
    PROVE  /\ status[t] = "parked_time" /\ status'[t] = "runnable" => now' = due[t]
           /\ status'[t] = "parked_time" => /\ phase' \in {"sweep", "stopped"}
                                            /\ due'[t] = now' + wake'[t]
<1>1. PICK dt \in Nat : Slice(dt) /\ (status[t] = "parked_time" => dt <= wake[t])
  BY CompletedIsCarriedOut
<1>2. /\ now \in Nat /\ wake[t] \in Nat /\ now' = now + dt
      /\ phase' = phase /\ phase = "sweep"
  BY <1>1 DEF TypeOK, Slice, Elapsed, AdvanceClock, Waiting, Quiescent
<1>3. due'[t] = IF status'[t] # "parked_time" THEN 0
                ELSE IF status[t] = "parked_time" THEN due[t] ELSE now' + wake'[t]
  BY DEF Slept
<1>4. CASE status[t] = "parked_time"
  <2>1. due[t] = now + wake[t]
    BY <1>4 DEF SleepersAreDue
  <2>2. t # active.thread \/ ~Blocking
    BY <1>4 DEF Ownership, OneMotionOneOwner
  <2>3. t \notin Woken /\ ~(Completes(dt) /\ t = active.thread)
    BY <1>4, <2>2 DEF Woken, Satisfied, CondParked, Completes
  <2>4. status'[t] = IF wake[t] <= dt THEN "runnable" ELSE "parked_time"
    BY <1>1, <1>4, <2>3 DEF Slice, Rested
  <2>5. wake'[t] = IF wake[t] > dt THEN wake[t] - dt ELSE 0
    BY <1>1, <1>4 DEF Slice
  <2> QED
    BY <1>1, <1>2, <1>3, <1>4, <2>1, <2>4, <2>5
<1>5. CASE status[t] # "parked_time"
  <2>1. status'[t] \in {status[t], "runnable"}
    BY <1>1 DEF Slice
  <2> QED
    BY <1>5, <2>1
<1> QED
  BY <1>4, <1>5

LEMMA SleepersNext ==
    ASSUME TypeOK, Ownership, SleepersAreDue, [HistoryNext]_<<vars, historyVars>>,
           LoopTick = 0 \/ Frame = 0, NEW t \in Threads
    PROVE  /\ status[t] = "parked_time" /\ status'[t] = "runnable" => now' = due[t]
           /\ status'[t] = "parked_time" => /\ phase' \in {"sweep", "stopped"}
                                            /\ due'[t] = now' + wake'[t]
<1>1. CASE UNCHANGED <<vars, historyVars>>
  BY <1>1 DEF SleepersAreDue, vars, historyVars, threadVars, schedVars, worldVars
<1>2. CASE HistoryNext
  <2>1. Slept /\ Next /\ Overrun = 0
    BY <1>2 DEF HistoryNext, Overrun
  <2>2. CASE Step
    BY <2>1, <2>2, SleepersInBlock
  <2>3. CASE AdvanceClock
    BY <2>1, <2>3, SleepersInSlice
  <2>4. ASSUME ~Step, ~AdvanceClock
        PROVE  /\ status'[t] = "parked_time" => status[t] = "parked_time"
               /\ status[t] = "parked_time" =>
                     status'[t] = "parked_time" /\ now' = now /\ wake' = wake
                       /\ phase' \in {"sweep", "stopped"}
    <3>1. CASE \/ \E u \in Threads : Resume(u)
               \/ ClockBudgetStop
      BY <3>1 DEF Resume, ClockBudgetStop, SleepersAreDue, threadVars, worldVars
    <3>2. CASE GateConds \/ EndRun
      <4>1. status[t] # "parked_time"
        BY <3>2, NothingAhead DEF GateConds, EndRun, Parked
      <4>2. status' = status
        BY <3>2 DEF GateConds, EndRun, threadVars
      <4> QED
        BY <4>1, <4>2
    <3>3. CASE GateDone \/ FinishPendingMotion \/ \E u \in Threads : UnmetGate(u)
      <4>1. phase \notin {"sweep", "stopped"}
        BY <3>3 DEF GateDone, FinishPendingMotion, UnmetGate
      <4>2. status[t] # "parked_time"
        BY <4>1 DEF SleepersAreDue
      <4>3. status'[t] \in {status[t], "gated"}
        BY <3>3 DEF GateDone, FinishPendingMotion, UnmetGate, TypeOK, threadVars
      <4> QED
        BY <4>2, <4>3
    <3> QED
      BY <2>1, <2>4, <3>1, <3>2, <3>3 DEF Next
  <2>5. ASSUME ~Step, ~AdvanceClock, status'[t] = "parked_time" PROVE due'[t] = due[t]
    BY <2>1, <2>4, <2>5 DEF Slept
  <2> QED
    BY <2>2, <2>3, <2>4, <2>5 DEF SleepersAreDue
<1> QED
  BY <1>1, <1>2

\* Where no takeover frame is charged, a sleeper wakes at the very time its wait set, into
\* however many slices the other threads' events cut it.
THEOREM SleepersWakeOnTime ==
    ASSUME LoopTick = 0 \/ Frame = 0
    PROVE  HistorySpec => WokenOnTime
<1>1. HistoryInit => SleepersAreDue
  BY DEF HistoryInit, Init, SleepersAreDue
<1>2. TypeOK /\ Ownership /\ SleepersAreDue /\ [HistoryNext]_<<vars, historyVars>>
        => SleepersAreDue'
  BY SleepersNext DEF SleepersAreDue
<1>3. TypeOK /\ Ownership /\ SleepersAreDue /\ [HistoryNext]_<<vars, historyVars>>
        => [\A t \in Threads :
              status[t] = "parked_time" /\ status'[t] = "runnable"
                => now' = due[t]]_<<vars, historyVars>>
  BY SleepersNext
<1> QED
  BY <1>1, <1>2, <1>3, HistoryTypes, PTL DEF HistorySpec, WokenOnTime

-----------------------------------------------------------------------------
(***************************************************************************)
(* The lockout (Lockout.tla).  The winner alone commands, so the motion    *)
(* that is active is the winner's, and nothing is ever superseded, queued  *)
(* or resumed; the steps of the clock carry out what the winner ordered    *)
(* last, and every step of a loser leaves the cell and the robot alone.    *)
(***************************************************************************)
\* The blocking motion is the winner's and none waits to be resumed.
OnlyWinnerActs == active.thread \notin Losers /\ resumeQ = <<>>

OrderType ==
    /\ ordered.cell \in {D!Idle} \cup D!Closed \cup D!Open
    /\ ordered.pos \in Int /\ ordered.rot \in Int
    /\ ordered.now \in Nat /\ ordered.now <= now

LEMMA LosersAreThreads == Losers \subseteq Threads /\ 0 \notin Losers
BY LosersAssumption DEF Threads

\* A thread that commands is the winner, and finds no blocking motion.
LEMMA WinnerCommands ==
    ASSUME TypeOK, Ownership, OnlyWinnerActs, Losers # {}, NEW op, Commands(op)
    PROVE  running # 0 /\ running \in Threads \ Losers /\ ~Blocking
<1>1. running # 0 /\ running \notin Losers
  BY DEF Commands, Executes
<1>2. running \in Threads /\ running # active.thread
  BY <1>1, SupersededOwner
<1>3. PICK winner \in Threads : Losers = Threads \ {winner}
  BY LosersAssumption
<1>4. Blocking => active.thread \in Threads
  BY MotionFields DEF MotionType
<1>5. ~Blocking
  BY <1>1, <1>2, <1>3, <1>4 DEF OnlyWinnerActs
<1> QED
  BY <1>1, <1>2, <1>5

LEMMA WinnerActsNext ==
    ASSUME TypeOK, Ownership, OnlyWinnerActs, Losers # {}, [Next]_vars
    PROVE  OnlyWinnerActs'
<1>1. ASSUME UNCHANGED <<active, resumeQ>> PROVE OnlyWinnerActs'
  BY <1>1 DEF OnlyWinnerActs
<1>2. ASSUME NEW op, Commands(op), NotifyDrivetrainCommand,
             active' = NoMotion \/ active'.thread = running
      PROVE  OnlyWinnerActs'
  <2>1. running \notin Losers /\ ~Blocking
    BY <1>2, WinnerCommands
  <2>2. resumeQ' = resumeQ
    BY <1>2, <2>1 DEF NotifyDrivetrainCommand, Interrupted
  <2>3. active'.thread \notin Losers
    BY <1>2, <2>1, LosersAreThreads DEF NoMotion
  <2> QED
    BY <2>2, <2>3 DEF OnlyWinnerActs
<1>3. CASE Step
  <2>1. ASSUME NEW op, Commands(op), NEW mode, NEW sign, NEW length,
               BlockingMotion(mode, sign, length)
        PROVE  OnlyWinnerActs'
    BY <2>1, <1>2 DEF BlockingMotion
  <2>2. ASSUME NEW op, Commands(op), NEW mode, NEW sign, ContinuousMotion(mode, sign)
        PROVE  OnlyWinnerActs'
    BY <2>2, <1>1, <1>2 DEF ContinuousMotion, driveVars
  <2>3. CASE StopDriving
    BY <2>3, <1>2 DEF StopDriving
  <2> QED
    BY <1>3, <1>1, <2>1, <2>2, <2>3
       DEF Step, BudgetStop, DriveFor, TurnFor, TurnToRotation, Drive, Turn,
           SetHeading, Wait, LoopPass, WaitUntil, ResetTimer, Instant, SetVariable, Broadcast,
           ReceiverEnd, Break, EndStack, StopProject, ParkTime, driveVars
<1>4. CASE AdvanceClock
  <2>1. PICK dt : Slice(dt)
    BY <1>4 DEF AdvanceClock
  <2>2. ~Resumes(dt)
    BY DEF OnlyWinnerActs, Resumes
  <2>3. resumeQ' = resumeQ
    BY <2>1, <2>2 DEF Slice
  <2>4. active'.thread \in {active.thread, 0}
    <3>1. CASE Completes(dt)
      BY <2>1, <2>2, <3>1 DEF Slice, NoMotion
    <3>2. CASE ~Completes(dt) /\ Blocking
      BY <2>1, <2>2, <3>2, MotionFields DEF Slice, MotionType
    <3>3. CASE ~Completes(dt) /\ ~Blocking
      BY <2>1, <2>2, <3>3 DEF Slice
    <3> QED
      BY <3>1, <3>2, <3>3
  <2> QED
    BY <2>3, <2>4, LosersAreThreads DEF OnlyWinnerActs
<1> QED
  BY <1>1, <1>3, <1>4
     DEF Next, Resume, ClockBudgetStop, GateConds, UnmetGate, GateDone, EndRun,
         FinishPendingMotion, vars, driveVars

\* Time d passes: the cell's motion goes on, and the end of a closed one frees the cell.
CarriesOn(d) ==
    /\ now' = now + d /\ D!Displaced(Cell, d)
    /\ Cell = D!Idle => Cell' = D!Idle
    /\ Cell.open => Cell' \in {Cell, D!Idle}
    /\ Cell \in D!Closed =>
          /\ d <= Cell.left
          /\ Cell' = IF d < Cell.left THEN [Cell EXCEPT !.left = Cell.left - d] ELSE D!Idle

LEMMA WinnerSlice ==
    ASSUME TypeOK, TypeOK', OneCell, OnlyWinnerActs, AdvanceClock
    PROVE  \E d \in Nat : CarriesOn(d)
<1>1. PICK dt \in Nat : Slice(dt) /\ (Blocking => dt <= active.left)
  BY CompletedIsCarriedOut
<1>2. now' - now = dt /\ now' = now + dt
  <2>1. now' = now + dt
    BY <1>1 DEF Slice, Elapsed
  <2>2. now \in Nat
    BY DEF TypeOK
  <2> QED
    BY <2>1, <2>2
<1>3. D!Elapse
  BY <1>1, SliceStep
<1>4. D!Displaced(Cell, dt)
  BY <1>2, <1>3 DEF D!Elapse
<1>5. Cell = D!Idle => Cell' = D!Idle
  BY <1>3 DEF D!Elapse, D!Idle, D!Closed
<1>6. Cell.open => Cell' \in {Cell, D!Idle}
  BY <1>3, CellCases DEF D!Elapse, D!Idle, D!Closed
<1>7. ASSUME Cell \in D!Closed
      PROVE  /\ dt <= Cell.left
             /\ dt < Cell.left => Cell' = [Cell EXCEPT !.left = Cell.left - dt]
  <2>1. dt <= Cell.left
    BY <1>2, <1>3, <1>7 DEF D!Elapse
  <2>2. Cell # D!Idle /\ ~Cell.open
    <3>1. Blocking
      BY <1>7, CellCases
    <3> QED
      BY <3>1, CellCases, MotionFields DEF D!Idle, Modes
  <2> QED
    BY <1>2, <1>3, <1>7, <2>1, <2>2 DEF D!Elapse
<1>8. ASSUME Cell \in D!Closed, ~(dt < Cell.left) PROVE Cell' = D!Idle
  <2>1. Blocking
    BY <1>8, CellCases
  <2>2. Completes(dt) /\ ~Resumes(dt)
    BY <1>8, <2>1, CellCases, MotionFields DEF Completes, OnlyWinnerActs, Resumes
  <2>3. active' = NoMotion /\ pending' = NoPending
    BY <1>1, <2>1, <2>2 DEF Slice, OneCell
  <2> QED
    BY <2>3 DEF Cell, Blocking, Armed, NoMotion, NoPending, D!Idle
<1>9. CarriesOn(dt)
  BY <1>2, <1>4, <1>5, <1>6, <1>7, <1>8 DEF CarriesOn
<1> QED
  BY <1>9

\* A block changes what the drivetrain holds by a command of the winner's, or moves nothing.
LEMMA WinnerBlocks ==
    ASSUME TypeOK, TypeOK', Ownership, OneCell, OnlyWinnerActs, Losers # {}, Step
    PROVE  Orders \/ UNCHANGED D!vars
<1>1. ASSUME NEW op, Commands(op), TakeoverPending, Armed => Cell' # Cell
      PROVE  Orders \/ UNCHANGED D!vars
  <2>1. running \in Threads \ Losers /\ ~Blocking
    BY <1>1, WinnerCommands
  <2>2. CASE Cell' # Cell
    BY <2>1, <2>2 DEF Orders
  <2>3. CASE Cell' = Cell
    <3>1. pending = NoPending /\ Overrun = 0
      BY <1>1, <2>3, MotionFields DEF Overrun
    <3>2. pos' = pos /\ rot' = rot /\ now' = now
      BY <1>1, <3>1 DEF TakeoverPending, Displaced, Elapsed, NoPending, TypeOK
    <3> QED
      BY <2>3, <3>2 DEF D!vars
  <2> QED
    BY <2>2, <2>3
<1>2. ASSUME NEW op, Commands(op), NEW mode, NEW sign, NEW length,
             BlockingMotion(mode, sign, length)
      PROVE  Orders \/ UNCHANGED D!vars
  <2>1. TakeoverPending /\ pending' = NoPending
    BY <1>2 DEF BlockingMotion
  <2>2. ~Cell'.open
    BY <2>1 DEF Cell, Armed, NoPending
  <2>3. Armed => Cell.open
    BY CellCases DEF OneCell, Armed, NoPending
  <2> QED
    BY <1>1, <1>2, <2>1, <2>2, <2>3
<1>3. ASSUME NEW op, Commands(op), NEW mode \in Modes, NEW sign, ContinuousMotion(mode, sign)
      PROVE  Orders \/ UNCHANGED D!vars
  <2>1. CASE Reissued(mode, sign)
    BY <1>3, <2>1, StutterStep DEF ContinuousMotion, driveVars, worldVars
  <2>2. CASE ~Reissued(mode, sign)
    <3>1. /\ TakeoverPending /\ active' = NoMotion
          /\ pending' = [mode |-> mode, sign |-> sign]
      BY <1>3, <2>2 DEF ContinuousMotion
    <3>2. Cell'.mode = mode /\ Cell'.sign = sign
      BY <3>1 DEF Cell, Blocking, NoMotion
    <3>3. Armed => ~(pending.mode = mode /\ pending.sign = sign)
      BY <2>2 DEF Reissued, Armed, TypeOK, NoPending
    <3>4. Armed => Cell.mode = pending.mode /\ Cell.sign = pending.sign
      BY CellCases DEF OneCell, Armed, NoPending
    <3> QED
      BY <1>1, <1>3, <3>1, <3>2, <3>3, <3>4
  <2> QED
    BY <2>1, <2>2
<1>4. CASE StopDriving \/ SetHeading
  <2>1. TakeoverPending /\ pending' = NoPending /\ \E op : Commands(op)
    BY <1>4 DEF StopDriving, SetHeading
  <2>2. ~Cell'.open
    BY <2>1 DEF Cell, Armed, NoPending
  <2>3. Armed => Cell.open
    BY CellCases DEF OneCell, Armed, NoPending
  <2> QED
    BY <1>1, <2>1, <2>2, <2>3
<1>5. ASSUME \/ BudgetStop
             \/ \E w \in Waits : Wait(w)
             \/ \E r \in 0..LoopTick : LoopPass(r)
             \/ \E c \in Conds : WaitUntil(c)
             \/ ResetTimer \/ Instant
             \/ \E v \in Values : SetVariable(v)
             \/ \E k \in Keys : Broadcast(k)
             \/ ReceiverEnd \/ Break \/ EndStack \/ StopProject
      PROVE  UNCHANGED D!vars
  <2>1. UNCHANGED <<active, pending, pos, rot, now>>
    BY <1>5 DEF BudgetStop, Wait, LoopPass, WaitUntil, ResetTimer, Instant,
                SetVariable, Broadcast, ReceiverEnd, Break, EndStack, StopProject, ParkTime,
                driveVars, worldVars
  <2> QED
    BY <2>1, StutterStep
<1>6. Step => \/ \E op : Commands(op) /\ \E mode, sign, length : BlockingMotion(mode, sign, length)
              \/ \E op : Commands(op) /\ \E mode \in Modes : \E sign : ContinuousMotion(mode, sign)
              \/ StopDriving \/ SetHeading \/ BudgetStop
              \/ \E w \in Waits : Wait(w)
              \/ \E r \in 0..LoopTick : LoopPass(r)
              \/ \E c \in Conds : WaitUntil(c)
              \/ ResetTimer \/ Instant
              \/ \E v \in Values : SetVariable(v)
              \/ \E k \in Keys : Broadcast(k)
              \/ ReceiverEnd \/ Break \/ EndStack \/ StopProject
  BY DEF Step, DriveFor, TurnFor, TurnToRotation, Drive, Turn, Modes
<1> QED
  BY <1>2, <1>3, <1>4, <1>5, <1>6

\* A motion goes on: the way gone since the order is longer by what was moved.
LEMMA MotionGoesOn ==
    ASSUME TypeOK, TypeOK', OrderType, OnlyWinnersMotion, Cell # D!Idle, ordered' = ordered,
           NEW d \in Nat, D!Displaced(Cell, d)
    PROVE  /\ ordered.cell.mode # "drive" => pos' = ordered.pos
           /\ ordered.cell.mode # "turn" => rot' = ordered.rot
           /\ Gone \in Int /\ Gone' = Gone + d /\ Gone = now - ordered.now /\ Gone >= 0
           /\ Cell = [ordered.cell EXCEPT !.left = IF ordered.cell.open THEN 0 ELSE @ - Gone]
           /\ Cell.open = ordered.cell.open
           /\ ~Cell.open => Cell.left = ordered.cell.left - Gone
           /\ ordered.cell \in D!Closed \cup D!Open
<1> DEFINE c == ordered.cell
<1>1. /\ Gone = now - ordered.now
      /\ Cell = [c EXCEPT !.left = IF c.open THEN 0 ELSE c.left - Gone]
  BY DEF OnlyWinnersMotion
<1>2. c \in {D!Idle} \cup D!Closed \cup D!Open
  BY DEF OrderType
<1>3. /\ Cell.mode = c.mode /\ Cell.sign = c.sign /\ Cell.open = c.open
      /\ Cell.left = IF c.open THEN 0 ELSE c.left - Gone
  BY <1>1, <1>2 DEF D!Idle, D!Closed, D!Open
<1>4. Cell.mode \in {"drive", "turn"} /\ Cell.sign \in {-1, 1}
  BY CellType DEF CellTypeOK, D!Closed, D!Open
<1>5. c \in D!Closed \cup D!Open
  BY <1>2, <1>3, <1>4 DEF D!Idle
<1>6. /\ pos \in Int /\ rot \in Int /\ now \in Nat
      /\ ordered.pos \in Int /\ ordered.rot \in Int /\ ordered.now \in Nat
      /\ ordered.now <= now
  BY DEF TypeOK, OrderType
<1>7. Gone \in Int /\ Gone >= 0
  BY <1>1, <1>6
<1>8. /\ Gone = c.sign * (IF c.mode = "drive" THEN pos - ordered.pos ELSE rot - ordered.rot)
      /\ Gone' = c.sign * (IF c.mode = "drive" THEN pos' - ordered.pos ELSE rot' - ordered.rot)
  BY DEF Gone
<1>9. /\ c.mode # "drive" => pos = ordered.pos
      /\ c.mode # "turn" => rot = ordered.rot
  BY DEF OnlyWinnersMotion
<1>10. /\ pos' = IF c.mode = "drive" THEN pos + c.sign * d ELSE pos
       /\ rot' = IF c.mode = "turn" THEN rot + c.sign * d ELSE rot
  BY <1>3 DEF D!Displaced
<1>11. Gone' = Gone + d
  <2>1. CASE c.sign = 1
    BY <1>3, <1>4, <1>6, <1>8, <1>10, <2>1
  <2>2. CASE c.sign = -1
    BY <1>3, <1>4, <1>6, <1>8, <1>10, <2>2
  <2> QED
    BY <1>3, <1>4, <2>1, <2>2
<1> QED
  BY <1>1, <1>3, <1>5, <1>7, <1>9, <1>10, <1>11

\* Time passes: the motion ordered is carried out, or over, or ended early.
LEMMA OrderCarriedOut ==
    ASSUME TypeOK, TypeOK', OrderType, OnlyWinnersMotion, ordered' = ordered,
           NEW d \in Nat, CarriesOn(d)
    PROVE  OnlyWinnersMotion' /\ ordered.now <= now'
<1>1. now \in Nat /\ ordered.now \in Nat /\ ordered.now <= now
  BY DEF TypeOK, OrderType
<1>2. now' = now + d /\ D!Displaced(Cell, d)
  BY DEF CarriesOn
<1>3. ordered.now <= now'
  BY <1>1, <1>2
<1>4. CASE Cell = D!Idle
  <2>1. Cell' = D!Idle /\ pos' = pos /\ rot' = rot
    BY <1>4 DEF CarriesOn, D!Displaced, D!Idle
  <2>2. Gone' = Gone
    BY <2>1 DEF Gone
  <2> QED
    BY <1>3, <1>4, <2>1, <2>2 DEF OnlyWinnersMotion
<1>5. CASE Cell # D!Idle
  <2>1. /\ ordered.cell.mode # "drive" => pos' = ordered.pos
        /\ ordered.cell.mode # "turn" => rot' = ordered.rot
        /\ Gone \in Int /\ Gone' = Gone + d /\ Gone = now - ordered.now /\ Gone >= 0
        /\ Cell = [ordered.cell EXCEPT !.left = IF ordered.cell.open THEN 0 ELSE @ - Gone]
        /\ Cell.open = ordered.cell.open
        /\ ~Cell.open => Cell.left = ordered.cell.left - Gone
        /\ ordered.cell \in D!Closed \cup D!Open
    BY <1>2, <1>5, MotionGoesOn
  <2>2. Gone' = now' - ordered.now /\ Gone' >= 0
    BY <1>1, <1>2, <2>1
  <2>3. CASE Cell.open
    <3>1. Cell' \in {Cell, D!Idle}
      BY <2>3 DEF CarriesOn
    <3>2. Cell' # D!Idle =>
            Cell' = [ordered.cell EXCEPT !.left = IF ordered.cell.open THEN 0 ELSE @ - Gone']
      BY <2>1, <2>3, <3>1
    <3> QED
      BY <1>3, <2>1, <2>2, <2>3, <3>2 DEF OnlyWinnersMotion
  <2>4. CASE ~Cell.open
    <3>1. Cell \in D!Closed /\ Cell.left \in Nat /\ ordered.cell \in D!Closed
      BY <1>5, <2>1, <2>4, CellType DEF CellTypeOK, D!Closed, D!Open
    <3>2. /\ d <= Cell.left
          /\ Cell' = IF d < Cell.left THEN [Cell EXCEPT !.left = Cell.left - d] ELSE D!Idle
      BY <3>1 DEF CarriesOn
    <3>3. ordered.cell.left \in Nat
      BY <3>1 DEF D!Closed
    <3>4. CASE d < Cell.left
      <4>1. Cell.left - d \in Nat /\ ordered.cell.left - Gone' = Cell.left - d
        BY <2>1, <2>4, <3>1, <3>3, <3>4
      <4>2. Cell' = [ordered.cell EXCEPT !.left = Cell.left - d]
        <5>1. Cell.mode = ordered.cell.mode /\ Cell.sign = ordered.cell.sign
          BY <2>1, <3>1 DEF D!Closed
        <5>2. Cell' = [Cell EXCEPT !.left = Cell.left - d]
          BY <3>2, <3>4
        <5>3. [Cell EXCEPT !.left = Cell.left - d]
                = [ordered.cell EXCEPT !.left = Cell.left - d]
          <6>1. [Cell EXCEPT !.left = Cell.left - d]
                  = [mode |-> Cell.mode, sign |-> Cell.sign, left |-> Cell.left - d,
                     open |-> FALSE]
            BY <3>1, <4>1, LeftUpdated
          <6>2. [ordered.cell EXCEPT !.left = Cell.left - d]
                  = [mode |-> ordered.cell.mode, sign |-> ordered.cell.sign,
                     left |-> Cell.left - d, open |-> FALSE]
            BY <3>1, <4>1, LeftUpdated
          <6> QED
            BY <5>1, <6>1, <6>2
        <5> QED
          BY <5>2, <5>3
      <4>3. Cell' = [ordered.cell EXCEPT !.left = IF ordered.cell.open THEN 0 ELSE @ - Gone']
        BY <2>1, <2>4, <4>1, <4>2
      <4>4. Cell' # D!Idle
        BY <3>1, <4>2 DEF D!Closed, D!Idle
      <4> QED
        BY <1>3, <2>1, <2>2, <4>3, <4>4 DEF OnlyWinnersMotion
    <3>5. CASE d = Cell.left
      <4>1. Cell' = D!Idle
        BY <3>1, <3>2, <3>5
      <4>2. Gone' = ordered.cell.left
        BY <2>1, <2>4, <3>1, <3>3, <3>5
      <4> QED
        BY <1>3, <2>1, <2>4, <4>1, <4>2 DEF OnlyWinnersMotion
    <3> QED
      BY <3>1, <3>2, <3>4, <3>5
  <2> QED
    BY <2>3, <2>4
<1> QED
  BY <1>4, <1>5

\* An armed motion runs off: it is over, and was never turned back.
LEMMA OrderRunOff ==
    ASSUME TypeOK, TypeOK', OrderType, OnlyWinnersMotion, ordered' = ordered, D!RunOff
    PROVE  OnlyWinnersMotion' /\ ordered.now <= now'
<1>1. Cell.open /\ Cell # D!Idle /\ Cell' = D!Idle
  BY DEF D!RunOff, D!Idle
<1>2. PICK d \in Nat : D!Displaced(Cell, d) /\ (now' = now \/ now' = now + d)
  BY BoundAssumption DEF D!RunOff
<1>3. /\ ordered.cell.mode # "drive" => pos' = ordered.pos
      /\ ordered.cell.mode # "turn" => rot' = ordered.rot
      /\ Gone \in Int /\ Gone' = Gone + d /\ Gone >= 0 /\ Cell.open = ordered.cell.open
  BY <1>1, <1>2, MotionGoesOn
<1>4. ordered.now <= now'
  BY <1>2 DEF OrderType, TypeOK
<1> QED
  BY <1>1, <1>3, <1>4 DEF OnlyWinnersMotion

\* What the winner orders is where its motion starts.
LEMMA OrderGiven ==
    ASSUME TypeOK', ordered' = AsOf(Cell', pos', rot', now')
    PROVE  OnlyWinnersMotion' /\ OrderType'
<1> DEFINE c == Cell'
           n == now'
<1>1. c \in {D!Idle} \cup D!Closed \cup D!Open
  BY CellTypeNext DEF CellTypeOK
<1>2. ordered'.cell = c /\ ordered'.pos = pos' /\ ordered'.rot = rot' /\ ordered'.now = n
  BY DEF AsOf
<1>3. pos' \in Int /\ rot' \in Int /\ n \in Nat
  BY DEF TypeOK
<1>4. OrderType'
  BY <1>1, <1>2, <1>3 DEF OrderType
<1>5. Gone' = c.sign * 0
  BY <1>2, <1>3 DEF Gone
<1>6. OnlyWinnersMotion' <=>
        IF c # D!Idle
        THEN /\ Gone' = n - n
             /\ c = [c EXCEPT !.left = IF c.open THEN 0 ELSE c.left - Gone']
        ELSE IF c.open THEN Gone' >= 0 ELSE Gone' = c.left
  BY <1>2 DEF OnlyWinnersMotion
<1> HIDE DEF c, n
<1>7. c.sign \in {-1, 0, 1} /\ c.left \in Nat /\ (c.open => c.left = 0)
  <2>1. CASE c = D!Idle
    BY <2>1 DEF D!Idle
  <2>2. CASE c \in D!Closed
    BY <2>2 DEF D!Closed
  <2>3. CASE c \in D!Open
    BY <2>3 DEF D!Open
  <2> QED
    BY <1>1, <2>1, <2>2, <2>3
<1>8. Gone' = 0 /\ n - n = 0 /\ c.left - Gone' = c.left
  BY <1>3, <1>5, <1>7
<1>9. c = [c EXCEPT !.left = c.left]
  BY <1>1 DEF D!Idle, D!Closed, D!Open
<1>10. c = [c EXCEPT !.left = IF c.open THEN 0 ELSE c.left - Gone']
  BY <1>7, <1>8, <1>9
<1>11. c = D!Idle => ~c.open /\ c.left = 0
  BY DEF D!Idle
<1> QED
  BY <1>4, <1>6, <1>8, <1>10, <1>11

OrderKept == OrderType /\ OnlyWinnersMotion

LEMMA OrderNext ==
    ASSUME TypeOK, TypeOK', Ownership, OneCell, OnlyWinnerActs, Losers # {}, OrderKept,
           [LockoutNext]_<<vars, ordered>>
    PROVE  OrderKept'
<1>1. ASSUME UNCHANGED D!vars, ordered' = ordered PROVE OrderKept'
  <2>1. UNCHANGED <<Cell, pos, rot, now>>
    BY <1>1 DEF D!vars
  <2>2. Gone' = Gone
    BY <1>1, <2>1 DEF Gone
  <2> QED
    BY <1>1, <2>1, <2>2 DEF OrderKept, OrderType, OnlyWinnersMotion
<1>2. ASSUME ordered' = AsOf(Cell', pos', rot', now') PROVE OrderKept'
  BY <1>2, OrderGiven DEF OrderKept
<1>3. ASSUME OnlyWinnersMotion' /\ ordered.now <= now', ordered' = ordered PROVE OrderKept'
  BY <1>3 DEF OrderKept, OrderType
<1>4. CASE UNCHANGED <<vars, ordered>>
  <2>1. UNCHANGED <<active, pending, pos, rot, now>> /\ ordered' = ordered
    BY <1>4 DEF vars, driveVars, worldVars
  <2> QED
    BY <2>1, <1>1, StutterStep
<1>5. CASE LockoutNext /\ running # 0
  <2>1. Step
    BY <1>5 DEF LockoutNext, Next, Resume, AdvanceClock, ClockBudgetStop, GateConds, Waiting,
                Quiescent, UnmetGate, GateDone, EndRun, FinishPendingMotion, Ownership,
                RunnerMayRun
  <2>2. Orders \/ UNCHANGED D!vars
    BY <2>1, WinnerBlocks
  <2> QED
    BY <1>1, <1>2, <1>5, <2>2 DEF LockoutNext
<1>6. CASE LockoutNext /\ running = 0
  <2>1. ordered' = ordered
    BY <1>6 DEF LockoutNext, Orders, Threads
  <2>2. ~Step
    BY <1>6 DEF Step, BudgetStop, Executes, DriveFor, TurnFor, TurnToRotation, Drive,
                Turn, StopDriving, SetHeading, Commands, Wait, LoopPass, WaitUntil, ResetTimer,
                Instant, SetVariable, Broadcast, ReceiverEnd, Break, EndStack, StopProject
  <2>3. CASE AdvanceClock
    <3>1. PICK d \in Nat : CarriesOn(d)
      BY <2>3, WinnerSlice
    <3> QED
      BY <1>3, <2>1, <3>1, OrderCarriedOut DEF OrderKept
  <2>4. CASE ~AdvanceClock
    <3>1. D!RunOff \/ UNCHANGED D!vars
      <4>1. ASSUME NEW t \in Threads, UnmetGate(t) PROVE D!RunOff \/ UNCHANGED D!vars
        <5>1. active' = active
          BY <4>1 DEF UnmetGate
        <5>2. CASE pending.mode = "drive"
          BY <4>1, <5>1, <5>2, RunoffStep DEF UnmetGate
        <5>3. CASE pending.mode # "drive"
          BY <4>1, <5>1, <5>3, StutterStep DEF UnmetGate, worldVars
        <5> QED
          BY <5>2, <5>3
      <4>2. ASSUME \/ \E t \in Threads : Resume(t)
                   \/ ClockBudgetStop \/ GateConds \/ GateDone \/ EndRun
            PROVE  UNCHANGED D!vars
        BY <4>2, StutterStep
           DEF Resume, ClockBudgetStop, GateConds, GateDone, EndRun, driveVars, worldVars
      <4> QED
        BY <1>6, <2>2, <2>4, <4>1, <4>2, FinishStep DEF LockoutNext, Next
    <3> QED
      BY <1>1, <1>3, <2>1, <3>1, OrderRunOff DEF OrderKept
  <2> QED
    BY <2>3, <2>4
<1> QED
  BY <1>4, <1>5, <1>6

LEMMA LockoutTypes == LockoutSpec => []TypeOK /\ []Ownership /\ []OneCell
<1>1. LockoutInit => Init
  BY DEF LockoutInit
<1>2. [LockoutNext]_<<vars, ordered>> => [Next]_vars
  BY DEF LockoutNext
<1>3. LockoutSpec => Spec
  BY <1>1, <1>2, PTL DEF LockoutSpec, Spec
<1> QED
  BY <1>3, TypeCorrect, OwnershipAlways, OneCellAlways, PTL

\* Under the lockout of OI-7 the robot is always where the winner's last command takes it,
\* whatever the losing stacks do: none of their blocks moves it otherwise, supersedes the
\* winner's motion or cuts a blocking one short.
THEOREM OnlyTheWinnerIsObeyed ==
    ASSUME Losers # {}
    PROVE  LockoutSpec => []OnlyWinnersMotion
<1>1. LockoutInit => OnlyWinnerActs
  BY LosersAreThreads DEF LockoutInit, Init, OnlyWinnerActs, NoMotion
<1>2. LockoutInit => OrderKept
  <2> SUFFICES ASSUME LockoutInit PROVE OrderKept
    OBVIOUS
  <2>1. ~Blocking /\ pending.mode = "idle" /\ pending.sign = 0 /\ Armed = FALSE
    BY DEF LockoutInit, Init, Blocking, Armed, NoMotion, NoPending
  <2>2. Cell = D!Idle
    BY <2>1 DEF Cell, D!Idle
  <2>3. /\ ordered.cell = D!Idle /\ ordered.pos = 0 /\ ordered.rot = 0 /\ ordered.now = 0
        /\ pos = 0 /\ rot = 0 /\ now = 0
    BY DEF LockoutInit, Init, AsOf
  <2>4. /\ ordered.cell.mode = "idle" /\ ordered.cell.sign = 0 /\ ordered.cell.left = 0
        /\ ~ordered.cell.open
    BY <2>3 DEF D!Idle
  <2>5. Gone = 0
    BY <2>3, <2>4 DEF Gone
  <2> QED
    BY <2>2, <2>3, <2>4, <2>5 DEF OrderKept, OrderType, OnlyWinnersMotion
<1>3. TypeOK /\ Ownership /\ OnlyWinnerActs /\ [LockoutNext]_<<vars, ordered>>
        => OnlyWinnerActs'
  BY WinnerActsNext DEF LockoutNext
<1>4. TypeOK /\ TypeOK' /\ Ownership /\ OneCell /\ OnlyWinnerActs /\ OrderKept
        /\ [LockoutNext]_<<vars, ordered>>
          => OrderKept'
  BY OrderNext
<1>5. OrderKept => OnlyWinnersMotion
  BY DEF OrderKept
<1> QED
  BY <1>1, <1>2, <1>3, <1>4, <1>5, LockoutTypes, PTL DEF LockoutSpec
=============================================================================
