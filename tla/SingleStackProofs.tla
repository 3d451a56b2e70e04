-------------------------- MODULE SingleStackProofs --------------------------
(***************************************************************************)
(* Gate G3 for every program: on one stack the cooperative scheduler gives *)
(* what the sequential driver gives.  The sequential driver is ahead: it   *)
(* carries a block out where the scheduler parks on it.  The inductive     *)
(* invariant says by how much, for each thing the stack can be parked on.  *)
(***************************************************************************)
EXTENDS SingleStack, SequencerProofs

USE NAssumption, PolicyAssumption, MenuAssumption, BoundAssumption, OneSequentialStack

\* Where the march solver finds condition c.
CrossingsAhead(c) == {d \in 1..MarchCap : Holds(c, Ahead(d))}

\* The sequential world is the scheduler's after d more of the motion (mode, sign).
AheadBy(mode, sign, d) ==
    /\ sPos = IF mode = "drive" THEN pos + sign * d ELSE pos
    /\ sRot = IF mode = "turn" THEN rot + sign * d ELSE rot
    /\ sTime = now + d /\ sTimer = timer + d

\* Parked on a condition that will be met, the sequential driver is where it is met first;
\* on one that will not, it has run off the field and ended.
AheadOfCond ==
    IF CrossingsAhead(cond[1]) # {}
    THEN /\ \E d \in CrossingsAhead(cond[1]) :
               /\ \A e \in CrossingsAhead(cond[1]) : d <= e
               /\ AheadBy(pending.mode, pending.sign, d)
         /\ sLive /\ frames[1] = sFrames
    ELSE /\ IF pending.mode = "drive" THEN AheadBy("drive", pending.sign, FieldCap)
                                      ELSE SameWorld
         /\ ~sLive /\ frames[1] = <<>> /\ pending.mode # "turn"

Lockstep ==
    /\ status[1] = "runnable" =>
          SameWorld /\ pending = sPending /\ frames[1] = sFrames /\ sLive
    /\ status[1] = "parked_motion" =>
          /\ Blocking /\ AheadBy(active.mode, active.sign, active.left)
          /\ sPending = NoPending /\ frames[1] = sFrames /\ sLive
    /\ status[1] = "parked_time" =>
          /\ AheadBy(pending.mode, pending.sign, wake[1])
          /\ pending = sPending /\ frames[1] = sFrames /\ sLive
    /\ status[1] = "parked_cond" =>
          /\ AheadOfCond /\ sPending = NoPending
          /\ cond[1] \in Conds /\ ~HoldsNow(cond[1])
    /\ status[1] \in {"gated", "done"} =>
          SameWorld /\ pending = sPending /\ (status[1] = "gated" <=> ~sLive)
    /\ phase \in {"ended", "finished"} => status[1] \in {"gated", "done"}
    /\ phase = "stopped" => status[1] = "runnable"
    /\ phase = "gate" => /\ running = 0 /\ status[1] \in {"parked_cond", "gated"}
                         /\ status[1] = "parked_cond" => CrossingsAhead(cond[1]) = {}

-----------------------------------------------------------------------------
(***************************************************************************)
(* One thread, no budget of time, no frame to charge.                      *)
(***************************************************************************)
LEMMA OneThread ==
    ASSUME TypeOK
    PROVE  /\ Threads = {1} /\ Overrun = 0 /\ ~OverTime
           /\ \A d : InBudget(d) = d
           /\ pos \in Int /\ rot \in Int /\ now \in Nat /\ timer \in Nat
           /\ pending.sign \in Int
           /\ active.thread \in {0, 1} /\ (active.thread = 0 => active = NoMotion)
           /\ pending.mode \in {"drive", "turn", "idle"} /\ (~Armed => pending = NoPending)
<1>1. Threads = {1} /\ Overrun = 0 /\ ~OverTime /\ \A d : InBudget(d) = d
  BY DEF Threads, Overrun, OverTime, InBudget
<1>2. active \in MotionType \cup {NoMotion}
  BY DEF TypeOK
<1>3. active.thread \in {0, 1} /\ (active.thread = 0 => active = NoMotion)
  BY <1>1, <1>2 DEF MotionType, NoMotion
<1>4. /\ pending.mode \in {"drive", "turn", "idle"} /\ (~Armed => pending = NoPending)
      /\ pending.sign \in Int
  BY DEF TypeOK, NoPending, Modes, Armed
<1> QED
  BY <1>1, <1>3, <1>4 DEF TypeOK

\* A stack that is not parked on a motion leaves the drivetrain free.
LEMMA DrivetrainFree ==
    ASSUME TypeOK, Ownership, status[1] # "parked_motion"
    PROVE  /\ ~Blocking /\ active = NoMotion /\ resumeQ = <<>>
           /\ MotionMode = pending.mode /\ MotionSign = pending.sign
<1>1. Threads = {1} /\ active.thread \in {0, 1} /\ (active.thread = 0 => active = NoMotion)
  BY OneThread
<1>2. active.thread # 1 /\ ~Queued(1)
  BY <1>1 DEF Ownership, OneMotionOneOwner
<1>3. ASSUME resumeQ # <<>> PROVE FALSE
  <2>1. resumeQ \in Seq(MotionType) /\ \A m \in MotionType : m.thread \in Threads
    BY DEF TypeOK, MotionType
  <2>2. Len(resumeQ) \in Nat /\ Len(resumeQ) >= 1 /\ DOMAIN resumeQ = 1..Len(resumeQ)
    BY <1>3, <2>1, EmptySeq, LenProperties
  <2>3. 1 \in DOMAIN resumeQ /\ resumeQ[1] \in MotionType
    BY <2>1, <2>2, ElementOfSeq
  <2> QED
    BY <1>1, <1>2, <2>1, <2>3 DEF Queued
<1> QED
  BY <1>1, <1>2, <1>3 DEF Blocking, MotionMode, MotionSign

\* While the stack executes, the two drivers are in the same state.
LEMMA BothRun ==
    ASSUME TypeOK, Ownership, Lockstep, running # 0
    PROVE  /\ running = 1 /\ phase = "sweep" /\ status[1] = "runnable"
           /\ SameWorld /\ pending = sPending /\ frames[1] = sFrames /\ sLive
<1>1. running = 1
  BY OneThread DEF TypeOK
<1>2. phase = "sweep"
  BY DEF Ownership, RunnerMayRun, Lockstep
<1>3. status[1] = "runnable"
  BY <1>1, <1>2 DEF Ownership, RunnerMayRun
<1> QED
  BY <1>1, <1>2, <1>3 DEF Lockstep

\* A condition reads the same on both sides, now and ahead.
LEMMA SameConditions ==
    ASSUME TypeOK, Ownership, Lockstep, running # 0, NEW c \in Conds,
           c.kind # "drive_moving"
    PROVE  /\ HoldsNow(c) <=> Holds(c, SeqReadings(sPos, sRot))
           /\ CrossingsAhead(c) = Crossings(c)
<1>1. SameWorld /\ pending = sPending /\ status[1] = "runnable"
  BY BothRun
<1>2. ~Blocking /\ MotionMode = pending.mode /\ MotionSign = pending.sign
  BY <1>1, DrivetrainFree
<1>3. c.kind \in CondKinds \ {"drive_moving"}
  BY DEF CondType
<1>4. HoldsNow(c) <=> Holds(c, SeqReadings(sPos, sRot))
  BY <1>1, <1>2, <1>3 DEF HoldsNow, Holds, World, Readings, SeqReadings, SameWorld, CondKinds, Bit
<1>5. MarchCap = SeqCap
  BY <1>1, <1>2, OneThread DEF MarchCap, SeqCap
<1>6. ASSUME NEW d PROVE Holds(c, Ahead(d)) <=> Holds(c, SeqAhead(d))
  BY <1>1, <1>2, <1>3
     DEF Holds, Ahead, SeqAhead, Readings, SeqReadings, SameWorld, CondKinds, Bit
<1> QED
  BY <1>4, <1>5, <1>6 DEF CrossingsAhead, Crossings

-----------------------------------------------------------------------------
(***************************************************************************)
(* The blocks.                                                             *)
(***************************************************************************)

\* A takeover with no frame to grant moves nothing, and a free drivetrain has nobody to
\* supersede.
LEMMA QuietTakeover ==
    ASSUME TypeOK, Ownership, Lockstep, running # 0, TakeoverPending
    PROVE  /\ pos' = pos /\ rot' = rot /\ now' = now /\ timer' = timer
           /\ Superseded = status
<1>1. Overrun = 0 /\ pos \in Int /\ rot \in Int /\ now \in Nat /\ timer \in Nat /\ pending.sign \in Int
  BY OneThread
<1>2. Superseded = status
  BY BothRun, DrivetrainFree DEF Superseded
<1> QED
  BY <1>1, <1>2 DEF TakeoverPending, Displaced, Elapsed

LEMMA TogetherBlocking ==
    ASSUME TypeOK, Ownership, Lockstep, running # 0, NEW mode \in Modes, NEW sign \in {-1, 1},
           NEW d \in Nat, BlockingMotion(mode, sign, d), SeqBlocking(mode, sign, d)
    PROVE  Lockstep'
<1>1. /\ running = 1 /\ phase = "sweep" /\ status[1] = "runnable"
      /\ SameWorld /\ pending = sPending /\ frames[1] = sFrames /\ sLive
  BY BothRun
<1>2. TakeoverPending
  BY DEF BlockingMotion
<1>3. /\ pos' = pos /\ rot' = rot /\ now' = now /\ timer' = timer
      /\ Superseded = status
  BY <1>2, QuietTakeover
<1>4. status \in [Threads -> Statuses] /\ 1 \in Threads
  BY OneThread DEF TypeOK
<1>5. status'[1] = "parked_motion"
  BY <1>1, <1>3, <1>4 DEF BlockingMotion, Yielded
<1>6. active' = [thread |-> 1, mode |-> mode, sign |-> sign, left |-> d] /\ Blocking'
  BY <1>1 DEF BlockingMotion, Blocking
<1>7. AheadBy(active.mode, active.sign, active.left)'
  BY <1>1, <1>3, <1>6 DEF AheadBy, SeqBlocking, SeqMoved, SeqDisplaced, SeqElapsed, SameWorld
<1>8. sPending' = NoPending /\ frames'[1] = sFrames' /\ sLive' /\ phase' = phase
  BY <1>1 DEF BlockingMotion, SeqBlocking, schedVars
<1> QED
  BY <1>1, <1>5, <1>6, <1>7, <1>8 DEF Lockstep

\* Blocks that neither move the robot nor park the stack.
LEMMA TogetherInstant ==
    ASSUME TypeOK, Ownership, Lockstep, running # 0,
           status'[1] = "runnable", phase' \in {"sweep", "stopped"},
           SameWorld', pending' = sPending', frames'[1] = sFrames', sLive'
    PROVE  Lockstep'
BY DEF Lockstep

LEMMA TogetherArm ==
    ASSUME TypeOK, Ownership, Lockstep, running # 0,
           \/ \E mode \in Modes, sign \in {-1, 1} :
                ContinuousMotion(mode, sign) /\ SeqArm([mode |-> mode, sign |-> sign])
           \/ (StopDriving \/ SetHeading) /\ SeqArm(NoPending)
    PROVE  Lockstep'
<1>1. /\ running = 1 /\ phase = "sweep" /\ status[1] = "runnable"
      /\ SameWorld /\ pending = sPending /\ frames[1] = sFrames /\ sLive
  BY BothRun
<1>2. TakeoverPending => /\ pos' = pos /\ rot' = rot /\ now' = now /\ timer' = timer
                         /\ Superseded = status
  BY QuietTakeover
<1>3. ASSUME NEW mode \in Modes, NEW sign \in {-1, 1}, ContinuousMotion(mode, sign),
             SeqArm([mode |-> mode, sign |-> sign])
      PROVE  /\ pos' = pos /\ rot' = rot /\ now' = now /\ timer' = timer
             /\ status' = status /\ phase' = phase /\ frames' = frames
             /\ pending' = sPending' /\ UNCHANGED <<sLive, seqWorld, sFrames>>
  <2>1. CASE Reissued(mode, sign)
    BY <1>3, <2>1 DEF ContinuousMotion, Reissued, SeqArm, threadVars, driveVars, schedVars,
                      worldVars
  <2>2. CASE ~Reissued(mode, sign)
    BY <1>2, <1>3, <2>2 DEF ContinuousMotion, SeqArm, schedVars
  <2> QED
    BY <2>1, <2>2
<1>4. ASSUME StopDriving \/ SetHeading, SeqArm(NoPending)
      PROVE  /\ pos' = pos /\ rot' = rot /\ now' = now /\ timer' = timer
             /\ status' = status /\ phase' = phase /\ frames' = frames
             /\ pending' = sPending' /\ UNCHANGED <<sLive, seqWorld, sFrames>>
  BY <1>2, <1>4 DEF StopDriving, SetHeading, SeqArm, schedVars, threadVars
<1>5. /\ pos' = pos /\ rot' = rot /\ now' = now /\ timer' = timer
      /\ status' = status /\ phase' = phase /\ frames' = frames
      /\ pending' = sPending' /\ UNCHANGED <<sLive, seqWorld, sFrames>>
  BY <1>3, <1>4
<1>6. SameWorld'
  BY <1>1, <1>5 DEF SameWorld, seqWorld
<1> QED
  BY <1>1, <1>5, <1>6, TogetherInstant

LEMMA TogetherWait ==
    ASSUME TypeOK, Ownership, Lockstep, running # 0, NEW w \in Nat \ {0}, ParkTime(w), SeqWait(w)
    PROVE  Lockstep'
<1>1. /\ running = 1 /\ phase = "sweep" /\ status[1] = "runnable"
      /\ SameWorld /\ pending = sPending /\ frames[1] = sFrames /\ sLive
  BY BothRun
<1>2. status \in [Threads -> Statuses] /\ wake \in [Threads -> Nat] /\ 1 \in Threads
  BY OneThread DEF TypeOK
<1>3. status'[1] = "parked_time" /\ wake'[1] = w /\ phase' = phase
  BY <1>1, <1>2 DEF ParkTime, Yielded, schedVars
<1>4. /\ pos' = pos /\ rot' = rot /\ now' = now /\ timer' = timer
      /\ pending' = pending /\ frames' = frames
      /\ UNCHANGED <<sLive, sPending, sFrames>>
  BY DEF ParkTime, SeqWait, worldVars, driveVars
<1>5. AheadBy(pending.mode, pending.sign, wake[1])'
  BY <1>1, <1>3, <1>4 DEF AheadBy, SeqWait, SeqMoved, SeqDisplaced, SeqElapsed, SameWorld
<1> QED
  BY <1>1, <1>3, <1>4, <1>5 DEF Lockstep

\* The wait_until parks on the scheduler's side; on the other it marches to the first
\* crossing, or off the field.
LEMMA TogetherWaitUntil ==
    ASSUME TypeOK, Ownership, Lockstep, running # 0, NEW c \in Conds, c.kind # "drive_moving",
           Comparable(c), WaitUntil(c), SeqWaitUntil(c)
    PROVE  Lockstep'
<1>1. /\ running = 1 /\ phase = "sweep" /\ status[1] = "runnable"
      /\ SameWorld /\ pending = sPending /\ frames[1] = sFrames /\ sLive
  BY BothRun
<1>2. /\ HoldsNow(c) <=> Holds(c, SeqReadings(sPos, sRot))
      /\ CrossingsAhead(c) = Crossings(c)
  BY SameConditions
<1>3. /\ status \in [Threads -> Statuses] /\ cond \in [Threads -> Conds \cup {NoCond}]
      /\ 1 \in Threads
  BY OneThread DEF TypeOK
<1>4. /\ pos' = pos /\ rot' = rot /\ now' = now /\ timer' = timer /\ var' = var
      /\ pending' = pending /\ active' = active /\ frames' = frames /\ phase' = phase
  BY DEF WaitUntil, worldVars, driveVars, schedVars
<1>5. CASE HoldsNow(c)
  <2>1. status' = status /\ UNCHANGED seqVars
    BY <1>2, <1>5 DEF WaitUntil, SeqWaitUntil, threadVars
  <2>2. SameWorld' /\ pending' = sPending' /\ frames'[1] = sFrames' /\ sLive'
    BY <1>1, <1>4, <2>1 DEF SameWorld, seqVars
  <2> QED
    BY <1>1, <1>4, <2>1, <2>2, TogetherInstant
<1>6. CASE ~HoldsNow(c)
  <2>1. status'[1] = "parked_cond" /\ cond'[1] = c
    BY <1>1, <1>3, <1>6 DEF WaitUntil, Yielded
  <2>2. ~HoldsNow(cond[1])'
    BY <1>4, <1>6, <2>1 DEF HoldsNow, Holds, World, Readings, Blocking, Armed, Bit
  <2>3. CrossingsAhead(cond[1])' = CrossingsAhead(c)
    <3>1. MarchCap' = MarchCap
      BY <1>4 DEF MarchCap, MotionMode, Blocking
    <3>2. \A d : Ahead(d)' = Ahead(d)
      BY <1>4 DEF Ahead, MotionMode, MotionSign, Blocking, Readings, Bit
    <3> QED
      BY <2>1, <3>1, <3>2 DEF CrossingsAhead, Holds
  <2>4. sPending' = NoPending
    BY <1>2, <1>6 DEF SeqWaitUntil
  <2>5. CASE Crossings(c) # {}
    <3>1. PICK d \in Crossings(c) : /\ \A e \in Crossings(c) : d <= e
                                    /\ SeqMoved(sPending.mode, sPending.sign, d)
      BY <1>2, <1>6, <2>5 DEF SeqWaitUntil
    <3>2. AheadBy(pending.mode, pending.sign, d)'
      BY <1>1, <1>4, <3>1 DEF AheadBy, SeqMoved, SeqDisplaced, SeqElapsed, SameWorld
    <3>3. UNCHANGED <<sLive, sFrames>>
      BY <1>2, <1>6, <2>5 DEF SeqWaitUntil
    <3>4. AheadOfCond'
      BY <1>1, <1>2, <1>4, <2>3, <2>5, <3>1, <3>2, <3>3 DEF AheadOfCond
    <3> QED
      BY <1>1, <1>4, <2>1, <2>2, <2>4, <3>4 DEF Lockstep
  <2>6. CASE Crossings(c) = {}
    <3>1. sFrames = <<>> /\ sPending.mode # "turn"
      BY <1>6, <2>6 DEF Comparable
    <3>2. ~sLive' /\ frames'[1] = <<>>
      BY <1>1, <1>2, <1>4, <1>6, <2>6, <3>1 DEF SeqWaitUntil, SeqGate
    <3>3. IF pending.mode = "drive" THEN AheadBy("drive", pending.sign, FieldCap)'
                                    ELSE SameWorld'
      BY <1>1, <1>2, <1>4, <1>6, <2>6
         DEF SeqWaitUntil, AheadBy, SeqMoved, SeqDisplaced, SeqElapsed, SameWorld, seqWorld
    <3>4. AheadOfCond'
      BY <1>1, <1>2, <1>4, <2>3, <2>6, <3>1, <3>2, <3>3 DEF AheadOfCond
    <3> QED
      BY <1>1, <1>4, <2>1, <2>2, <2>4, <3>4 DEF Lockstep
  <2> QED
    BY <2>5, <2>6
<1> QED
  BY <1>5, <1>6

LEMMA TogetherFinish ==
    ASSUME TypeOK, Ownership, Lockstep, FinishPendingMotion, SeqFinish
    PROVE  Lockstep'
<1>1. status[1] \in {"gated", "done"} /\ phase = "ended" /\ phase' = "finished"
  BY DEF FinishPendingMotion, Lockstep
<1>2. SameWorld /\ pending = sPending /\ (status[1] = "gated" <=> ~sLive)
  BY <1>1 DEF Lockstep
<1>3. /\ status' = status /\ running' = running /\ cond' = cond /\ frames' = frames
      /\ sLive' = sLive /\ pending' = NoPending /\ sPending' = NoPending
  BY DEF FinishPendingMotion, SeqFinish, threadVars
<1>4. SameWorld'
  <2>1. InBudget(FieldCap) = FieldCap
    BY OneThread
  <2>2. CASE pending.mode = "drive"
    BY <1>2, <2>1, <2>2 DEF FinishPendingMotion, SeqFinish, Runoff, Displaced, Elapsed, SeqMoved,
                            SeqDisplaced, SeqElapsed, SameWorld
  <2>3. CASE pending.mode # "drive"
    BY <1>2, <2>3 DEF FinishPendingMotion, SeqFinish, Displaced, SeqDisplaced, SameWorld
  <2> QED
    BY <2>2, <2>3
<1> QED
  BY <1>1, <1>2, <1>3, <1>4 DEF Lockstep

LEMMA TogetherMove ==
    ASSUME TypeOK, Ownership, Lockstep, BothMove, \A c \in Conds : c.kind # "drive_moving"
    PROVE  Lockstep'
<1>1. ASSUME NEW op, Commands(op) \/ Executes(op) PROVE running # 0
  BY <1>1 DEF Commands, Executes
<1>2. ASSUME NEW s \in Signs, NEW d \in Lengths,
             \/ DriveFor(s, d) /\ SeqBlocking("drive", s, d)
             \/ TurnFor(s, d) /\ SeqBlocking("turn", s, d)
      PROVE  Lockstep'
  BY <1>1, <1>2, TogetherBlocking DEF DriveFor, TurnFor, Modes
<1>3. ASSUME NEW s \in Signs, \/ Drive(s) /\ SeqArm([mode |-> "drive", sign |-> s])
                              \/ Turn(s) /\ SeqArm([mode |-> "turn", sign |-> s])
      PROVE  Lockstep'
  BY <1>1, <1>3, TogetherArm DEF Drive, Turn, Modes
<1>4. ASSUME NEW r \in Targets, TurnToRotation(r),
             IF r > sRot THEN SeqBlocking("turn", 1, r - sRot)
                         ELSE SeqBlocking("turn", -1, sRot - r)
      PROVE  Lockstep'
  <2>1. running # 0
    BY <1>1, <1>4 DEF TurnToRotation
  <2>2. TakeoverPending
    BY <1>4 DEF TurnToRotation, BlockingMotion
  <2>3. rot' = rot /\ rot = sRot /\ rot \in Int /\ r \in Int
    BY <2>1, <2>2, QuietTakeover, BothRun, OneThread DEF SameWorld
  <2>4. CASE r > rot
    <3>1. BlockingMotion("turn", 1, r - rot) /\ SeqBlocking("turn", 1, r - rot) /\ r - rot \in Nat
      BY <1>4, <2>3, <2>4 DEF TurnToRotation
    <3> QED
      BY <2>1, <3>1, TogetherBlocking DEF Modes
  <2>5. CASE ~(r > rot)
    <3>1. /\ BlockingMotion("turn", -1, rot - r) /\ SeqBlocking("turn", -1, rot - r)
          /\ rot - r \in Nat
      <4>1. ~(r - rot > 0) /\ -(r - rot) = rot - r
        BY <2>3, <2>5
      <4> QED
        BY <1>4, <2>3, <2>5, <4>1 DEF TurnToRotation
    <3> QED
      BY <2>1, <3>1, TogetherBlocking DEF Modes
  <2> QED
    BY <2>4, <2>5
<1>5. ASSUME (StopDriving \/ SetHeading) /\ SeqArm(NoPending) PROVE Lockstep'
  BY <1>1, <1>5, TogetherArm DEF StopDriving, SetHeading
<1>6. ASSUME NEW w \in Waits, Wait(w), SeqWait(w) PROVE Lockstep'
  BY <1>1, <1>6, TogetherWait DEF Wait
<1>7. ASSUME NEW c \in Conds, Comparable(c), WaitUntil(c), SeqWaitUntil(c) PROVE Lockstep'
  BY <1>1, <1>7, TogetherWaitUntil DEF WaitUntil
<1>8. ASSUME ResetTimer, sTimer' = 0, UNCHANGED <<sLive, sPos, sRot, sTime, sPending, sFrames>>
      PROVE  Lockstep'
  <2>1. running # 0
    BY <1>1, <1>8 DEF ResetTimer
  <2>2. /\ status[1] = "runnable" /\ phase = "sweep"
        /\ SameWorld /\ pending = sPending /\ frames[1] = sFrames /\ sLive
    BY <2>1, BothRun
  <2>3. status' = status /\ phase' = phase /\ pending' = pending /\ frames' = frames
    BY <1>8 DEF ResetTimer, threadVars, schedVars, driveVars
  <2>4. SameWorld'
    BY <1>8, <2>2 DEF ResetTimer, SameWorld
  <2> QED
    BY <1>8, <2>1, <2>2, <2>3, <2>4, TogetherInstant
<1> QED
  BY <1>2, <1>3, <1>4, <1>5, <1>6, <1>7, <1>8, TogetherFinish DEF BothMove

LEMMA TogetherSignal ==
    ASSUME TypeOK, Ownership, Lockstep, BothSignal
    PROVE  Lockstep'
<1>1. running # 0
  BY DEF BothSignal, Broadcast, ReceiverEnd, Break, Executes
<1>2. /\ running = 1 /\ status[1] = "runnable" /\ phase = "sweep"
      /\ SameWorld /\ pending = sPending /\ frames[1] = sFrames /\ sLive
  BY <1>1, BothRun
<1>3. status \in [Threads -> Statuses] /\ 1 \in Threads
  BY OneThread DEF TypeOK
<1>4. status'[1] \in {"runnable", "gated"} /\ phase' = phase
  BY <1>2, <1>3 DEF BothSignal, Broadcast, ReceiverEnd, Break, threadVars, schedVars
<1>5. SameWorld' /\ pending' = sPending' /\ frames'[1] = sFrames'
      /\ (sLive' <=> status'[1] # "gated")
  <2>1. UNCHANGED worldVars /\ UNCHANGED driveVars
    BY DEF BothSignal, Broadcast, ReceiverEnd, Break
  <2> QED
    BY <1>2, <2>1 DEF BothSignal, SameWorld, worldVars, driveVars, seqWorld
<1> QED
  BY <1>2, <1>4, <1>5 DEF Lockstep

-----------------------------------------------------------------------------
(***************************************************************************)
(* The scheduler's own steps: the interval that takes it to where the      *)
(* sequential driver already is, and the gate.                             *)
(***************************************************************************)

\* With one stack, the next event is what the stack is parked on.
LEMMA OneEvent ==
    ASSUME TypeOK, Ownership, Lockstep, running = 0
    PROVE  /\ status[1] = "parked_motion" => Events = {active.left}
           /\ status[1] = "parked_time" => Events = {wake[1]}
           /\ status[1] = "parked_cond" => Events = CrossingsAhead(cond[1])
<1>1. Threads = {1}
  BY OneThread
<1>2. /\ Wakes = IF status[1] = "parked_time" THEN {wake[1]} ELSE {}
      /\ CondParked = IF status[1] = "parked_cond" THEN {1} ELSE {}
  BY <1>1 DEF Wakes, CondParked
<1>3. status[1] # "parked_motion" => ~Blocking
  BY DrivetrainFree
<1>4. status[1] = "parked_motion" => Blocking
  BY DEF Lockstep
<1>5. status[1] # "parked_cond" => CondEvents = {}
  BY <1>2 DEF CondEvents
<1>6. ASSUME status[1] = "parked_cond" PROVE CondEvents = CrossingsAhead(cond[1])
  <2>1. ~HoldsNow(cond[1])
    BY <1>6 DEF Lockstep
  <2>2. \A d : Bounded(d)
    BY <1>2, <1>3, <1>6 DEF Bounded, Completion
  <2>3. {d \in 1..MarchCap : Bounded(d) /\ Holds(cond[1], Ahead(d))} = CrossingsAhead(cond[1])
    BY <2>2 DEF CrossingsAhead
  <2>4. CondParked = {1}
    BY <1>2, <1>6
  <2>5. CondEvents =
          UNION {IF HoldsNow(cond[t]) THEN {0}
                 ELSE {d \in 1..MarchCap : Bounded(d) /\ Holds(cond[t], Ahead(d))} : t \in {1}}
    BY <2>4 DEF CondEvents
  <2> QED
    BY <2>1, <2>3, <2>5
<1> QED
  BY <1>2, <1>3, <1>4, <1>5, <1>6 DEF Events, Completion

LEMMA SchedulerAdvances ==
    ASSUME TypeOK, Ownership, Lockstep, AdvanceClock, UNCHANGED seqVars,
           \A c \in Conds : c.kind # "drive_moving"
    PROVE  Lockstep'
<1>1. /\ running = 0 /\ phase = "sweep" /\ phase' = phase /\ frames' = frames
      /\ Runnable = {} /\ Parked # {}
  BY DEF AdvanceClock, Waiting, Quiescent
<1>2. Threads = {1} /\ \A d : InBudget(d) = d
  BY OneThread
<1>3. PICK d \in Events : (\A e \in Events : d <= e) /\ Slice(d)
  BY <1>2 DEF AdvanceClock
<1>4. status[1] \in {"parked_motion", "parked_time", "parked_cond"}
  BY <1>1, <1>2 DEF Parked
<1>5. /\ Displaced(MotionMode, MotionSign, d) /\ Elapsed(d)
      /\ status'[1] = IF \/ Completes(d) /\ 1 = active.thread
                         \/ Rested(1, d)
                         \/ 1 \in Woken
                      THEN "runnable" ELSE status[1]
      /\ pending' = IF Woken # {} /\ active'.thread = 0 THEN NoPending ELSE pending
  BY <1>2, <1>3 DEF Slice
<1>6. CASE status[1] = "parked_motion"
  <2>1. /\ AheadBy(active.mode, active.sign, active.left) /\ Blocking
        /\ sPending = NoPending /\ frames[1] = sFrames /\ sLive
    BY <1>6 DEF Lockstep
  <2>2. d = active.left /\ active.thread = 1 /\ active.left \in Nat
    <3>1. active \in MotionType
      BY <2>1 DEF Blocking, TypeOK, NoMotion
    <3>2. active.thread = 1 /\ active.left \in Nat
      BY <1>2, <3>1 DEF MotionType
    <3> QED
      BY <1>1, <1>3, <1>6, <3>2, OneEvent
  <2>3. status'[1] = "runnable"
    BY <1>5, <2>1, <2>2 DEF Completes
  <2>4. SameWorld'
    BY <1>5, <2>1, <2>2 DEF SameWorld, AheadBy, Displaced, Elapsed, MotionMode, MotionSign, seqVars
  <2>5. pending' = NoPending
    BY <1>5, <2>1, OneThread DEF Ownership, OneMotionOneOwner
  <2> QED
    BY <1>1, <2>1, <2>3, <2>4, <2>5 DEF Lockstep, seqVars
<1>7. CASE status[1] = "parked_time"
  <2>1. /\ AheadBy(pending.mode, pending.sign, wake[1])
        /\ pending = sPending /\ frames[1] = sFrames /\ sLive
    BY <1>7 DEF Lockstep
  <2>2. d = wake[1] /\ wake[1] \in Nat
    BY <1>1, <1>2, <1>3, <1>7, OneEvent DEF TypeOK
  <2>3. status'[1] = "runnable"
    BY <1>5, <1>7, <2>2 DEF Rested
  <2>4. MotionMode = pending.mode /\ MotionSign = pending.sign
    BY <1>7, DrivetrainFree
  <2>5. SameWorld'
    BY <1>5, <2>1, <2>2, <2>4 DEF SameWorld, AheadBy, Displaced, Elapsed, seqVars
  <2>6. pending' = pending
    <3>1. Woken = {}
      BY <1>2, <1>7 DEF Woken, Satisfied, CondParked
    <3> QED
      BY <1>5, <3>1
  <2> QED
    BY <1>1, <2>1, <2>3, <2>5, <2>6 DEF Lockstep, seqVars
<1>8. CASE status[1] = "parked_cond"
  <2> DEFINE c == cond[1]
  <2>1. AheadOfCond /\ sPending = NoPending /\ c \in Conds /\ ~HoldsNow(c)
    BY <1>8 DEF Lockstep
  <2>2. d \in CrossingsAhead(c) /\ \A e \in CrossingsAhead(c) : d <= e
    BY <1>1, <1>3, <1>8, OneEvent
  <2>3. AheadBy(pending.mode, pending.sign, d) /\ sLive /\ frames[1] = sFrames
    <3>1. PICK e \in CrossingsAhead(c) : /\ \A f \in CrossingsAhead(c) : e <= f
                                         /\ AheadBy(pending.mode, pending.sign, e)
      BY <2>1, <2>2 DEF AheadOfCond
    <3>2. d \in Int /\ e \in Int /\ d <= e /\ e <= d
      BY <2>2, <3>1 DEF CrossingsAhead
    <3>3. d = e
      BY <3>2
    <3> QED
      BY <2>1, <2>2, <3>1, <3>3 DEF AheadOfCond
  <2>4. /\ ~Blocking /\ active = NoMotion
        /\ MotionMode = pending.mode /\ MotionSign = pending.sign
    BY <1>8, DrivetrainFree
  <2>5. SameWorld'
    BY <1>5, <2>3, <2>4 DEF SameWorld, AheadBy, Displaced, Elapsed, seqVars
  <2>6. active' = NoMotion /\ active'.thread = 0
    <3>1. ~Completes(d) /\ ~Resumes(d)
      BY <2>4 DEF Completes, Resumes
    <3> QED
      BY <1>3, <2>4, <3>1 DEF Slice, NoMotion
  <2>7. Holds(c, Readings(pos', rot', rot', timer', active'.thread # 0,
                          active'.thread # 0 \/ Armed))
    <3>1. Holds(c, Ahead(d))
      BY <2>2 DEF CrossingsAhead
    <3>2. c.kind \in CondKinds \ {"drive_moving"}
      BY <2>1 DEF CondType
    <3>3. CASE MotionMode = "drive"
      <4>1. pos' = pos + MotionSign * d /\ rot' = rot
        BY <1>5, <3>3 DEF Displaced
      <4>2. c.kind = "position"
        BY <2>1, <2>4, <3>1, <3>2, <3>3
           DEF HoldsNow, Holds, World, Ahead, Readings, CondKinds, Bit
      <4> QED
        BY <3>1, <3>3, <4>1, <4>2 DEF Holds, Ahead, Readings
    <3>4. CASE MotionMode # "drive"
      <4>1. MotionMode = "turn"
        <5>1. MarchCap # 0
          BY <2>2 DEF CrossingsAhead
        <5> QED
          BY <3>4, <5>1 DEF MarchCap
      <4>2. rot' = rot + MotionSign * d
        BY <1>5, <4>1 DEF Displaced
      <4>3. c.kind = "heading"
        BY <2>1, <2>4, <3>1, <3>2, <3>4
           DEF HoldsNow, Holds, World, Ahead, Readings, CondKinds, Bit
      <4> QED
        BY <3>1, <3>4, <4>2, <4>3 DEF Holds, Ahead, Readings
    <3> QED
      BY <3>3, <3>4
  <2>8. Woken = {1}
    <3>1. CondParked = {1}
      BY <1>2, <1>8 DEF CondParked
    <3>2. Satisfied = {1}
      BY <2>7, <3>1 DEF Satisfied
    <3> QED
      BY <2>1, <3>2 DEF Woken
  <2>9. status'[1] = "runnable" /\ pending' = NoPending
    BY <1>5, <2>6, <2>8
  <2> QED
    BY <1>1, <2>1, <2>3, <2>5, <2>9 DEF Lockstep, seqVars
<1> QED
  BY <1>4, <1>6, <1>7, <1>8

LEMMA SchedulerGates ==
    ASSUME TypeOK, Ownership, Lockstep, UnmetGate(1), UNCHANGED seqVars
    PROVE  Lockstep'
<1>1. phase = "gate" /\ phase' = phase /\ running = 0 /\ 1 \in gating
  BY DEF UnmetGate
<1>2. status[1] = "parked_cond" /\ CrossingsAhead(cond[1]) = {}
  BY <1>1 DEF Lockstep, Ownership, RunnerMayRun
<1>3. AheadOfCond /\ sPending = NoPending
  BY <1>2 DEF Lockstep
<1>4. /\ IF pending.mode = "drive" THEN AheadBy("drive", pending.sign, FieldCap) ELSE SameWorld
      /\ ~sLive /\ frames[1] = <<>> /\ pending.mode # "turn"
  BY <1>2, <1>3 DEF AheadOfCond
<1>5. status \in [Threads -> Statuses] /\ 1 \in Threads
  BY OneThread DEF TypeOK
<1>6. status'[1] = "gated" /\ running' = 0
  BY <1>1, <1>4, <1>5 DEF UnmetGate
<1>7. SameWorld' /\ pending' = NoPending
  <2>1. CASE pending.mode = "drive"
    <3>1. pending' = NoPending /\ Displaced("drive", pending.sign, FieldCap) /\ Elapsed(FieldCap)
      BY <2>1, OneThread DEF UnmetGate, Runoff
    <3> QED
      BY <1>4, <2>1, <3>1 DEF AheadBy, SameWorld, Displaced, Elapsed, seqVars
  <2>2. CASE pending.mode # "drive"
    <3>1. pending' = pending /\ UNCHANGED worldVars
      BY <2>2 DEF UnmetGate
    <3>2. pending = NoPending
      BY <1>4, <2>2, OneThread DEF Armed
    <3> QED
      BY <1>4, <2>2, <3>1, <3>2 DEF SameWorld, worldVars, seqVars
  <2> QED
    BY <2>1, <2>2
<1> QED
  BY <1>1, <1>3, <1>4, <1>6, <1>7 DEF Lockstep, seqVars

\* When nothing that the invariant reads changes, it holds on.
LEMMA LockstepKept ==
    ASSUME Lockstep, UNCHANGED <<threadVars, frames, driveVars, worldVars, var, seqVars>>,
           phase' = phase \/ phase' = "sweep", running' = 0 \/ phase' # "gate"
    PROVE  Lockstep'
<1>1. /\ status' = status /\ wake' = wake /\ cond' = cond /\ frames' = frames
      /\ active' = active /\ pending' = pending
      /\ pos' = pos /\ rot' = rot /\ now' = now /\ timer' = timer /\ var' = var
      /\ UNCHANGED seqVars
  BY DEF threadVars, driveVars, worldVars
<1>2. /\ sPos' = sPos /\ sRot' = sRot /\ sTime' = sTime /\ sTimer' = sTimer
      /\ sLive' = sLive /\ sPending' = sPending /\ sFrames' = sFrames
  BY <1>1 DEF seqVars
<1>3. /\ CrossingsAhead(cond[1])' = CrossingsAhead(cond[1])
      /\ HoldsNow(cond[1])' = HoldsNow(cond[1])
  BY <1>1 DEF CrossingsAhead, HoldsNow, Holds, World, Ahead, MarchCap, MotionMode, MotionSign,
              Blocking, Armed, Readings, Bit
<1>4. Blocking' = Blocking /\ SameWorld' = SameWorld /\ AheadOfCond' = AheadOfCond
  BY <1>1, <1>2, <1>3 DEF Blocking, SameWorld, AheadOfCond, AheadBy
<1> QED
  BY <1>1, <1>2, <1>3, <1>4 DEF Lockstep, AheadBy

LEMMA SchedulerAlone ==
    ASSUME TypeOK, Ownership, Lockstep, OnlyScheduler, \A c \in Conds : c.kind # "drive_moving"
    PROVE  Lockstep'
<1>1. UNCHANGED seqVars
  BY DEF OnlyScheduler
<1>2. status \in [Threads -> Statuses] /\ wake \in [Threads -> Nat] /\ 1 \in Threads /\ Threads = {1}
  BY OneThread DEF TypeOK
<1>3. CASE Resume(1) \/ GateDone
  <2>1. /\ UNCHANGED <<threadVars, frames, driveVars, worldVars, var>>
        /\ phase' = "sweep"
    BY <1>3 DEF Resume, GateDone
  <2> QED
    BY <1>1, <2>1, LockstepKept
<1>4. CASE GateConds
  <2>1. /\ running = 0 /\ Events = {} /\ CondParked # {} /\ phase' = "gate" /\ phase = "sweep"
        /\ UNCHANGED <<threadVars, frames, driveVars, running, worldVars, var>>
    BY <1>4 DEF GateConds, Waiting, Quiescent
  <2>2. status[1] = "parked_cond"
    BY <1>2, <2>1 DEF CondParked
  <2>3. CrossingsAhead(cond[1]) = {}
    BY <2>1, <2>2, OneEvent
  <2>4. /\ CrossingsAhead(cond[1])' = CrossingsAhead(cond[1])
        /\ HoldsNow(cond[1])' = HoldsNow(cond[1])
    BY <2>1 DEF CrossingsAhead, HoldsNow, Holds, World, Ahead, MarchCap, MotionMode, MotionSign,
              Blocking, Armed, Readings, Bit, threadVars, driveVars, worldVars
  <2>5. AheadOfCond' = AheadOfCond
    BY <1>1, <2>1, <2>4
       DEF AheadOfCond, AheadBy, SameWorld, threadVars, driveVars, worldVars, seqVars
  <2>6. status'[1] = "parked_cond" /\ cond'[1] = cond[1] /\ running' = 0
    BY <2>1, <2>2 DEF threadVars
  <2>7. /\ AheadOfCond /\ sPending = NoPending /\ cond[1] \in Conds /\ ~HoldsNow(cond[1])
    BY <2>2 DEF Lockstep
  <2> QED
    BY <1>1, <2>1, <2>3, <2>4, <2>5, <2>6, <2>7 DEF Lockstep, seqVars
<1>5. CASE EndRun
  <2>1. /\ running = 0 /\ Runnable = {} /\ phase' = "ended"
        /\ Parked = {} \/ (Events = {} /\ CondParked = {})
        /\ UNCHANGED <<threadVars, frames, driveVars, worldVars, var>>
    BY <1>5 DEF EndRun, Quiescent
  <2>2. status[1] \in {"gated", "done"}
    <3>1. status[1] # "runnable"
      BY <1>2, <2>1 DEF Runnable
    <3>2. CASE Parked = {}
      BY <1>2, <3>1, <3>2 DEF Parked, Statuses
    <3>3. CASE Events = {} /\ CondParked = {}
      BY <1>2, <2>1, <3>1, <3>3, OneEvent DEF Statuses, CondParked
    <3> QED
      BY <2>1, <3>2, <3>3
  <2>3. SameWorld /\ pending = sPending /\ (status[1] = "gated" <=> ~sLive)
    BY <2>2 DEF Lockstep
  <2> QED
    BY <1>1, <2>1, <2>2, <2>3 DEF Lockstep, SameWorld, threadVars, driveVars, worldVars, seqVars
<1>6. ASSUME \/ BudgetStop \/ StopProject \/ EndStack \/ LoopPass(0) \/ Instant
             \/ \E v \in Values : SetVariable(v)
      PROVE  Lockstep'
  <2>1. running # 0
    BY <1>6 DEF BudgetStop, StopProject, EndStack, LoopPass, Instant, SetVariable, Executes
  <2>2. /\ running = 1 /\ status[1] = "runnable" /\ phase = "sweep"
        /\ SameWorld /\ pending = sPending /\ frames[1] = sFrames /\ sLive
    BY <2>1, BothRun
  <2>3. UNCHANGED <<frames, driveVars, worldVars>>
    BY <1>6 DEF BudgetStop, StopProject, EndStack, LoopPass, ParkTime, Instant, SetVariable
  <2>4. SameWorld' /\ pending' = sPending' /\ frames'[1] = sFrames' /\ sLive'
    BY <1>1, <2>2, <2>3 DEF SameWorld, driveVars, worldVars, seqVars
  <2>5. /\ status'[1] \in {"runnable", "done"}
        /\ phase' = "sweep" \/ (phase' = "stopped" /\ status'[1] = "runnable")
    <3>1. CASE LoopPass(0)
      BY <1>2, <2>2, <3>1 DEF LoopPass, ParkTime, Yielded, schedVars
    <3>2. CASE EndStack
      BY <1>2, <2>2, <3>2 DEF EndStack, schedVars
    <3>3. CASE \/ BudgetStop \/ StopProject \/ Instant
               \/ \E v \in Values : SetVariable(v)
      BY <2>2, <3>3 DEF BudgetStop, StopProject, Instant, SetVariable, threadVars, schedVars
    <3> QED
      BY <1>6, <3>1, <3>2, <3>3
  <2> QED
    BY <2>4, <2>5 DEF Lockstep
<1> QED
  BY <1>1, <1>3, <1>4, <1>5, <1>6, SchedulerAdvances, SchedulerGates DEF OnlyScheduler

-----------------------------------------------------------------------------
\* A step the two drivers take together is a step of the scheduler.
LEMMA LockstepIsRun == LockstepSpec => Spec
<1>1. BothMove \/ BothSignal \/ OnlyScheduler => Next
  <2>1. 1 \in Threads /\ 0 \in 0..LoopTick
    BY DEF Threads
  <2>2. BothMove => Next
    BY DEF BothMove, Next, Step
  <2>3. BothSignal => Next
    BY DEF BothSignal, Next, Step
  <2>4. OnlyScheduler => Next
    BY <2>1 DEF OnlyScheduler, Next, Step
  <2> QED
    BY <2>2, <2>3, <2>4
<1>2. [BothMove \/ BothSignal \/ OnlyScheduler]_<<vars, seqVars>> => [Next]_vars
  BY <1>1
<1> QED
  BY <1>2, PTL DEF LockstepSpec, Spec

\* Gate G3 for every single-stack program whose wait_until conditions do not ask whether
\* the drive is moving, which only the cooperative scheduler can answer.
THEOREM SingleStackIsSequential ==
    ASSUME \A c \in Conds : c.kind # "drive_moving"
    PROVE  LockstepSpec => []SingleStackIdentity
<1>1. LockstepSpec => []TypeOK /\ []Ownership
  BY LockstepIsRun, TypeCorrect, OwnershipAlways, PTL
<1>2. Init /\ SeqInit => Lockstep
  BY DEF Init, SeqInit, Lockstep, SameWorld, Threads
<1>3. TypeOK /\ Ownership /\ Lockstep
        /\ [BothMove \/ BothSignal \/ OnlyScheduler]_<<vars, seqVars>> => Lockstep'
  <2>1. ASSUME Lockstep, UNCHANGED <<vars, seqVars>>, TypeOK, Ownership PROVE Lockstep'
    <3>1. /\ UNCHANGED <<threadVars, frames, driveVars, worldVars, var, seqVars>>
          /\ phase' = phase /\ running' = running
      BY <2>1 DEF vars, schedVars
    <3>2. running' = 0 \/ phase' # "gate"
      BY <2>1, <3>1 DEF Lockstep
    <3> QED
      BY <2>1, <3>1, <3>2, LockstepKept
  <2> QED
    BY <2>1, TogetherMove, TogetherSignal, SchedulerAlone
<1>4. TypeOK /\ Ownership /\ Lockstep => SingleStackIdentity
  BY BothRun DEF Lockstep, SingleStackIdentity
<1> QED
  BY <1>1, <1>2, <1>3, <1>4, PTL DEF LockstepSpec
=============================================================================
