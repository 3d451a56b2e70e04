--------------------------- MODULE SensorHatsProofs ---------------------------
(***************************************************************************)
(* What the sensor hats owe each other and the world, for every card,      *)
(* program, driver and length of move.                                     *)
(***************************************************************************)
EXTENDS SensorHats, WorldProofs

-----------------------------------------------------------------------------
(***************************************************************************)
(* Looking.                                                                *)
(***************************************************************************)
Kinds == {"timer", "bumper", "eye", "ring", "loses"}
Loses(h) == card.hats[h] = "loses"

LEMMA DetectsIs ==
    ASSUME NEW h, card.hats[h] \in Kinds, NEW w, NEW tm, NEW acq \in BOOLEAN
    PROVE  /\ Detects(h, w, tm, acq) \in BOOLEAN /\ Holds(h, w, tm) \in BOOLEAN
           /\ Detects(h, w, tm, acq) <=> Holds(h, w, tm) /\ (Loses(h) => acq)
           /\ Acquires(h, w) => Loses(h) /\ ~Holds(h, w, tm)
           /\ Loses(h) /\ ~Holds(h, w, tm) => Acquires(h, w)
           /\ Acquires(h, w) \in BOOLEAN
<1>1. EyeSees(w) \in BOOLEAN /\ BumperPressed(w) \in BOOLEAN /\ RingSeen(w) \in BOOLEAN
      /\ (tm >= Threshold) \in BOOLEAN
  BY DEF EyeSees, BumperPressed, RingSeen
<1>2. CASE card.hats[h] = "timer"
  BY <1>1, <1>2 DEF Detects, Holds, Acquires, Loses
<1>3. CASE card.hats[h] = "bumper"
  BY <1>1, <1>3 DEF Detects, Holds, Acquires, Loses
<1>4. CASE card.hats[h] = "eye"
  BY <1>1, <1>4 DEF Detects, Holds, Acquires, Loses
<1>5. CASE card.hats[h] = "ring"
  BY <1>1, <1>5 DEF Detects, Holds, Acquires, Loses
<1>6. CASE card.hats[h] = "loses"
  BY <1>1, <1>6 DEF Detects, Holds, Acquires, Loses
<1>. QED  BY <1>2, <1>3, <1>4, <1>5, <1>6 DEF Kinds

\* Whether a condition holds is a matter of what the sensors look at, and, of a timer hat, of
\* the time alone.
LEMMA HoldsIs ==
    ASSUME NEW h, card.hats[h] \in Kinds, NEW u, NEW w, NEW tm, NEW t2
    PROVE  /\ Alike(u, w) => /\ Holds(h, u, tm) <=> Holds(h, w, tm)
                             /\ Acquires(h, u) <=> Acquires(h, w)
           /\ card.hats[h] = "timer" => (Holds(h, u, tm) <=> Holds(h, w, tm))
           /\ card.hats[h] # "timer" => (Holds(h, u, tm) <=> Holds(h, u, t2))
<1>1. ASSUME Alike(u, w) PROVE (Holds(h, u, tm) <=> Holds(h, w, tm)) /\ (Acquires(h, u) <=> Acquires(h, w))
  BY <1>1, AlikeSenses DEF Holds, Detects, Acquires
<1>2. ASSUME card.hats[h] = "timer" PROVE Holds(h, u, tm) <=> Holds(h, w, tm)
  BY <1>2 DEF Holds, Detects
<1>3. ASSUME card.hats[h] # "timer" PROVE Holds(h, u, tm) <=> Holds(h, u, t2)
  <2>1. CASE card.hats[h] = "loses"
    BY <2>1 DEF Holds
  <2>2. CASE card.hats[h] # "loses"
    BY <1>3, <2>2 DEF Holds, Detects, Kinds
  <2>. QED  BY <2>1, <2>2
<1>. QED  BY <1>1, <1>2, <1>3

\* Along a sequence of worlds a hat's condition comes true, as the hat sees it, where it rises;
\* at the first of them it depends on what the hat remembers.
LEMMA ComesTrueIs ==
    ASSUME NEW h, card.hats[h] \in Kinds, prev[h] \in BOOLEAN,
           NEW ws, NEW tm, NEW i \in Nat \ {0}
    PROVE  /\ DetectsAt(h, ws, tm, i)
                <=> Holds(h, ws[i], tm) /\ (Loses(h) => AcquiredBy(h, ws, i))
           /\ i = 1 => (ComesTrue(h, ws, tm, i)
                          <=> Holds(h, ws[1], tm) /\ ~prev[h] /\ (Loses(h) => h \in acquired))
           /\ i > 1 => (ComesTrue(h, ws, tm, i) <=> Holds(h, ws[i], tm) /\ ~Holds(h, ws[i - 1], tm))
<1>1. \A k : AcquiredBy(h, ws, k) \in BOOLEAN
  BY DEF AcquiredBy
<1>2. \A k \in Nat \ {0} : DetectsAt(h, ws, tm, k)
                             <=> Holds(h, ws[k], tm) /\ (Loses(h) => AcquiredBy(h, ws, k))
  BY <1>1, DetectsIs DEF DetectsAt
<1>3. ASSUME i = 1
      PROVE  ComesTrue(h, ws, tm, i)
               <=> Holds(h, ws[1], tm) /\ ~prev[h] /\ (Loses(h) => h \in acquired)
  <2>1. DetectsAt(h, ws, tm, i - 1) = prev[h]
    BY <1>3 DEF DetectsAt
  <2>2. AcquiredBy(h, ws, 1) <=> h \in acquired \/ Acquires(h, ws[1])
    <3>1. 1..1 = {1}
      OBVIOUS
    <3>. QED  BY <3>1 DEF AcquiredBy
  <2>3. Holds(h, ws[1], tm) => ~Acquires(h, ws[1])
    BY DetectsIs
  <2>. QED  BY <1>2, <1>3, <2>1, <2>2, <2>3 DEF ComesTrue
<1>4. ASSUME i > 1
      PROVE  ComesTrue(h, ws, tm, i) <=> Holds(h, ws[i], tm) /\ ~Holds(h, ws[i - 1], tm)
  <2>1. i - 1 \in Nat \ {0} /\ i - 1 \in 1..i /\ i \in 1..i
    BY <1>4
  <2>2. ComesTrue(h, ws, tm, i)
          <=> /\ Holds(h, ws[i], tm) /\ (Loses(h) => AcquiredBy(h, ws, i))
              /\ ~(Holds(h, ws[i - 1], tm) /\ (Loses(h) => AcquiredBy(h, ws, i - 1)))
    BY <1>2, <2>1 DEF ComesTrue
  <2>3. AcquiredBy(h, ws, i) <=> AcquiredBy(h, ws, i - 1) \/ Acquires(h, ws[i])
    <3>1. 1..i = (1..(i - 1)) \cup {i}
      BY <2>1
    <3>. QED  BY <3>1 DEF AcquiredBy
  <2>4. Acquires(h, ws[i - 1]) => AcquiredBy(h, ws, i)
    BY <2>1 DEF AcquiredBy
  <2>5. Acquires(h, ws[i - 1]) => Loses(h) /\ ~Holds(h, ws[i - 1], tm)
    BY DetectsIs
  <2>6. Acquires(h, ws[i]) => Loses(h) /\ ~Holds(h, ws[i], tm)
    BY DetectsIs
  <2>7. Loses(h) /\ ~Holds(h, ws[i - 1], tm) => Acquires(h, ws[i - 1])
    BY DetectsIs
  <2>. QED  BY <2>2, <2>3, <2>4, <2>5, <2>6, <2>7
<1>. QED  BY <1>2, <1>3, <1>4

-----------------------------------------------------------------------------
(***************************************************************************)
(* The state between two steps, and the kinds of steps there are.          *)
(***************************************************************************)
Backs == {"main", "block", "clock", "finish", "left"}
Idle == Phases \ {"serve", "hat", "restart", "stopped"}
ParkedType == [kind : {"none", "drive", "time"}, sign : {-1, 1}, left : Nat]

HatTypes ==
    /\ card \in Cards /\ world \in WorldType
    /\ timer \in Nat /\ pending \in {-1, 0, 1} /\ parked \in ParkedType
    /\ latched \subseteq hats /\ acquired \subseteq hats /\ ready \subseteq hats
    /\ prev \in [hats -> BOOLEAN] /\ owed \in [hats -> {"no", "new", "due"}]
    /\ spare \in [hats -> Int]
    /\ phase \in Phases /\ back \in Backs
    /\ phase \in {"hat", "restart"} => active \in hats
    /\ phase \in Idle \cup {"serve"} => active = 0
    /\ phase \in Idle => ready = {}
    /\ active \notin latched \cup ready

LEMMA CardIs ==
    ASSUME card \in Cards
    PROVE  /\ card.at \in Int /\ card.push \in BOOLEAN /\ card.events \in Seq(EventType)
           /\ card.hats \in Seq(Kinds) /\ hats \subseteq Nat \ {0} /\ 0 \notin hats
           /\ IsFiniteSet(hats) /\ \A h \in hats : card.hats[h] \in Kinds
<1>1. /\ card.at \in Int /\ card.push \in BOOLEAN /\ card.events \in Seq(EventType)
      /\ card.hats \in Seq(Kinds)
  <2>1. card \in [coop : BOOLEAN, push : BOOLEAN, rule : ClearRules, at : Int, late : Nat,
                  events : Seq(EventType), hats : Seq({"timer", "bumper", "eye", "ring", "loses"})]
    BY HatsAssumption
  <2>. QED  BY <2>1 DEF Kinds
<1>2. hats = 1..Len(card.hats) /\ Len(card.hats) \in Nat
  BY <1>1 DEF hats
<1>3. \A h \in hats : card.hats[h] \in Kinds
  BY <1>1, <1>2
<1>4. IsFiniteSet(hats)
  BY <1>2, FS_Interval
<1>. QED  BY <1>1, <1>2, <1>3, <1>4

LEMMA HereIs ==
    ASSUME HatTypes
    PROVE  /\ Here \in WorldType /\ Here.pos = world.pos
           /\ Here = AdvanceWorld(card, world) \/ Here = world
           /\ Here.pos \in Int /\ Here.hd \in {-1, 1}
<1>1. card.at \in Int /\ world \in WorldType
  BY CardIs DEF HatTypes
<1>2. AdvanceWorld(card, world) \in WorldType /\ AdvanceWorld(card, world).pos = world.pos
  BY <1>1, WorldAdvances
<1>3. Here \in WorldType /\ Here.pos = world.pos
  BY <1>1, <1>2 DEF Here
<1>. QED  BY <1>3, WorldIs DEF Here, WorldType

\* A drive ends where its hat cuts it, or where it was to end.
LEMMA LengthIs ==
    ASSUME HatTypes, NEW d \in Int, NEW at
    PROVE  /\ Length(d, at) \in Int /\ Apart(0, Length(d, at)) \in Nat
           /\ phase # "hat" /\ phase \in Idle => ~CutShort(d, at)
           /\ CutShort(d, at) => /\ active # 0
                                 /\ \E i \in Cuts(d, at) : i \in 0..Apart(0, d) /\ Length(d, at) = Sign(d) * i
           /\ ~CutShort(d, at) => Length(d, at) = d
<1>1. Apart(0, d) \in Nat /\ Sign(d) \in {-1, 1}
  BY ApartIs, SignIs
<1>2. ASSUME CutShort(d, at)
      PROVE  /\ Length(d, at) \in Int /\ active # 0
             /\ \E i \in Cuts(d, at) : i \in 0..Apart(0, d) /\ Length(d, at) = Sign(d) * i
  <2>1. Cuts(d, at) \in SUBSET Nat /\ Cuts(d, at) # {} /\ active # 0 /\ Cuts(d, at) \subseteq 0..Apart(0, d)
    BY <1>1, <1>2 DEF CutShort, Cuts
  <2>2. Min(Cuts(d, at)) \in Cuts(d, at)
    BY <2>1, MinIs
  <2>3. Length(d, at) = Sign(d) * Min(Cuts(d, at))
    BY <1>2 DEF Length
  <2>4. Length(d, at) \in Int
    BY <1>1, <2>1, <2>2, <2>3, SignTimes
  <2>. QED  BY <2>1, <2>2, <2>3, <2>4
<1>3. ~CutShort(d, at) => Length(d, at) = d
  BY DEF Length
<1>4. Length(d, at) \in Int
  BY <1>2, <1>3
<1>5. phase # "hat" /\ phase \in Idle => ~CutShort(d, at)
  BY DEF CutShort, HatTypes
<1>. QED  BY <1>2, <1>3, <1>4, <1>5, ApartIs

\* A drive, by whoever makes it.
Drives(d, at, tm) ==
    /\ phase \in {"block", "hat", "clock", "finish", "left"}
    /\ at \in {timer, tm}
    /\ Move(d, at, tm)
    /\ ready' = ready /\ active' = active
    /\ phase = "hat" => phase' = IF CutShort(d, at) THEN "restart" ELSE "hat"
    /\ phase # "hat" => phase' \in Idle

\* A step of the clock or of the heading.
Stands(w, tm) ==
    /\ phase \in {"block", "hat", "clock"}
    /\ Unmoved(w, tm)
    /\ ready' = ready /\ active' = active
    /\ phase = "hat" => phase' = "hat"
    /\ phase # "hat" => phase' \in Idle
    /\ w.pos = Here.pos /\ w.waiting = Here.waiting /\ w.placed = Here.placed /\ w.px = Here.px

\* A look at the hats between two blocks, in the world the block advances or in the present one.
Looks(w, next) ==
    /\ phase \in Idle
    /\ Check(w, next)
    /\ world' = w /\ timer' = timer /\ active' = active
    /\ \/ w = AdvanceWorld(card, world) /\ low' = Nearer(w.placed, <<world>>, low)
       \/ w = world /\ low' = low

\* A step no hat takes notice of.
Rests ==
    /\ phase \in Idle \cup {"hat"}
    /\ phase' \in Idle \cup {"stopped"} /\ (phase = "hat" => phase' = "stopped")
    /\ world' = world /\ timer' = timer /\ ready' = ready /\ active' = active
    /\ prev' = prev /\ latched' = latched /\ acquired' = acquired
    /\ owed' = owed /\ spare' = spare /\ low' = low

Kept ==
    /\ card' = card /\ pending' \in {-1, 0, 1} /\ parked' \in ParkedType /\ back' \in Backs

LEMMA Blocks ==
    ASSUME NEW n, Block(n)
    PROVE  phase \in {"block", "hat"}
BY DEF Block

LEMMA StepKinds ==
    ASSUME HatTypes, Next
    PROVE  /\ Kept
           /\ \/ \E d \in Int, at \in Nat, tm \in Nat : Drives(d, at, tm)
              \/ \E w \in WorldType, tm \in Nat : Stands(w, tm)
              \/ \E w \in WorldType, next \in Backs : Looks(w, next)
              \/ Serve \/ HatEnd \/ Restart \/ Rests
<1>. DEFINE Goal == /\ Kept
                    /\ \/ \E d \in Int, at \in Nat, tm \in Nat : Drives(d, at, tm)
                       \/ \E w \in WorldType, tm \in Nat : Stands(w, tm)
                       \/ \E w \in WorldType, next \in Backs : Looks(w, next)
                       \/ Serve \/ HatEnd \/ Restart \/ Rests
<1>1. /\ card \in Cards /\ world \in WorldType /\ timer \in Nat /\ pending \in {-1, 0, 1}
      /\ parked \in ParkedType /\ phase \in Phases /\ back \in Backs
  BY DEF HatTypes
<1>2. /\ Here \in WorldType /\ AdvanceWorld(card, world) \in WorldType
  BY <1>1, HereIs, CardIs, WorldAdvances
<1>3. \A d \in Int : Apart(0, Length(d, timer)) \in Nat /\ timer + Apart(0, Length(d, timer)) \in Nat
  <2>. TAKE d \in Int
  <2>1. Apart(0, Length(d, timer)) \in Nat
    BY LengthIs
  <2>. QED  BY <1>1, <2>1
<1>3a. ASSUME NEW d \in Int, TimedMove(d) PROVE \E tm \in Nat : Move(d, timer, tm)
  BY <1>3, <1>3a DEF TimedMove
<1>4. Signs \subseteq {-1, 1} /\ Lengths \subseteq Nat /\ Waits \subseteq Nat /\ FieldCap \in Nat
  BY HatsAssumption
<1>5. \A d \in Int : \A at : phase # "hat" /\ phase \in Idle => ~CutShort(d, at)
  BY LengthIs
<1>6. ASSUME NextBlock \/ OtherStack PROVE Goal
  <2>1. CASE NextBlock
    <3>1. Looks(AdvanceWorld(card, world), "block")
      BY <2>1 DEF NextBlock, Executes, Looks, Idle, Phases
    <3>. QED  BY <1>1, <1>2, <2>1, <3>1 DEF Kept, Backs, NextBlock, Executes, Check
  <2>2. CASE OtherStack
    <3>1. Looks(AdvanceWorld(card, world), "clock")
      BY <2>2 DEF OtherStack, Executes, Looks, Idle, Phases
    <3>. QED  BY <1>1, <1>2, <2>2, <3>1 DEF Kept, Backs, OtherStack, Executes, Check
  <2>. QED  BY <1>6, <2>1, <2>2
<1>7. ASSUME BudgetStop PROVE Goal
  <2>1. Rests
    BY <1>7 DEF BudgetStop, Rests, Idle, Phases, hatState, history
  <2>. QED  BY <1>1, <1>7, <2>1 DEF Kept, BudgetStop
<1>8. ASSUME Serve \/ HatEnd \/ Restart PROVE Goal
  BY <1>1, <1>8 DEF Serve, HatEnd, Restart, Kept
<1>9. ASSUME NEW s \in Signs, NEW d \in Lengths, DriveFor(s, d) PROVE Goal
  <2>1. s \in {-1, 1} /\ d \in Nat /\ s * d \in Int /\ phase \in {"block", "hat"} /\ pending' = 0
    BY <1>4, <1>9, SignTimes, Blocks DEF DriveFor
  <2>2. CASE Parks
    <3>1. Park("drive", s, d) /\ phase = "block"
      BY <1>9, <2>2 DEF DriveFor, Parks
    <3>2. Rests
      BY <3>1 DEF Park, Rests, Idle, Phases, hatState, history
    <3>. QED  BY <1>1, <2>1, <3>1, <3>2 DEF Kept, Park, ParkedType
  <2>3. CASE ~Parks
    <3>1. /\ TimedMove(s * d) /\ Continues(CutShort(s * d, timer))
          /\ card' = card /\ parked' = parked /\ ready' = ready /\ active' = active /\ back' = back
      BY <1>9, <2>3 DEF DriveFor
    <3>2. PICK tm \in Nat : Move(s * d, timer, tm)
      BY <1>3a, <2>1, <3>1
    <3>3. Drives(s * d, timer, tm)
      BY <2>1, <3>1, <3>2 DEF Drives, Continues, Idle, Phases
    <3>. QED  BY <1>1, <2>1, <3>1, <3>3 DEF Kept
  <2>. QED  BY <2>2, <2>3
<1>10. ASSUME NEW s \in Signs, Drive(s) PROVE Goal
  <2>1. s \in {-1, 0, 1} /\ phase \in {"block", "hat"} /\ pending' = s
    BY <1>4, <1>10, Blocks DEF Drive
  <2>2. Stands(Here, timer)
    BY <1>10, <2>1 DEF Drive, Stands, Continues, Idle, Phases
  <2>. QED  BY <1>1, <1>2, <1>10, <2>1, <2>2 DEF Kept, Drive
<1>11. ASSUME NEW t \in Waits, Wait(t) PROVE Goal
  <2>1. t \in Nat /\ phase \in {"block", "hat"} /\ pending' = pending /\ timer + t \in Nat
    BY <1>1, <1>4, <1>11, Blocks DEF Wait
  <2>2. CASE Parks
    <3>1. Park("time", 1, t) /\ phase = "block"
      BY <1>11, <2>2 DEF Wait, Parks
    <3>2. Rests
      BY <3>1 DEF Park, Rests, Idle, Phases, hatState, history
    <3>. QED  BY <1>1, <2>1, <3>1, <3>2 DEF Kept, Park, ParkedType
  <2>3. CASE ~Parks /\ pending = 0
    <3>1. /\ Unmoved(Here, timer + t) /\ Continues(FALSE)
          /\ card' = card /\ parked' = parked /\ ready' = ready /\ active' = active /\ back' = back
      BY <1>11, <2>3 DEF Wait
    <3>2. Stands(Here, timer + t)
      BY <2>1, <3>1 DEF Stands, Continues, Idle, Phases
    <3>. QED  BY <1>1, <1>2, <2>1, <3>1, <3>2 DEF Kept
  <2>4. CASE ~Parks /\ pending # 0
    <3>1. /\ Move(pending * t, timer + t, timer + t) /\ Continues(CutShort(pending * t, timer + t))
          /\ card' = card /\ parked' = parked /\ ready' = ready /\ active' = active /\ back' = back
      BY <1>11, <2>4 DEF Wait
    <3>2. pending \in {-1, 1}
      BY <1>1, <2>4
    <3>2a. pending * t \in Int
      BY <2>1, <3>2, SignTimes
    <3>3. Drives(pending * t, timer + t, timer + t)
      BY <2>1, <3>1 DEF Drives, Continues, Idle, Phases
    <3>. QED  BY <1>1, <2>1, <3>1, <3>2a, <3>3 DEF Kept
  <2>. QED  BY <2>2, <2>3, <2>4
<1>12. ASSUME TurnFor PROVE Goal
  <2>1. phase \in {"block", "hat"} /\ pending' = 0 /\ timer + 1 \in Nat
    BY <1>1, <1>12, Blocks DEF TurnFor
  <2>2. /\ Turned(Here) \in WorldType /\ Turned(Here).pos = Here.pos
        /\ Turned(Here).waiting = Here.waiting /\ Turned(Here).placed = Here.placed
        /\ Turned(Here).px = Here.px
    BY <1>2, TurnedIs
  <2>3. Stands(Turned(Here), timer + 1)
    BY <1>12, <2>1, <2>2 DEF TurnFor, Stands, Continues, Idle, Phases
  <2>. QED  BY <1>1, <1>12, <2>1, <2>2, <2>3 DEF Kept, TurnFor
<1>13. ASSUME StopDriving PROVE Goal
  <2>1. phase \in {"block", "hat"} /\ pending' = 0
    BY <1>13, Blocks DEF StopDriving
  <2>2. /\ Stopped(Here) \in WorldType /\ Stopped(Here).pos = Here.pos
        /\ Stopped(Here).waiting = Here.waiting /\ Stopped(Here).placed = Here.placed
        /\ Stopped(Here).px = Here.px
    BY <1>2, TurnedIs
  <2>3. Stands(Stopped(Here), timer)
    BY <1>13, <2>1, <2>2 DEF StopDriving, Stands, Continues, Idle, Phases
  <2>. QED  BY <1>1, <1>13, <2>1, <2>2, <2>3 DEF Kept, StopDriving
<1>14. ASSUME ResetTimer PROVE Goal
  <2>1. phase \in {"block", "hat"}
    BY <1>14, Blocks DEF ResetTimer
  <2>2. Stands(Here, 0)
    BY <1>14, <2>1 DEF ResetTimer, Stands, Continues, Idle, Phases
  <2>. QED  BY <1>1, <1>2, <1>14, <2>2 DEF Kept, ResetTimer
<1>15. ASSUME NEW k \in 1..parked.left, Slice(k) PROVE Goal
  <2>1. /\ parked.left \in Nat /\ parked.sign \in {-1, 1} /\ k \in Nat /\ timer + k \in Nat
        /\ parked.left - k \in Nat /\ phase = "clock"
    BY <1>1, <1>15 DEF ParkedType, Slice
  <2>2. Kept
    <3>1. parked' = (IF k = parked.left THEN NotParked ELSE [parked EXCEPT !.left = parked.left - k])
      BY <1>15 DEF Slice
    <3>2. parked' \in ParkedType
      BY <1>1, <2>1, <3>1 DEF ParkedType, NotParked
    <3>. QED  BY <1>1, <1>15, <3>2 DEF Kept, Slice
  <2>3. ready' = ready /\ active' = active /\ phase' \in Idle
    BY <1>15 DEF Slice, Idle, Phases
  <2>4. CASE parked.kind = "drive"
    <3>1. Move(parked.sign * k, timer + k, timer + k) /\ parked.sign * k \in Int
      BY <1>15, <2>1, <2>4, SignTimes DEF Slice
    <3>2. Drives(parked.sign * k, timer + k, timer + k)
      BY <2>1, <2>3, <3>1 DEF Drives
    <3>. QED  BY <2>1, <2>2, <3>1, <3>2
  <2>5. CASE parked.kind # "drive" /\ pending # 0
    <3>1. Move(pending * k, timer + k, timer + k) /\ pending * k \in Int
      BY <1>1, <1>15, <2>1, <2>5, SignTimes DEF Slice
    <3>2. Drives(pending * k, timer + k, timer + k)
      BY <2>1, <2>3, <3>1 DEF Drives
    <3>. QED  BY <2>1, <2>2, <3>1, <3>2
  <2>6. CASE parked.kind # "drive" /\ pending = 0
    <3>1. Unmoved(Here, timer + k)
      BY <1>15, <2>6 DEF Slice
    <3>2. Stands(Here, timer + k)
      BY <2>1, <2>3, <3>1 DEF Stands
    <3>. QED  BY <1>2, <2>1, <2>2, <3>2
  <2>. QED  BY <2>4, <2>5, <2>6
<1>16. ASSUME EndProgram \/ Reached PROVE Goal
  <2>1. CASE EndProgram
    <3>1. Looks(world, "finish")
      BY <2>1 DEF EndProgram, Looks, Idle, Phases
    <3>. QED  BY <1>1, <2>1, <3>1 DEF Kept, Backs, EndProgram, Check
  <2>2. CASE Reached
    <3>1. Looks(world, "left")
      BY <2>2 DEF Reached, Looks, Idle, Phases
    <3>. QED  BY <1>1, <2>2, <3>1 DEF Kept, Backs, Reached, Check
  <2>. QED  BY <1>16, <2>1, <2>2
<1>17. ASSUME RunOff(pending), pending # 0, phase \in {"finish", "left"},
              card' = card, parked' = parked, ready' = ready, active' = active, back' = back
       PROVE  Goal
  <2>1. pending * FieldCap \in Int
    BY <1>1, <1>4, <1>17, SignTimes
  <2>2. pending' = 0 /\ TimedMove(pending * FieldCap) /\ phase' = "done"
    BY <1>17 DEF RunOff
  <2>3. PICK tm \in Nat : Move(pending * FieldCap, timer, tm)
    BY <1>3a, <2>1, <2>2
  <2>4. Drives(pending * FieldCap, timer, tm)
    BY <1>17, <2>2, <2>3 DEF Drives, Idle, Phases
  <2>. QED  BY <1>1, <1>17, <2>1, <2>2, <2>4 DEF Kept
<1>18. ASSUME FinishPendingMotion PROVE Goal
  <2>1. /\ phase = "finish" /\ card' = card /\ parked' = parked /\ ready' = ready
        /\ active' = active /\ back' = back
    BY <1>18 DEF FinishPendingMotion
  <2>2. CASE pending = 0
    <3>1. Rests /\ pending' = pending
      BY <1>18, <2>1, <2>2 DEF FinishPendingMotion, Rests, Idle, Phases, hatState, history
    <3>. QED  BY <1>1, <2>1, <3>1 DEF Kept
  <2>3. CASE pending # 0 /\ Detections = {}
    BY <1>17, <1>18, <2>1, <2>3 DEF FinishPendingMotion
  <2>4. CASE pending # 0 /\ Detections # {}
    <3>1. Min(Detections) \in Nat
      <4>1. Detections \in SUBSET Nat
        BY <1>4 DEF Detections
      <4>. QED  BY <2>4, <4>1, MinIs
    <3>2. pending * Min(Detections) \in Int
      BY <1>1, <2>4, <3>1, SignTimes
    <3>3. TimedMove(pending * Min(Detections)) /\ pending' = 0 /\ phase' = "reached"
      BY <1>18, <2>4 DEF FinishPendingMotion
    <3>4. PICK tm \in Nat : Move(pending * Min(Detections), timer, tm)
      BY <1>3a, <3>2, <3>3
    <3>5. Drives(pending * Min(Detections), timer, tm)
      BY <2>1, <3>3, <3>4 DEF Drives, Idle, Phases
    <3>. QED  BY <1>1, <2>1, <3>2, <3>3, <3>5 DEF Kept
  <2>. QED  BY <2>2, <2>3, <2>4
<1>19. ASSUME Left PROVE Goal
  <2>1. /\ phase = "left" /\ card' = card /\ parked' = parked /\ ready' = ready
        /\ active' = active /\ back' = back
    BY <1>19 DEF Left
  <2>2. CASE pending = 0
    <3>1. Rests /\ pending' = pending
      BY <1>19, <2>1, <2>2 DEF Left, Rests, Idle, Phases, hatState, history
    <3>. QED  BY <1>1, <2>1, <3>1 DEF Kept
  <2>3. CASE pending # 0
    BY <1>17, <1>19, <2>1, <2>3 DEF Left
  <2>. QED  BY <2>2, <2>3
<1>. QED
  <2>. HIDE DEF Goal
  <2>1. Goal
    BY <1>6, <1>7, <1>8, <1>9, <1>10, <1>11, <1>12, <1>13, <1>14, <1>15, <1>16, <1>18, <1>19 DEF Next
  <2>. QED  BY <2>1 DEF Goal

-----------------------------------------------------------------------------
(***************************************************************************)
(* What the hats see along a move.                                         *)
(***************************************************************************)
LEMMA CourseIs ==
    ASSUME HatTypes, NEW e \in Int, NEW n, n = Apart(0, e) + 1
    PROVE  /\ n \in Nat \ {0} /\ DOMAIN Course(e) = 1..n
           /\ Course(e)[1] = Here
           /\ \A i \in 2..n : Course(e)[i] = Driven(card, Here, Sign(e) * (i - 1))
           /\ \A i \in 1..n : /\ Course(e)[i].pos = Here.pos + Here.hd * (Sign(e) * (i - 1))
                              /\ Course(e)[i].pos \in Int
<1>1. Apart(0, e) \in Nat /\ Sign(e) \in {-1, 1}
  BY ApartIs, SignIs
<1>2. n \in Nat \ {0} /\ 1 \in 1..n /\ 2..n \subseteq 1..n /\ (\A i \in 2..n : i # 1)
  BY <1>1
<1>3. /\ DOMAIN Course(e) = 1..n
      /\ \A i \in 1..n : Course(e)[i] = IF i = 1 THEN Here ELSE Driven(card, Here, Sign(e) * (i - 1))
  BY DEF Course
<1>4. \A i \in 1..n : /\ Sign(e) * (i - 1) \in Int /\ Here.hd * (Sign(e) * (i - 1)) \in Int
                      /\ i = 1 => Here.hd * (Sign(e) * (i - 1)) = 0
  <2>. TAKE i \in 1..n
  <2>1. i - 1 \in Int /\ Here.hd \in {-1, 1}
    BY HereIs
  <2>2. Sign(e) * (i - 1) \in Int /\ (i = 1 => Sign(e) * (i - 1) = 0)
    BY <1>1, <2>1, SignTimes
  <2>. DEFINE x == Sign(e) * (i - 1)
  <2>3. x \in Int /\ (i = 1 => x = 0)
    BY <2>2
  <2>. HIDE DEF x
  <2>4. Here.hd * x \in Int /\ (i = 1 => Here.hd * x = 0)
    BY <2>1, <2>3, SignTimes
  <2>. QED  BY <2>2, <2>4 DEF x
<1>5. \A i \in 1..n : /\ Course(e)[i].pos = Here.pos + Here.hd * (Sign(e) * (i - 1))
                      /\ Course(e)[i].pos \in Int
  <2>. TAKE i \in 1..n
  <2>. DEFINE x == Sign(e) * (i - 1)
              y == Here.hd * x
  <2>1. x \in Int /\ y \in Int /\ (i = 1 => y = 0) /\ Here.pos \in Int /\ Here \in WorldType
    BY <1>4, HereIs
  <2>2. Driven(card, Here, x).pos = Here.pos + Here.hd * x
    <3>. HIDE DEF x, y
    <3>. QED  BY <2>1, DrivenIs
  <2>3. Course(e)[i] = IF i = 1 THEN Here ELSE Driven(card, Here, x)
    BY <1>3
  <2>4. Course(e)[i].pos = Here.pos + y /\ Here.pos + y \in Int
    <3>1. Driven(card, Here, x).pos = Here.pos + y
      BY <2>2
    <3>. HIDE DEF x, y
    <3>. QED  BY <2>1, <2>3, <3>1
  <2>. QED  BY <2>4
<1>. QED  BY <1>2, <1>3, <1>5

\* A world that looks like the present one, wherever the robot is in it.
Elsewhere(w) ==
    /\ w.piece = Here.piece /\ w.px = Here.px /\ w.hd = Here.hd
    /\ w.edge = Here.edge /\ w.out = Here.out

LEMMA EndIsElsewhere ==
    ASSUME HatTypes, ~card.push, NEW e \in Int
    PROVE  Elsewhere(Here) /\ Elsewhere(Driven(card, Here, e)) /\ Driven(card, Here, e) \in WorldType
<1>. DEFINE v == [Here EXCEPT !.pos = Here.pos + Here.hd * e]
<1>1. Here \in WorldType
  BY HereIs
<1>2. Alike(Driven(card, Here, e), v) /\ Driven(card, Here, e) \in WorldType
  BY <1>1, DrivenIs
<1>3. v.piece = Here.piece /\ v.px = Here.px /\ v.hd = Here.hd /\ v.edge = Here.edge /\ v.out = Here.out
  BY <1>1 DEF WorldType
<1>. HIDE DEF v
<1>. QED  BY <1>2, <1>3 DEF Alike, Elsewhere

\* The samples of a move look like the worlds along it: the last of them like its end.
LEMMA SamplesAre ==
    ASSUME HatTypes, ~card.push, NEW e \in Int, NEW n, n = Apart(0, e) + 1,
           NEW w \in WorldType, Elsewhere(w)
    PROVE  LET ws == Samples(w, e) IN
           /\ Len(ws) \in Nat /\ n <= Len(ws) /\ (e # 0 => Len(ws) = n) /\ (e = 0 => Len(ws) = 2 /\ n = 1)
           /\ \A i \in 1..n : Alike(ws[i], Course(e)[i])
           /\ e = 0 => Alike(ws[2], Course(e)[1])
           /\ Alike(Course(e)[n], Driven(card, Here, e))
<1>. DEFINE ws == Samples(w, e)
            at(i) == Here.pos + Here.hd * (IF e = 0 THEN 0 ELSE Sign(e) * (i - 1))
            m == Max({1, Apart(0, e)}) + 1
<1>1. /\ Apart(0, e) \in Nat /\ Sign(e) \in {-1, 1} /\ Here \in WorldType
      /\ Here.hd \in {-1, 1} /\ Here.pos \in Int /\ n \in Nat
      /\ (e = 0 <=> Apart(0, e) = 0)
  <2>1. Apart(0, e) = 0 <=> e = 0
    BY DEF Apart
  <2>. QED  BY <2>1, ApartIs, SignIs, HereIs
<1>2. m \in Nat /\ n <= m /\ (e # 0 => m = n) /\ (e = 0 => m = 2 /\ n = 1)
  <2>1. Max({1, Apart(0, e)}) = IF 1 <= Apart(0, e) THEN Apart(0, e) ELSE 1
    BY <1>1, PairMax
  <2>. QED  BY <1>1, <2>1
<1>3. DOMAIN ws = 1..m /\ \A i \in 1..m : ws[i] = [w EXCEPT !.pos = at(i)]
  <2>1. ws = [i \in 1..m |-> [w EXCEPT !.pos = at(i)]]
    BY DEF Samples
  <2>. HIDE DEF ws, m, at
  <2>. QED  BY <2>1
<1>4. Len(ws) = m
  <2>. HIDE DEF ws, m, at
  <2>1. ws \in Seq({ws[i] : i \in 1..m})
    <3>1. ws = [i \in 1..m |-> [w EXCEPT !.pos = at(i)]]
      BY DEF Samples, ws, m, at
    <3>. QED  BY <1>2, <1>3, <3>1
  <2>. QED  BY <1>2, <1>3, <2>1
<1>5. \A i \in 1..m : /\ ws[i].pos = at(i) /\ ws[i].piece = w.piece /\ ws[i].px = w.px
                      /\ ws[i].hd = w.hd /\ ws[i].edge = w.edge /\ ws[i].out = w.out
  <2>. HIDE DEF ws, m, at
  <2>. QED  BY SMTT(30), <1>3 DEF WorldType
<1>6. \A i \in 1..m : Elsewhere(ws[i])
  <2>. HIDE DEF ws, m, at
  <2>. QED  BY <1>5 DEF Elsewhere
<1>7. \A i \in 1..n : i \in 1..m /\ Elsewhere(Course(e)[i])
  <2>. TAKE i \in 1..n
  <2>. HIDE DEF m
  <2>1. CASE i = 1
    <3>1. i \in 1..m
      BY <1>1, <1>2
    <3>2. Course(e)[i] = Here
      BY <2>1, CourseIs
    <3>. QED  BY <3>1, <3>2, EndIsElsewhere
  <2>2. CASE i # 1
    <3>1. i \in 2..n /\ i - 1 \in Int
      BY <1>1, <2>2
    <3>2. Course(e)[i] = Driven(card, Here, Sign(e) * (i - 1))
      BY <3>1, CourseIs
    <3>3. Sign(e) * (i - 1) \in Int
      BY <1>1, <3>1, SignTimes
    <3>4. i \in 1..m
      BY <1>1, <1>2
    <3>. QED  BY <3>2, <3>3, <3>4, EndIsElsewhere
  <2>. QED  BY <2>1, <2>2
<1>8. \A i \in 1..n : at(i) = Course(e)[i].pos
  <2>. TAKE i \in 1..n
  <2>1. Course(e)[i].pos = Here.pos + Here.hd * (Sign(e) * (i - 1))
    BY CourseIs
  <2>2. CASE e # 0
    BY <2>1, <2>2
  <2>3. CASE e = 0
    <3>1. i = 1 /\ Sign(e) * 0 = 0
      BY <1>1, <1>2, <2>3, SignTimes
    <3>. QED  BY <2>1, <2>3, <3>1
  <2>. QED  BY <2>2, <2>3
<1>. HIDE DEF ws, m
<1>9. \A i \in 1..n : Alike(ws[i], Course(e)[i])
  <2>. HIDE DEF at
  <2>. QED  BY <1>5, <1>6, <1>7, <1>8 DEF Alike, Elsewhere
<1>10. ASSUME e = 0 PROVE Alike(ws[2], Course(e)[1])
  <2>1. at(2) = Here.pos /\ 2 \in 1..m /\ 1 \in 1..n
    BY <1>1, <1>2, <1>10
  <2>2. ws[2].pos = Here.pos /\ Course(e)[1] = Here
    <3>. HIDE DEF at
    <3>. QED  BY <1>5, <2>1, CourseIs
  <2>. QED  BY <1>6, <1>7, <2>1, <2>2 DEF Alike, Elsewhere
<1>11. Alike(Course(e)[n], Driven(card, Here, e))
  <2>1. n \in 1..n /\ n - 1 = Apart(0, e)
    BY <1>1
  <2>2. Driven(card, Here, e).pos = Here.pos + Here.hd * e
    BY <1>1, DrivenIs
  <2>3. Sign(e) * (n - 1) = e
    BY <2>1, SignIs
  <2>4. Course(e)[n].pos = Here.pos + Here.hd * (Sign(e) * (n - 1))
    BY <2>1, CourseIs
  <2>5. Course(e)[n].pos = Driven(card, Here, e).pos
    BY <2>2, <2>3, <2>4
  <2>. QED  BY <1>7, <2>1, <2>5, EndIsElsewhere DEF Alike, Elsewhere
<1>12. Len(ws) \in Nat /\ n <= Len(ws) /\ (e # 0 => Len(ws) = n) /\ (e = 0 => Len(ws) = 2 /\ n = 1)
  BY <1>2, <1>4
<1>. QED  BY <1>9, <1>10, <1>11, <1>12 DEF ws

LEMMA RisesIs ==
    ASSUME NEW h, NEW ws, NEW tm, NEW n \in Nat, DOMAIN ws = 1..n
    PROVE  /\ Rises(h, ws, tm) \in Nat
           /\ Rises(h, ws, tm) > 0
                <=> \E i \in 2..n : Holds(h, ws[i], tm) /\ ~Holds(h, ws[i - 1], tm)
<1>. DEFINE up == {i \in DOMAIN ws \ {1} : Holds(h, ws[i], tm) /\ ~Holds(h, ws[i - 1], tm)}
<1>1. DOMAIN ws \ {1} = 2..n
  OBVIOUS
<1>2. IsFiniteSet(up)
  <2>1. up \subseteq 2..n /\ IsFiniteSet(2..n)
    BY <1>1, FS_Interval
  <2>. QED  BY <2>1, FS_Subset
<1>3. Cardinality(up) \in Nat /\ (Cardinality(up) = 0 <=> up = {})
  BY <1>2, FS_CardinalityType, FS_EmptySet
<1>4. Rises(h, ws, tm) = Cardinality(up)
  BY DEF Rises
<1>5. up # {} <=> \E i \in 2..n : Holds(h, ws[i], tm) /\ ~Holds(h, ws[i - 1], tm)
  BY <1>1
<1>. HIDE DEF up
<1>. QED  BY <1>3, <1>4, <1>5

\* The detection that a hat remembers having missed: its condition holds, and it has not seen that.
Ahead(h, w, tm) == Holds(h, w, tm) /\ ~prev[h] /\ (Loses(h) => h \in acquired)

\* A hat that looks along a move knows its condition at the end, and meets a detection
\* wherever the condition rises, and otherwise only where it held from the start.
LEMMA LatchingSees ==
    ASSUME HatTypes, ~card.push, NEW e \in Int, NEW at, NEW tm, NEW h \in hats \ {active}
    PROVE  LET end == Driven(card, Here, e)
               s == Seen(h, e, end, at, tm)
           IN  /\ h \in acquired => s.acq
               /\ s.prev <=> Holds(h, end, tm) /\ (Loses(h) => s.acq)
               /\ Rises(h, Course(e), tm) > 0 => s.hit
               /\ s.hit => Rises(h, Course(e), tm) > 0 \/ Ahead(h, Here, tm)
<1>. DEFINE end == Driven(card, Here, e)
            s == Seen(h, e, end, at, tm)
            ws == Samples(end, e)
            n == Apart(0, e) + 1
            m == Len(ws)
<1>1. card.hats[h] \in Kinds /\ prev[h] \in BOOLEAN
  BY CardIs DEF HatTypes
<1>2. end \in WorldType /\ Elsewhere(end)
  BY EndIsElsewhere
<1>3. n \in Nat \ {0} /\ DOMAIN Course(e) = 1..n /\ Course(e)[1] = Here
  BY CourseIs
<1>4. /\ m \in Nat /\ n <= m /\ (e # 0 => m = n) /\ (e = 0 => m = 2 /\ n = 1)
      /\ \A i \in 1..n : Alike(ws[i], Course(e)[i])
      /\ e = 0 => Alike(ws[2], Course(e)[1])
      /\ Alike(Course(e)[n], end)
  <2>. HIDE DEF end
  <2>. QED  BY <1>2, SamplesAre DEF end
<1>5. s = Look(h, ws, tm, m)
  BY DEF Seen, Latching
<1>6. /\ s.acq = AcquiredBy(h, ws, m) /\ s.prev = DetectsAt(h, ws, tm, m)
      /\ s.hit = \E i \in 1..m : ComesTrue(h, ws, tm, i)
  BY <1>5 DEF Look
<1>. HIDE DEF end, s, ws, n, m
<1>7. \A i \in 1..n : Holds(h, ws[i], tm) <=> Holds(h, Course(e)[i], tm)
  BY <1>1, <1>4, HoldsIs
<1>8. Holds(h, Course(e)[n], tm) <=> Holds(h, end, tm)
  BY <1>1, <1>4, HoldsIs
<1>9. Holds(h, ws[m], tm) <=> Holds(h, end, tm)
  <2>1. CASE e = 0
    <3>1. Holds(h, ws[2], tm) <=> Holds(h, Course(e)[1], tm)
      BY <1>1, <1>4, <2>1, HoldsIs
    <3>. QED  BY <1>4, <1>8, <2>1, <3>1
  <2>2. CASE e # 0
    <3>1. n \in 1..n /\ m = n
      BY <1>3, <1>4, <2>2
    <3>. QED  BY <1>7, <1>8, <3>1
  <2>. QED  BY <2>1, <2>2
<1>10. s.prev <=> Holds(h, end, tm) /\ (Loses(h) => s.acq)
  <2>1. m \in Nat \ {0}
    BY <1>3, <1>4
  <2>2. DetectsAt(h, ws, tm, m) <=> Holds(h, ws[m], tm) /\ (Loses(h) => AcquiredBy(h, ws, m))
    BY <1>1, <2>1, ComesTrueIs
  <2>. QED  BY <1>6, <1>9, <2>2
<1>11. h \in acquired => s.acq
  BY <1>6 DEF AcquiredBy
<1>12. \A i \in 2..n : ComesTrue(h, ws, tm, i)
                         <=> Holds(h, Course(e)[i], tm) /\ ~Holds(h, Course(e)[i - 1], tm)
  <2>. TAKE i \in 2..n
  <2>1. i \in 1..n /\ i - 1 \in 1..n /\ i \in Nat \ {0} /\ i > 1
    BY <1>3
  <2>2. ComesTrue(h, ws, tm, i) <=> Holds(h, ws[i], tm) /\ ~Holds(h, ws[i - 1], tm)
    BY <1>1, <2>1, ComesTrueIs
  <2>. QED  BY <1>7, <2>1, <2>2
<1>13. Rises(h, Course(e), tm) > 0 <=> \E i \in 2..n : ComesTrue(h, ws, tm, i)
  BY <1>3, <1>12, RisesIs
<1>14. ASSUME Rises(h, Course(e), tm) > 0 PROVE s.hit
  <2>1. PICK i \in 2..n : ComesTrue(h, ws, tm, i)
    BY <1>13, <1>14
  <2>2. i \in 1..m
    BY <1>3, <1>4
  <2>. QED  BY <1>6, <2>1, <2>2
<1>15. ASSUME s.hit PROVE Rises(h, Course(e), tm) > 0 \/ Ahead(h, Here, tm)
  <2>1. PICK i \in 1..m : ComesTrue(h, ws, tm, i)
    BY <1>6, <1>15
  <2>2. CASE i = 1
    <3>1. Holds(h, ws[1], tm) /\ ~prev[h] /\ (Loses(h) => h \in acquired)
      BY <1>1, <2>1, <2>2, ComesTrueIs
    <3>2. 1 \in 1..n
      BY <1>3
    <3>. QED  BY <1>3, <1>7, <3>1, <3>2 DEF Ahead
  <2>3. CASE i \in 2..n
    BY <1>13, <2>1, <2>3
  <2>4. CASE i = 2 /\ e = 0
    <3>1. Holds(h, ws[2], tm) /\ ~Holds(h, ws[1], tm)
      BY <1>1, <2>1, <2>4, ComesTrueIs
    <3>2. Holds(h, ws[2], tm) <=> Holds(h, Course(e)[1], tm)
      BY <1>1, <1>4, <2>4, HoldsIs
    <3>3. 1 \in 1..n
      BY <1>3
    <3>. QED  BY <1>7, <3>1, <3>2, <3>3
  <2>. QED  BY <1>3, <1>4, <2>2, <2>3, <2>4
<1>. QED  BY <1>10, <1>11, <1>14, <1>15 DEF s, end

\* The hat that drives is cut where its condition comes true, or the condition nowhere rises.
LEMMA ActiveSees ==
    ASSUME HatTypes, ~card.push, active \in hats, NEW d \in Int, NEW at, NEW tm
    PROVE  LET e == Length(d, at)
               end == Driven(card, Here, e)
               s == Seen(active, e, end, at, tm)
           IN  /\ active \in acquired => s.acq
               /\ s.prev <=> Holds(active, end, at) /\ (Loses(active) => s.acq)
               /\ ~CutShort(d, at) => ~(Rises(active, Course(e), tm) > 0)
               /\ CutShort(d, at) => /\ s.prev
                                     /\ Rises(active, Course(e), tm) > 0 \/ Ahead(active, Here, at)
<1>. DEFINE h == active
            e == Length(d, at)
            end == Driven(card, Here, e)
            s == Seen(active, e, end, at, tm)
            ws == Samples(Here, e)
            n == Apart(0, e) + 1
<1>1. card.hats[h] \in Kinds /\ prev[h] \in BOOLEAN /\ h # 0
  BY CardIs DEF HatTypes
<1>2. Here \in WorldType /\ Elsewhere(Here)
  BY HereIs, EndIsElsewhere
<1>3. /\ e \in Int /\ Apart(0, e) \in Nat
      /\ CutShort(d, at) => \E i \in Cuts(d, at) : i \in 0..Apart(0, d) /\ e = Sign(d) * i
      /\ ~CutShort(d, at) => e = d
  BY LengthIs
<1>4. s = Look(h, ws, at, n)
  <2>1. active \notin Latching
    BY DEF Latching
  <2>. QED  BY <2>1 DEF Seen
<1>. HIDE DEF e
<1>5. n \in Nat \ {0} /\ DOMAIN Course(e) = 1..n /\ Course(e)[1] = Here
  BY <1>3, CourseIs
<1>6. /\ \A i \in 1..n : Alike(ws[i], Course(e)[i])
      /\ Alike(Course(e)[n], end)
  BY <1>2, <1>3, SamplesAre
<1>7. s.acq = AcquiredBy(h, ws, n) /\ s.prev = DetectsAt(h, ws, at, n)
  BY <1>4 DEF Look
<1>. HIDE DEF end, s, ws, n, h
<1>8. \A i \in 1..n : \A t : Holds(h, ws[i], t) <=> Holds(h, Course(e)[i], t)
  BY <1>1, <1>6, HoldsIs
<1>9. Holds(h, ws[n], at) <=> Holds(h, end, at)
  <2>1. n \in 1..n
    BY <1>5
  <2>. QED  BY <1>1, <1>6, <1>8, <2>1, HoldsIs
<1>10. s.prev <=> Holds(h, end, at) /\ (Loses(h) => s.acq)
  <2>1. DetectsAt(h, ws, at, n) <=> Holds(h, ws[n], at) /\ (Loses(h) => AcquiredBy(h, ws, n))
    BY <1>1, <1>5, ComesTrueIs
  <2>. QED  BY <1>7, <1>9, <2>1
<1>11. h \in acquired => s.acq
  BY <1>7 DEF AcquiredBy
<1>12. Rises(h, Course(e), tm) > 0
         <=> \E i \in 2..n : Holds(h, Course(e)[i], at) /\ ~Holds(h, Course(e)[i - 1], at)
  <2>1. \A i \in 2..n : Holds(h, Course(e)[i], tm) /\ ~Holds(h, Course(e)[i - 1], tm)
                          <=> Holds(h, Course(e)[i], at) /\ ~Holds(h, Course(e)[i - 1], at)
    <3>1. CASE card.hats[h] = "timer"
      BY <1>1, <3>1, HoldsIs
    <3>2. CASE card.hats[h] # "timer"
      BY <1>1, <3>2, HoldsIs
    <3>. QED  BY <3>1, <3>2
  <2>2. Rises(h, Course(e), tm) > 0
          <=> \E i \in 2..n : Holds(h, Course(e)[i], tm) /\ ~Holds(h, Course(e)[i - 1], tm)
    BY <1>5, RisesIs
  <2>. QED  BY <2>1, <2>2
<1>13. ASSUME ~CutShort(d, at), Rises(h, Course(e), tm) > 0 PROVE FALSE
  <2>1. PICK i \in 2..n : Holds(h, Course(e)[i], at) /\ ~Holds(h, Course(e)[i - 1], at)
    BY <1>12, <1>13
  <2>2. i \in 1..n /\ i - 1 \in 1..n /\ i \in Nat \ {0} /\ i > 1 /\ i - 1 \in 0..Apart(0, e)
        /\ (i - 1) + 1 = i
    BY <1>3, <1>5 DEF n
  <2>3. ComesTrue(h, ws, at, i)
    BY <1>1, <1>8, <2>1, <2>2, ComesTrueIs
  <2>4. i - 1 \in Cuts(e, at)
    BY <2>2, <2>3 DEF Cuts, ws, h
  <2>. QED  BY <1>1, <1>3, <1>13, <2>4 DEF CutShort, h
<1>14. ASSUME CutShort(d, at)
       PROVE  s.prev /\ (Rises(h, Course(e), tm) > 0 \/ Ahead(h, Here, at))
  <2>. DEFINE us == Samples(Here, d)
  <2>1. PICK i \in Cuts(d, at) : i \in 0..Apart(0, d) /\ e = Sign(d) * i
    BY <1>3, <1>14
  <2>2. /\ Apart(0, d) \in Nat /\ Sign(d) \in {-1, 1} /\ i \in Nat
        /\ ComesTrue(h, us, at, i + 1)
    <3>1. Apart(0, d) \in Nat /\ Sign(d) \in {-1, 1}
      BY ApartIs, SignIs
    <3>. QED  BY <2>1, <3>1 DEF Cuts, h
  <2>3. n = i + 1 /\ (i > 0 => Sign(e) = Sign(d))
    <3>1. e = (IF Sign(d) = 1 THEN i ELSE -i)
      BY <2>1, <2>2, SignTimes
    <3>2. CASE Sign(d) = 1
      BY <2>2, <3>1, <3>2 DEF n, Apart, Sign
    <3>3. CASE Sign(d) = -1
      <4>1. e = -i
        BY <3>1, <3>3
      <4>2. i > 0 => Sign(e) = -1
        BY <2>2, <4>1 DEF Sign
      <4>3. Apart(0, e) = i
        BY <2>2, <4>1 DEF Apart
      <4>. QED  BY <3>3, <4>2, <4>3 DEF n
    <3>. QED  BY <2>2, <3>2, <3>3
  <2>4. \A k \in 1..n : Holds(h, us[k], at) <=> Holds(h, Course(e)[k], at)
    <3>. TAKE k \in 1..n
    <3>. DEFINE q == Apart(0, d) + 1
    <3>1. q \in Nat /\ k \in 1..q
      BY <2>1, <2>2, <2>3
    <3>2. Alike(us[k], Course(d)[k])
      BY <1>2, <3>1, SamplesAre
    <3>3. Course(d)[k] = Course(e)[k]
      <4>1. CASE k = 1
        BY <1>3, <4>1, CourseIs
      <4>2. CASE k # 1
        <5>1. k \in 2..q /\ k \in 2..n /\ i > 0
          BY <2>2, <2>3, <3>1, <4>2
        <5>2. Course(d)[k] = Driven(card, Here, Sign(d) * (k - 1))
          BY <5>1, CourseIs
        <5>3. Course(e)[k] = Driven(card, Here, Sign(e) * (k - 1))
          BY <1>3, <5>1, CourseIs DEF n
        <5>. QED  BY <2>3, <5>1, <5>2, <5>3
      <4>. QED  BY <4>1, <4>2
    <3>. QED  BY <1>1, <3>2, <3>3, HoldsIs
  <2>. HIDE DEF us
  <2>5. CASE i = 0
    <3>1. Holds(h, us[1], at) /\ ~prev[h] /\ (Loses(h) => h \in acquired)
      BY <1>1, <2>2, <2>5, ComesTrueIs
    <3>2. n = 1 /\ 1 \in 1..n
      BY <2>3, <2>5
    <3>3. Holds(h, Course(e)[1], at) /\ Holds(h, Here, at)
      BY <1>5, <2>4, <3>1, <3>2
    <3>4. Holds(h, end, at)
      BY <1>8, <1>9, <3>2, <3>3
    <3>. QED  BY <1>10, <1>11, <3>1, <3>3, <3>4 DEF Ahead
  <2>6. CASE i > 0
    <3>1. i + 1 \in Nat \ {0} /\ i + 1 > 1 /\ (i + 1) - 1 = i /\ i \in 1..n /\ i + 1 \in 1..n
          /\ i + 1 \in 2..n
      BY <2>2, <2>3, <2>6
    <3>2. Holds(h, us[i + 1], at) /\ ~Holds(h, us[i], at)
      <4>. DEFINE k == i + 1
      <4>1. k \in Nat \ {0} /\ k > 1 /\ k - 1 = i /\ ComesTrue(h, us, at, k)
        BY <2>2, <3>1
      <4>. HIDE DEF k
      <4>2. Holds(h, us[k], at) /\ ~Holds(h, us[k - 1], at)
        BY <1>1, <4>1, ComesTrueIs
      <4>. QED  BY <4>1, <4>2 DEF k
    <3>3. Holds(h, Course(e)[i + 1], at) /\ ~Holds(h, Course(e)[i], at)
      BY <2>4, <3>1, <3>2
    <3>4. Rises(h, Course(e), tm) > 0
      BY <1>12, <3>1, <3>3
    <3>5. Holds(h, end, at)
      BY <1>8, <1>9, <2>3, <3>1, <3>3
    <3>6. Loses(h) => s.acq
      <4>1. ~Holds(h, ws[i], at)
        BY <1>8, <3>1, <3>3
      <4>2. Loses(h) => Acquires(h, ws[i])
        BY <1>1, <4>1, DetectsIs
      <4>. QED  BY <1>7, <3>1, <4>2 DEF AcquiredBy
    <3>. QED  BY <1>10, <3>4, <3>5, <3>6
  <2>. QED  BY <2>2, <2>5, <2>6
<1>. QED  BY <1>10, <1>11, <1>13, <1>14 DEF s, end, e, h

-----------------------------------------------------------------------------
(***************************************************************************)
(* Types.                                                                  *)
(***************************************************************************)
LEMMA RiseIs ==
    ASSUME NEW h, card.hats[h] \in Kinds, NEW w, NEW tm
    PROVE  Rise(h, w, tm) \in {0, 1} /\ (Rise(h, w, tm) = 1 <=> Holds(h, w, tm) /\ ~Holds(h, world, timer))
BY DEF Rise

LEMMA SeenIsTruth ==
    ASSUME HatTypes, NEW h \in hats, NEW e, NEW end, NEW at, NEW tm
    PROVE  Seen(h, e, end, at, tm).prev \in BOOLEAN
<1>1. card.hats[h] \in Kinds /\ prev[h] \in BOOLEAN
  BY CardIs DEF HatTypes
<1>2. \A ws, t, n : DetectsAt(h, ws, t, n) \in BOOLEAN
  <2>. TAKE ws, t, n
  <2>1. AcquiredBy(h, ws, n) \in BOOLEAN
    BY DEF AcquiredBy
  <2>. QED  BY <1>1, <2>1, DetectsIs DEF DetectsAt
<1>3. \A ws, t, n : Look(h, ws, t, n).prev \in BOOLEAN
  BY <1>2 DEF Look
<1>. QED  BY <1>1, <1>3 DEF Seen

LEMMA RecordedTypes ==
    ASSUME HatTypes, NEW ws, NEW n \in Nat, DOMAIN ws = 1..n, NEW tm, NEW drive \in BOOLEAN,
           Recorded(ws, tm, drive)
    PROVE  owed' \in [hats -> {"no", "new", "due"}] /\ spare' \in [hats -> Int]
<1>1. owed' = [h \in hats |-> IF drive /\ Rises(h, ws, tm) > 0 THEN "new" ELSE owed[h]]
      /\ spare' = [h \in hats |-> spare[h] + Rise(h, ws[1], tm) + Rises(h, ws, tm)]
  BY DEF Recorded
<1>2. \A h \in hats : owed[h] \in {"no", "new", "due"} /\ spare[h] \in Int
  BY DEF HatTypes
<1>3. \A h \in hats : spare[h] + Rise(h, ws[1], tm) + Rises(h, ws, tm) \in Int
  <2>. TAKE h \in hats
  <2>1. card.hats[h] \in Kinds
    BY CardIs DEF HatTypes
  <2>2. Rise(h, ws[1], tm) \in {0, 1} /\ Rises(h, ws, tm) \in Nat
    BY <2>1, RiseIs, RisesIs
  <2>. QED  BY <1>2, <2>2
<1>4. \A h \in hats : (IF drive /\ Rises(h, ws, tm) > 0 THEN "new" ELSE owed[h]) \in {"no", "new", "due"}
  BY <1>2
<1>. QED  BY <1>1, <1>3, <1>4

LEMMA FreshIs ==
    ASSUME HatTypes, NEW h \in hats, NEW w
    PROVE  /\ Detects(h, w, timer, h \in acquired \/ Acquires(h, w)) \in BOOLEAN
           /\ Fresh(h, w) <=> h \in latched \/ Ahead(h, w, timer)
           /\ Detects(h, w, timer, h \in acquired \/ Acquires(h, w))
                <=> Holds(h, w, timer) /\ (Loses(h) => h \in acquired)
<1>1. card.hats[h] \in Kinds /\ prev[h] \in BOOLEAN
  BY CardIs DEF HatTypes
<1>2. (h \in acquired \/ Acquires(h, w)) \in BOOLEAN
  BY <1>1, DetectsIs
<1>3. Holds(h, w, timer) => ~Acquires(h, w)
  BY <1>1, DetectsIs
<1>4. /\ Detects(h, w, timer, h \in acquired \/ Acquires(h, w)) \in BOOLEAN
      /\ Detects(h, w, timer, h \in acquired \/ Acquires(h, w))
                <=> Holds(h, w, timer) /\ (Loses(h) => h \in acquired \/ Acquires(h, w))
  BY <1>1, <1>2, DetectsIs
<1>. QED  BY <1>3, <1>4 DEF Fresh, Ahead

LEMMA TypesStep ==
    ASSUME HatTypes, Next
    PROVE  HatTypes'
<1>1. card' = card /\ hats' = hats /\ Kept /\ card \in Cards
  <2>1. Kept /\ card \in Cards
    BY StepKinds DEF HatTypes
  <2>. QED  BY <2>1 DEF Kept, hats
<1>2. /\ card' \in Cards /\ pending' \in {-1, 0, 1} /\ parked' \in ParkedType /\ back' \in Backs
  BY <1>1 DEF Kept
<1>3. /\ hats \subseteq Nat \ {0} /\ 0 \notin hats /\ Here \in WorldType /\ world \in WorldType
  BY <1>1, CardIs, HereIs DEF HatTypes
<1>4. ASSUME NEW d \in Int, NEW at \in Nat, NEW tm \in Nat, Drives(d, at, tm) PROVE HatTypes'
  <2>. DEFINE e == Length(d, at)
              end == Driven(card, Here, e)
  <2>1. e \in Int /\ (CutShort(d, at) => active # 0)
    BY LengthIs
  <2>2. /\ world' = end /\ timer' = tm
        /\ acquired' = acquired \cup {h \in hats : Seen(h, e, end, at, tm).acq}
        /\ latched' = latched \cup {h \in Latching : Seen(h, e, end, at, tm).hit}
        /\ prev' = [h \in hats |-> Seen(h, e, end, at, tm).prev]
        /\ Recorded(Course(e), tm, TRUE)
    BY <1>4 DEF Drives, Move
  <2>3. end \in WorldType
    <3>. HIDE DEF e
    <3>. QED  BY <1>3, <2>1, DrivenIs
  <2>4. prev' \in [hats -> BOOLEAN]
    BY <2>2, SeenIsTruth
  <2>5. owed' \in [hats -> {"no", "new", "due"}] /\ spare' \in [hats -> Int]
    <3>1. DOMAIN Course(e) = 1..(Apart(0, e) + 1) /\ Apart(0, e) + 1 \in Nat
      <4>. HIDE DEF e
      <4>. QED  BY <2>1, CourseIs
    <3>. QED  BY <2>2, <3>1, RecordedTypes
  <2>6. latched' \subseteq hats /\ acquired' \subseteq hats /\ active \notin latched'
    BY <2>2 DEF HatTypes, Latching
  <2>7. /\ phase \in {"block", "hat", "clock", "finish", "left"} /\ ready' = ready /\ active' = active
        /\ (phase = "hat" => phase' \in {"hat", "restart"}) /\ (phase # "hat" => phase' \in Idle)
    BY <1>4 DEF Drives
  <2>8. (phase = "hat" => active \in hats) /\ (phase # "hat" => active = 0 /\ ready = {})
    BY <2>7 DEF HatTypes, Idle, Phases
  <2>. HIDE DEF end
  <2>. QED  BY <1>1, <1>2, <1>4, <2>2, <2>3, <2>4, <2>5, <2>6, <2>7, <2>8 DEF HatTypes, Idle, Phases
<1>5. ASSUME NEW w \in WorldType, NEW tm \in Nat, Stands(w, tm) PROVE HatTypes'
  <2>1. /\ world' = w /\ timer' = tm /\ Recorded(<<Here, w>>, tm, FALSE)
        /\ prev' = prev /\ latched' = latched /\ acquired' = acquired
    BY <1>5 DEF Stands, Unmoved, hatState
  <2>2. owed' \in [hats -> {"no", "new", "due"}] /\ spare' \in [hats -> Int]
    <3>1. DOMAIN <<Here, w>> = 1..2
      OBVIOUS
    <3>. QED  BY <2>1, <3>1, RecordedTypes
  <2>3. /\ phase \in {"block", "hat", "clock"} /\ ready' = ready /\ active' = active
        /\ (phase = "hat" => phase' = "hat") /\ (phase # "hat" => phase' \in Idle)
    BY <1>5 DEF Stands
  <2>4. (phase = "hat" => active \in hats) /\ (phase # "hat" => active = 0 /\ ready = {})
    BY <2>3 DEF HatTypes, Idle, Phases
  <2>. QED  BY <1>1, <1>2, <2>1, <2>2, <2>3, <2>4 DEF HatTypes, Idle, Phases
<1>6. ASSUME NEW w \in WorldType, NEW next \in Backs, Looks(w, next) PROVE HatTypes'
  <2>1. /\ ready' = {h \in hats : Fresh(h, w)}
        /\ acquired' = acquired \cup {h \in hats \ latched : Acquires(h, w)}
        /\ prev' = [h \in hats |-> IF h \in hats \ latched
                                   THEN Detects(h, w, timer, h \in acquired \/ Acquires(h, w)) ELSE prev[h]]
        /\ owed' = [h \in hats |-> IF owed[h] = "new" THEN "due" ELSE owed[h]]
        /\ spare' = [h \in hats |-> spare[h] + Rise(h, w, timer)]
        /\ phase' = "serve" /\ latched' = latched
        /\ world' = w /\ timer' = timer /\ active' = active
    BY <1>6 DEF Looks, Check
  <2>2. \A h \in hats : Rise(h, w, timer) \in Int /\ spare[h] \in Int /\ prev[h] \in BOOLEAN
    BY <1>1, CardIs, RiseIs DEF HatTypes
  <2>3. spare' \in [hats -> Int]
    BY <2>1, <2>2
  <2>4. prev' \in [hats -> BOOLEAN]
    BY <2>1, <2>2, FreshIs
  <2>5. owed' \in [hats -> {"no", "new", "due"}]
    BY <2>1 DEF HatTypes
  <2>6. active = 0
    BY <1>6 DEF Looks, HatTypes
  <2>. QED  BY <1>1, <1>2, <1>3, <2>1, <2>3, <2>4, <2>5, <2>6 DEF HatTypes, Idle, Phases
<1>7. ASSUME Serve PROVE HatTypes'
  <2>1. /\ phase = "serve" /\ world' = world /\ timer' = timer /\ prev' = prev /\ acquired' = acquired
        /\ active = 0
    BY <1>7 DEF Serve, HatTypes
  <2>2. CASE ready = {}
    <3>1. /\ phase' = back /\ latched' = latched /\ active' = active /\ ready' = ready
          /\ owed' = owed /\ spare' = spare
      BY <1>7, <2>2 DEF Serve, history
    <3>. QED  BY <1>1, <1>2, <2>1, <2>2, <3>1 DEF HatTypes, Backs, Idle, Phases
  <2>3. CASE ready # {}
    <3>1. ready \in SUBSET Nat
      BY <1>3 DEF HatTypes
    <3>2. Min(ready) \in ready /\ Min(ready) \in hats
      BY <2>3, <3>1, MinIs DEF HatTypes
    <3>3. /\ active' = Min(ready) /\ ready' = ready \ {active'} /\ latched' = latched \ {active'}
          /\ spare' = [spare EXCEPT ![active'] = @ - 1] /\ owed' = [owed EXCEPT ![active'] = "no"]
          /\ phase' = "hat"
      BY <1>7, <2>3 DEF Serve, Fires
    <3>4. spare' \in [hats -> Int] /\ owed' \in [hats -> {"no", "new", "due"}]
      BY <3>2, <3>3 DEF HatTypes
    <3>5. latched' \subseteq hats /\ ready' \subseteq hats /\ active' \notin latched' \cup ready'
      BY <3>3 DEF HatTypes
    <3>. QED  BY <1>1, <1>2, <2>1, <3>2, <3>3, <3>4, <3>5 DEF HatTypes, Idle, Phases
  <2>. QED  BY <2>2, <2>3
<1>8. ASSUME HatOver, phase \in {"hat", "restart"} PROVE
        /\ active' = 0 /\ phase' = "serve" /\ prev' \in [hats -> BOOLEAN] /\ acquired' \subseteq hats
  <2>1. active \in hats
    BY <1>8 DEF HatTypes
  <2>2. Detects(active, world, timer, active \in acquired \/ Acquires(active, world)) \in BOOLEAN
    BY <2>1, FreshIs
  <2>. QED  BY <1>8, <2>1, <2>2 DEF HatOver, HatTypes
<1>9. ASSUME HatEnd PROVE HatTypes'
  <2>1. /\ phase = "hat" /\ world' = world /\ timer' = timer /\ latched' = latched /\ ready' = ready
        /\ owed' = owed /\ spare' = spare /\ HatOver
    BY <1>9 DEF HatEnd, history
  <2>. QED  BY <1>1, <1>2, <1>3, <1>8, <2>1 DEF HatTypes, Idle, Phases
<1>10. ASSUME Restart PROVE HatTypes'
  <2>1. /\ phase = "restart" /\ world' = world /\ timer' = timer /\ latched' = latched /\ ready' = ready
        /\ active \in hats
    BY <1>10 DEF Restart, HatTypes
  <2>2. CASE restarts' >= Unroll
    <3>1. HatOver /\ owed' = [owed EXCEPT ![active] = "no"] /\ spare' = spare
      BY <1>10, <2>2 DEF Restart
    <3>. QED  BY <1>1, <1>2, <1>3, <1>8, <2>1, <3>1 DEF HatTypes, Idle, Phases
  <2>3. CASE ~(restarts' >= Unroll)
    <3>1. /\ phase' = "hat" /\ spare' = [spare EXCEPT ![active] = @ - 1]
          /\ owed' = [owed EXCEPT ![active] = "no"]
          /\ active' = active /\ acquired' = acquired /\ prev' = prev
      BY <1>10, <2>3 DEF Restart, Fires
    <3>2. spare' \in [hats -> Int] /\ owed' \in [hats -> {"no", "new", "due"}]
      BY <2>1, <3>1 DEF HatTypes
    <3>. QED  BY <1>1, <1>2, <2>1, <3>1, <3>2 DEF HatTypes, Idle, Phases
  <2>. QED  BY <2>2, <2>3
<1>11. ASSUME Rests PROVE HatTypes'
  <2>1. /\ phase \in Idle \cup {"hat"} /\ phase' \in Idle \cup {"stopped"}
        /\ phase = "hat" => phase' = "stopped"
        /\ world' = world /\ timer' = timer /\ ready' = ready /\ active' = active
        /\ prev' = prev /\ latched' = latched /\ acquired' = acquired
        /\ owed' = owed /\ spare' = spare
    BY <1>11 DEF Rests
  <2>. QED  BY <1>1, <1>2, <2>1 DEF HatTypes, Idle, Phases
<1>. QED  BY <1>4, <1>5, <1>6, <1>7, <1>9, <1>10, <1>11, StepKinds

-----------------------------------------------------------------------------
(***************************************************************************)
(* What is owed to the hats, and what their conditions have earned them.   *)
(***************************************************************************)
Restarting(h) == phase = "restart" /\ h = active
Claimed(h) == h \in latched \cup ready \/ Restarting(h)
\* The hat's condition holds and the next look at it will be its first.
Missed(h) == Ahead(h, world, timer)

Owing ==
    phase # "stopped" => \A h \in hats :
        /\ owed[h] = "due" => h \in ready
        /\ owed[h] = "new" => h \in latched \/ Restarting(h)

Covered ==
    \A h \in hats :
        spare[h] >= (IF Claimed(h) THEN 1 ELSE 0) + (IF Missed(h) THEN 1 ELSE 0)

LEMMA DriveKeeps ==
    ASSUME HatTypes, ~card.push, Owing, Covered, Kept, NEW d \in Int, NEW at \in Nat, NEW tm \in Nat, Drives(d, at, tm)
    PROVE  Owing' /\ Covered'
<1>. DEFINE e == Length(d, at)
            end == Driven(card, Here, e)
            rises(h) == Rises(h, Course(e), tm)
<1>1. card' = card /\ hats' = hats
  BY DEF Kept, hats
<1>2. /\ e \in Int
      /\ (CutShort(d, at) => active # 0)
  BY LengthIs
<1>3. /\ world' = end /\ timer' = tm
      /\ acquired' = acquired \cup {h \in hats : Seen(h, e, end, at, tm).acq}
      /\ latched' = latched \cup {h \in Latching : Seen(h, e, end, at, tm).hit}
      /\ prev' = [h \in hats |-> Seen(h, e, end, at, tm).prev]
      /\ owed' = [h \in hats |-> IF TRUE /\ rises(h) > 0 THEN "new" ELSE owed[h]]
      /\ spare' = [h \in hats |-> spare[h] + Rise(h, Course(e)[1], tm) + rises(h)]
  BY DEF Drives, Move, Recorded
<1>4. /\ ready' = ready /\ active' = active /\ phase \in {"block", "hat", "clock", "finish", "left"}
      /\ at \in {timer, tm}
      /\ phase = "hat" => phase' = IF CutShort(d, at) THEN "restart" ELSE "hat"
      /\ phase # "hat" => phase' \in Idle
  BY DEF Drives
<1>5. /\ phase = "hat" => active \in hats
      /\ phase # "hat" => active = 0 /\ ready = {}
      /\ active \notin latched \cup ready /\ phase # "stopped" /\ phase # "restart"
  BY <1>4 DEF HatTypes, Idle, Phases
<1>6. 0 \notin hats
  BY CardIs DEF HatTypes
<1>7. Course(e)[1] = Here /\ \A h \in hats : rises(h) \in Nat
  <2>. DEFINE n == Apart(0, e) + 1
  <2>1. Course(e)[1] = Here /\ n \in Nat /\ DOMAIN Course(e) = 1..n
    <3>. HIDE DEF e
    <3>. QED  BY <1>2, CourseIs
  <2>. QED  BY <2>1, RisesIs
<1>8. \A h \in hats : /\ card.hats[h] \in Kinds /\ spare[h] \in Int
                      /\ Rise(h, Here, tm) \in {0, 1}
                      /\ Rise(h, Here, tm) = 1 <=> Holds(h, Here, tm) /\ ~Holds(h, world, timer)
  BY CardIs, RiseIs DEF HatTypes
<1>. HIDE DEF rises
<1>9. \A h \in hats : /\ prev'[h] = Seen(h, e, end, at, tm).prev
                      /\ h \in acquired' <=> h \in acquired \/ Seen(h, e, end, at, tm).acq
                      /\ owed'[h] = IF rises(h) > 0 THEN "new" ELSE owed[h]
                      /\ spare'[h] = spare[h] + Rise(h, Here, tm) + rises(h)
                      /\ Holds(h, world, timer)' <=> Holds(h, end, tm)
                      /\ Loses(h)' <=> Loses(h)
                      /\ Missed(h)' <=> Holds(h, end, tm) /\ ~prev'[h] /\ (Loses(h) => h \in acquired')
  <2>. TAKE h \in hats
  <2>1. Holds(h, world, timer)' <=> Holds(h, end, tm)
    BY <1>1, <1>3 DEF Holds, Detects
  <2>2. Loses(h)' <=> Loses(h)
    BY <1>1 DEF Loses
  <2>3. Missed(h)' <=> Holds(h, end, tm) /\ ~prev'[h] /\ (Loses(h) => h \in acquired')
    BY <2>1, <2>2 DEF Missed, Ahead
  <2>. HIDE DEF e, end
  <2>. QED  BY <1>3, <1>7, <2>1, <2>2, <2>3
<1>10. ASSUME NEW h \in hats, h # active
       PROVE  /\ owed'[h] = "due" => h \in ready'
              /\ owed'[h] = "new" => h \in latched'
              /\ ~Missed(h)'
              /\ spare'[h] >= IF h \in latched' \cup ready' THEN 1 ELSE 0
  <2>1. /\ h \in acquired => Seen(h, e, end, at, tm).acq
        /\ Seen(h, e, end, at, tm).prev <=> Holds(h, end, tm) /\ (Loses(h) => Seen(h, e, end, at, tm).acq)
        /\ rises(h) > 0 => Seen(h, e, end, at, tm).hit
        /\ Seen(h, e, end, at, tm).hit => rises(h) > 0 \/ Ahead(h, Here, tm)
    <3>1. h \in hats \ {active}
      BY <1>10
    <3>. HIDE DEF e
    <3>. QED  BY <1>2, <3>1, LatchingSees DEF rises
  <2>2. h \in latched' <=> h \in latched \/ Seen(h, e, end, at, tm).hit
    BY <1>3, <1>10 DEF Latching
  <2>3. /\ owed[h] = "due" => h \in ready
        /\ owed[h] = "new" => h \in latched
    BY <1>5, <1>10 DEF Owing, Restarting
  <2>4. ~Missed(h)'
    BY <1>9, <2>1
  <2>5. spare[h] >= (IF h \in latched \cup ready THEN 1 ELSE 0) + (IF Missed(h) THEN 1 ELSE 0)
    BY <1>5, <1>10 DEF Covered, Claimed, Restarting
  <2>6. Ahead(h, Here, tm) => Missed(h) \/ Rise(h, Here, tm) = 1
    BY <1>8 DEF Missed, Ahead
  <2>. HIDE DEF e, end
  <2>7. spare'[h] >= IF h \in latched' \cup ready' THEN 1 ELSE 0
    BY <1>4, <1>7, <1>8, <1>9, <2>1, <2>2, <2>5, <2>6
  <2>. QED  BY <1>4, <1>9, <2>1, <2>2, <2>3, <2>4, <2>7
<1>11. ASSUME NEW h \in hats, h = active
       PROVE  /\ owed'[h] # "due"
              /\ owed'[h] = "new" => CutShort(d, at)
              /\ spare'[h] >= (IF CutShort(d, at) THEN 1 ELSE 0) + (IF Missed(h)' THEN 1 ELSE 0)
  <2>1. /\ h \in acquired => Seen(h, e, end, at, tm).acq
        /\ Seen(h, e, end, at, tm).prev <=> Holds(h, end, at) /\ (Loses(h) => Seen(h, e, end, at, tm).acq)
        /\ ~CutShort(d, at) => ~(rises(h) > 0)
        /\ CutShort(d, at) => Seen(h, e, end, at, tm).prev /\ (rises(h) > 0 \/ Ahead(h, Here, at))
    BY <1>11, ActiveSees DEF rises
  <2>2. owed[h] # "due" /\ owed[h] # "new"
    BY <1>5, <1>11 DEF Owing, Restarting
  <2>3. spare[h] >= IF Missed(h) THEN 1 ELSE 0
    BY <1>8, <1>11 DEF Covered, Claimed
  <2>. HIDE DEF e, end
  <2>4. h \in hats
    BY <1>11
  <2>5. CASE CutShort(d, at)
    <3>1. ~Missed(h)'
      BY <1>9, <2>1, <2>4, <2>5
    <3>2. Ahead(h, Here, at) => Missed(h) \/ Rise(h, Here, tm) = 1
      <4>1. CASE at = tm
        BY <1>8, <2>4, <4>1 DEF Missed, Ahead
      <4>2. CASE at = timer /\ card.hats[h] = "timer"
        BY <1>8, <2>4, <4>2, HoldsIs DEF Missed, Ahead
      <4>3. CASE at = timer /\ card.hats[h] # "timer"
        BY <1>8, <2>4, <4>3, HoldsIs DEF Missed, Ahead
      <4>. QED  BY <1>4, <4>1, <4>2, <4>3
    <3>3. spare'[h] >= 1
      BY <1>7, <1>8, <1>9, <2>1, <2>3, <2>4, <2>5, <3>2
    <3>4. owed'[h] # "due"
      BY <1>9, <2>2, <2>4
    <3>. QED  BY <2>5, <3>1, <3>3, <3>4
  <2>6. CASE ~CutShort(d, at)
    <3>1. Missed(h)' => Rise(h, Here, tm) = 1
      <4>1. SUFFICES ASSUME Missed(h)' PROVE Rise(h, Here, tm) = 1
        OBVIOUS
      <4>2. /\ Holds(h, end, tm) /\ ~Seen(h, e, end, at, tm).prev
            /\ Loses(h) => Seen(h, e, end, at, tm).acq
        BY <1>9, <2>1, <2>4, <4>1
      <4>3. ~Holds(h, end, timer)
        BY <1>4, <2>1, <4>2
      <4>4. card.hats[h] = "timer"
        BY <1>8, <2>4, <4>2, <4>3, HoldsIs
      <4>5. Holds(h, Here, tm) /\ ~Holds(h, world, timer)
        BY <1>8, <2>4, <4>2, <4>3, <4>4, HoldsIs
      <4>. QED  BY <1>8, <2>4, <4>5
    <3>2. spare'[h] >= IF Missed(h)' THEN 1 ELSE 0
      BY <1>7, <1>8, <1>9, <2>3, <2>4, <3>1
    <3>3. owed'[h] # "due" /\ owed'[h] # "new"
      BY <1>9, <2>1, <2>2, <2>4, <2>6
    <3>. QED  BY <2>6, <3>2, <3>3
  <2>. QED  BY <2>5, <2>6
<1>12. \A h \in hats : /\ Restarting(h)' <=> h = active /\ CutShort(d, at)
                       /\ Claimed(h)' <=> h \in latched' \cup ready' \/ Restarting(h)'
  <2>1. phase' = "restart" <=> active # 0 /\ CutShort(d, at)
    BY <1>2, <1>4, <1>5, <1>6 DEF Idle
  <2>. QED  BY <1>4, <1>6, <2>1 DEF Restarting, Claimed
<1>13. active \in hats => active \notin latched' \cup ready'
  BY <1>3, <1>4, <1>5 DEF Latching
<1>. HIDE DEF e, end
<1>14. Owing'
  <2>. SUFFICES ASSUME NEW h \in hats
                PROVE  /\ owed'[h] = "due" => h \in ready'
                       /\ owed'[h] = "new" => h \in latched' \/ Restarting(h)'
    BY <1>1 DEF Owing
  <2>1. CASE h # active
    BY <1>10, <2>1
  <2>2. CASE h = active
    BY <1>11, <1>12, <2>2
  <2>. QED  BY <2>1, <2>2
<1>15. Covered'
  <2>. SUFFICES ASSUME NEW h \in hats
                PROVE  spare'[h] >= (IF Claimed(h)' THEN 1 ELSE 0) + (IF Missed(h)' THEN 1 ELSE 0)
    BY <1>1 DEF Covered
  <2>1. CASE h # active
    <3>1. /\ ~Missed(h)' /\ (Claimed(h)' <=> h \in latched' \cup ready')
          /\ spare'[h] >= IF h \in latched' \cup ready' THEN 1 ELSE 0
      BY <1>10, <1>12, <2>1
    <3>2. CASE h \in latched' \cup ready'
      BY <3>1, <3>2
    <3>3. CASE h \notin latched' \cup ready'
      BY <3>1, <3>3
    <3>. QED  BY <3>2, <3>3
  <2>2. CASE h = active
    BY <1>11, <1>12, <1>13, <2>2
  <2>. QED  BY <2>1, <2>2
<1>. QED  BY <1>14, <1>15

LEMMA StandKeeps ==
    ASSUME HatTypes, Owing, Covered, Kept, NEW w \in WorldType, NEW tm \in Nat, Stands(w, tm)
    PROVE  Owing' /\ Covered'
<1>. DEFINE rises(h) == Rises(h, <<Here, w>>, tm)
<1>1. card' = card /\ hats' = hats
  BY DEF Kept, hats
<1>2. /\ world' = w /\ timer' = tm
      /\ prev' = prev /\ latched' = latched /\ acquired' = acquired
      /\ owed' = [h \in hats |-> IF FALSE /\ rises(h) > 0 THEN "new" ELSE owed[h]]
      /\ spare' = [h \in hats |-> spare[h] + Rise(h, <<Here, w>>[1], tm) + rises(h)]
  BY DEF Stands, Unmoved, Recorded, hatState
<1>3. /\ ready' = ready /\ active' = active /\ phase \in {"block", "hat", "clock"}
      /\ phase # "restart" /\ phase' # "restart" /\ phase # "stopped"
  BY DEF Stands, Idle
<1>4. \A h \in hats : /\ rises(h) \in Nat
                      /\ rises(h) > 0 <=> Holds(h, w, tm) /\ ~Holds(h, Here, tm)
  <2>. TAKE h \in hats
  <2>1. DOMAIN <<Here, w>> = 1..2 /\ 2..2 = {2} /\ <<Here, w>>[2] = w /\ <<Here, w>>[2 - 1] = Here
    OBVIOUS
  <2>2. rises(h) \in Nat /\ (rises(h) > 0
          <=> \E i \in 2..2 : Holds(h, <<Here, w>>[i], tm) /\ ~Holds(h, <<Here, w>>[i - 1], tm))
    BY <2>1, RisesIs
  <2>. QED  BY <2>1, <2>2
<1>. HIDE DEF rises
<1>5. ASSUME NEW h \in hats
      PROVE  /\ owed'[h] = owed[h]
             /\ Claimed(h)' <=> Claimed(h)
             /\ Restarting(h)' <=> Restarting(h)
             /\ spare'[h] = spare[h] + Rise(h, Here, tm) + rises(h)
             /\ Missed(h)' <=> Ahead(h, w, tm)
  <2>1. Missed(h)' <=> Ahead(h, w, tm)
    BY <1>1, <1>2 DEF Missed, Ahead, Holds, Detects, Loses
  <2>. QED  BY <1>2, <1>3, <2>1 DEF Claimed, Restarting
<1>6. Owing'
  BY <1>1, <1>2, <1>3, <1>5 DEF Owing
<1>7. Covered'
  <2>. SUFFICES ASSUME NEW h \in hats
                PROVE  spare'[h] >= (IF Claimed(h)' THEN 1 ELSE 0) + (IF Missed(h)' THEN 1 ELSE 0)
    BY <1>1 DEF Covered
  <2>1. spare[h] >= (IF Claimed(h) THEN 1 ELSE 0) + (IF Missed(h) THEN 1 ELSE 0)
    BY DEF Covered
  <2>2. card.hats[h] \in Kinds /\ spare[h] \in Int
    BY CardIs DEF HatTypes
  <2>3. Rise(h, Here, tm) \in {0, 1}
        /\ (Rise(h, Here, tm) = 1 <=> Holds(h, Here, tm) /\ ~Holds(h, world, timer))
    BY <2>2, RiseIs
  <2>4. Missed(h)' => Missed(h) \/ Rise(h, Here, tm) = 1 \/ rises(h) > 0
    BY <1>4, <1>5, <2>3 DEF Missed, Ahead
  <2>. HIDE DEF Claimed, Missed
  <2>. QED  BY <1>4, <1>5, <2>1, <2>2, <2>3, <2>4
<1>. QED  BY <1>6, <1>7

LEMMA LookKeeps ==
    ASSUME HatTypes, Owing, Covered, Kept, NEW w \in WorldType, NEW next, Looks(w, next)
    PROVE  Owing' /\ Covered'
<1>1. card' = card /\ hats' = hats
  BY DEF Kept, hats
<1>2. /\ ready' = {h \in hats : Fresh(h, w)}
      /\ acquired' = acquired \cup {h \in hats \ latched : Acquires(h, w)}
      /\ prev' = [h \in hats |-> IF h \in hats \ latched
                                 THEN Detects(h, w, timer, h \in acquired \/ Acquires(h, w)) ELSE prev[h]]
      /\ owed' = [h \in hats |-> IF owed[h] = "new" THEN "due" ELSE owed[h]]
      /\ spare' = [h \in hats |-> spare[h] + Rise(h, w, timer)]
      /\ phase' = "serve" /\ latched' = latched
      /\ world' = w /\ timer' = timer /\ active' = active
  BY DEF Looks, Check
<1>3. phase \in Idle /\ ready = {} /\ phase # "stopped" /\ phase # "restart"
  BY DEF Looks, HatTypes, Idle
<1>4. ASSUME NEW h \in hats
      PROVE  /\ card.hats[h] \in Kinds /\ spare[h] \in Int
             /\ Rise(h, w, timer) \in {0, 1}
             /\ Rise(h, w, timer) = 1 <=> Holds(h, w, timer) /\ ~Holds(h, world, timer)
             /\ Fresh(h, w) <=> h \in latched \/ Ahead(h, w, timer)
             /\ Ahead(h, w, timer) => Missed(h) \/ Rise(h, w, timer) = 1
             /\ Missed(h)' <=> Holds(h, w, timer) /\ ~prev'[h] /\ (Loses(h) => h \in acquired')
  <2>1. card.hats[h] \in Kinds /\ spare[h] \in Int
    BY CardIs DEF HatTypes
  <2>2. Rise(h, w, timer) \in {0, 1}
        /\ (Rise(h, w, timer) = 1 <=> Holds(h, w, timer) /\ ~Holds(h, world, timer))
    BY <2>1, RiseIs
  <2>3. Ahead(h, w, timer) => Missed(h) \/ Rise(h, w, timer) = 1
    BY <2>2 DEF Ahead, Missed
  <2>4. Missed(h)' <=> Holds(h, w, timer) /\ ~prev'[h] /\ (Loses(h) => h \in acquired')
    BY <1>1, <1>2 DEF Missed, Ahead, Holds, Detects, Loses
  <2>. QED  BY <2>1, <2>2, <2>3, <2>4, FreshIs
<1>5. Owing'
  <2>. SUFFICES ASSUME NEW h \in hats
                PROVE  (owed'[h] = "due" => h \in ready') /\ owed'[h] # "new"
    BY <1>1 DEF Owing
  <2>1. owed[h] # "due" /\ (owed[h] = "new" => h \in latched)
    BY <1>3 DEF Owing, Restarting
  <2>. QED  BY <1>2, <1>4, <2>1
<1>6. Covered'
  <2>. SUFFICES ASSUME NEW h \in hats
                PROVE  spare'[h] >= (IF Claimed(h)' THEN 1 ELSE 0) + (IF Missed(h)' THEN 1 ELSE 0)
    BY <1>1 DEF Covered
  <2>1. spare[h] >= (IF h \in latched THEN 1 ELSE 0) + (IF Missed(h) THEN 1 ELSE 0)
    BY <1>3 DEF Covered, Claimed, Restarting
  <2>2. Claimed(h)' <=> h \in latched \/ Ahead(h, w, timer)
    BY <1>2, <1>4 DEF Claimed, Restarting
  <2>3. spare'[h] = spare[h] + Rise(h, w, timer)
    BY <1>2
  <2>4. CASE h \in latched
    <3>1. prev'[h] = prev[h] /\ (h \in acquired' <=> h \in acquired)
      BY <1>2, <2>4
    <3>2. Missed(h)' => Missed(h) \/ Rise(h, w, timer) = 1
      BY <1>4, <3>1 DEF Ahead
    <3>. HIDE DEF Claimed, Missed
    <3>. QED  BY <1>4, <2>1, <2>2, <2>3, <2>4, <3>2
  <2>5. CASE h \notin latched
    <3>1. /\ prev'[h] <=> Holds(h, w, timer) /\ (Loses(h) => h \in acquired)
          /\ h \in acquired' <=> h \in acquired \/ Acquires(h, w)
      BY <1>2, <2>5, FreshIs
    <3>2. ~Missed(h)'
      <4>1. Holds(h, w, timer) => ~Acquires(h, w)
        BY <1>4, DetectsIs
      <4>. QED  BY <1>4, <3>1, <4>1
    <3>. HIDE DEF Claimed, Missed
    <3>. QED  BY <1>4, <2>1, <2>2, <2>3, <2>5, <3>2
  <2>. QED  BY <2>4, <2>5
<1>. QED  BY <1>5, <1>6

LEMMA ServeKeeps ==
    ASSUME HatTypes, Owing, Covered, Kept, Serve
    PROVE  Owing' /\ Covered'
<1>1. card' = card /\ hats' = hats
  BY DEF Kept, hats
<1>2. /\ phase = "serve" /\ world' = world /\ timer' = timer /\ prev' = prev /\ acquired' = acquired
      /\ active = 0
  BY DEF Serve, HatTypes
<1>3. \A h \in hats : /\ Missed(h)' <=> Missed(h)
                      /\ owed[h] = "due" => h \in ready
                      /\ owed[h] = "new" => h \in latched
                      /\ spare[h] \in Int
                      /\ spare[h] >= (IF h \in latched \cup ready THEN 1 ELSE 0) + (IF Missed(h) THEN 1 ELSE 0)
  <2>1. \A h \in hats : Missed(h)' <=> Missed(h)
    BY <1>1, <1>2 DEF Missed, Ahead, Holds, Detects, Loses
  <2>. QED  BY <1>2, <2>1 DEF Owing, Covered, Claimed, Restarting, HatTypes
<1>4. CASE ready = {}
  <2>1. /\ phase' = back /\ latched' = latched /\ active' = active /\ ready' = ready
        /\ owed' = owed /\ spare' = spare /\ back \in Backs
    BY <1>4 DEF Serve, history, HatTypes
  <2>2. phase' # "restart"
    BY <2>1 DEF Backs
  <2>3. \A h \in hats : Claimed(h)' <=> h \in latched \cup ready
    BY <2>1, <2>2 DEF Claimed, Restarting
  <2>. HIDE DEF Missed, Claimed
  <2>. QED  BY <1>1, <1>3, <2>1, <2>3 DEF Owing, Covered
<1>5. CASE ready # {}
  <2>1. Min(ready) \in ready /\ Min(ready) \in hats
    <3>1. ready \in SUBSET Nat
      BY CardIs DEF HatTypes
    <3>. QED  BY <1>5, <3>1, MinIs DEF HatTypes
  <2>2. PICK a \in hats : a \in ready /\ a = Min(ready)
    BY <2>1
  <2>3. /\ active' = a /\ ready' = ready \ {a} /\ latched' = latched \ {a}
        /\ spare' = [spare EXCEPT ![a] = @ - 1] /\ owed' = [owed EXCEPT ![a] = "no"]
        /\ phase' = "hat"
    BY <1>5, <2>2 DEF Serve, Fires
  <2>4. \A h \in hats : /\ owed'[h] = IF h = a THEN "no" ELSE owed[h]
                        /\ spare'[h] = IF h = a THEN spare[h] - 1 ELSE spare[h]
                        /\ Claimed(h)' <=> h # a /\ h \in latched \cup ready
    BY <2>3 DEF Claimed, Restarting, HatTypes
  <2>5. Owing'
    BY <1>1, <1>3, <2>3, <2>4 DEF Owing
  <2>6. Covered'
    <3>. SUFFICES ASSUME NEW h \in hats
                  PROVE  spare'[h] >= (IF Claimed(h)' THEN 1 ELSE 0) + (IF Missed(h)' THEN 1 ELSE 0)
      BY <1>1 DEF Covered
    <3>1. /\ spare[h] >= (IF h \in latched \cup ready THEN 1 ELSE 0) + (IF Missed(h) THEN 1 ELSE 0)
          /\ spare[h] \in Int /\ (Missed(h)' <=> Missed(h))
      BY <1>3
    <3>2. /\ spare'[h] = IF h = a THEN spare[h] - 1 ELSE spare[h]
          /\ Claimed(h)' <=> h # a /\ h \in latched \cup ready
      BY <2>4
    <3>. HIDE DEF Missed, Claimed
    <3>3. CASE h = a
      BY <2>2, <3>1, <3>2, <3>3
    <3>4. CASE h # a
      BY <3>1, <3>2, <3>4
    <3>. QED  BY <3>3, <3>4
  <2>. QED  BY <2>5, <2>6
<1>. QED  BY <1>4, <1>5

\* The stack that ends leaves its hat with the truth of the moment.
LEMMA OverForgets ==
    ASSUME HatTypes, Kept, HatOver, active \in hats, world' = world, timer' = timer,
           NEW h \in hats
    PROVE  Missed(h)' <=> h # active /\ Missed(h)
<1>1. card' = card
  BY DEF Kept
<1>2. /\ acquired' = acquired \cup (IF Acquires(active, world) THEN {active} ELSE {})
      /\ prev' = [prev EXCEPT ![active] = Detects(active, world, timer, active \in acquired \/ Acquires(active, world))]
      /\ prev \in [hats -> BOOLEAN]
  BY DEF HatOver, HatTypes
<1>3. Missed(h)' <=> Holds(h, world, timer) /\ ~prev'[h] /\ (Loses(h) => h \in acquired')
  BY <1>1 DEF Missed, Ahead, Holds, Detects, Loses
<1>4. CASE h # active
  <2>1. prev'[h] = prev[h] /\ (h \in acquired' <=> h \in acquired)
    BY <1>2, <1>4
  <2>. QED  BY <1>3, <1>4, <2>1 DEF Missed, Ahead
<1>5. CASE h = active
  <2>1. /\ prev'[h] <=> Holds(h, world, timer) /\ (Loses(h) => h \in acquired)
        /\ h \in acquired' <=> h \in acquired \/ Acquires(h, world)
    BY <1>2, <1>5, FreshIs
  <2>2. Holds(h, world, timer) => ~Acquires(h, world)
    BY CardIs, DetectsIs DEF HatTypes
  <2>. QED  BY <1>3, <1>5, <2>1, <2>2
<1>. QED  BY <1>4, <1>5

LEMMA EndKeeps ==
    ASSUME HatTypes, Owing, Covered, Kept, HatEnd \/ Restart
    PROVE  Owing' /\ Covered'
<1>1. card' = card /\ hats' = hats
  BY DEF Kept, hats
<1>2. /\ world' = world /\ timer' = timer /\ latched' = latched /\ ready' = ready
      /\ phase \in {"hat", "restart"} /\ active \in hats /\ active \notin latched \cup ready
  BY DEF HatEnd, Restart, HatTypes
<1>3. PICK a \in hats : a = active
  BY <1>2
<1>4. \A h \in hats : /\ spare[h] \in Int
                      /\ spare[h] >= (IF Claimed(h) THEN 1 ELSE 0) + (IF Missed(h) THEN 1 ELSE 0)
                      /\ owed[h] = "due" => h \in ready
                      /\ owed[h] = "new" => h \in latched \/ Restarting(h)
                      /\ Claimed(h) <=> h \in latched \cup ready \/ (phase = "restart" /\ h = a)
                      /\ Restarting(h) <=> phase = "restart" /\ h = a
  BY <1>2, <1>3 DEF HatTypes, Covered, Owing, Claimed, Restarting
<1>5. CASE HatOver /\ (\A h \in hats : owed'[h] = owed[h] \/ (h = a /\ owed'[h] = "no")) /\ spare' = spare
           /\ (phase = "restart" => owed'[a] = "no")
  <2>1. \A h \in hats : Missed(h)' <=> h # a /\ Missed(h)
    BY <1>2, <1>3, <1>5, OverForgets
  <2>2. phase' = "serve"
    BY <1>5 DEF HatOver
  <2>3. \A h \in hats : (Claimed(h)' <=> h \in latched \cup ready) /\ ~Restarting(h)'
    BY <1>2, <2>2 DEF Claimed, Restarting
  <2>4. Owing'
    <3>. SUFFICES ASSUME NEW h \in hats
                  PROVE  /\ owed'[h] = "due" => h \in ready'
                         /\ owed'[h] = "new" => h \in latched'
      BY <1>1 DEF Owing
    <3>1. owed'[h] = owed[h] \/ owed'[h] = "no"
      BY <1>5
    <3>2. owed'[h] = "new" => ~Restarting(h)
      BY <1>4, <1>5
    <3>. QED  BY <1>2, <1>4, <3>1, <3>2
  <2>5. Covered'
    <3>. SUFFICES ASSUME NEW h \in hats
                  PROVE  spare'[h] >= (IF Claimed(h)' THEN 1 ELSE 0) + (IF Missed(h)' THEN 1 ELSE 0)
      BY <1>1 DEF Covered
    <3>1. spare'[h] = spare[h] /\ (Claimed(h)' => Claimed(h)) /\ (Missed(h)' => Missed(h))
      BY <1>4, <1>5, <2>1, <2>3
    <3>2. spare[h] \in Int /\ spare[h] >= (IF Claimed(h) THEN 1 ELSE 0) + (IF Missed(h) THEN 1 ELSE 0)
      BY <1>4
    <3>. HIDE DEF Missed, Claimed
    <3>. QED  BY <3>1, <3>2
  <2>. QED  BY <2>4, <2>5
<1>6. CASE /\ phase = "restart" /\ phase' = "hat" /\ active' = active
           /\ spare' = [spare EXCEPT ![a] = @ - 1] /\ owed' = [owed EXCEPT ![a] = "no"]
           /\ acquired' = acquired /\ prev' = prev
  <2>1. \A h \in hats : /\ Missed(h)' <=> Missed(h)
                        /\ owed'[h] = IF h = a THEN "no" ELSE owed[h]
                        /\ spare'[h] = IF h = a THEN spare[h] - 1 ELSE spare[h]
                        /\ Claimed(h)' <=> h \in latched \cup ready
                        /\ ~Restarting(h)'
    <3>1. \A h \in hats : Missed(h)' <=> Missed(h)
      BY <1>1, <1>2, <1>6 DEF Missed, Ahead, Holds, Detects, Loses
    <3>. QED  BY <1>2, <1>6, <3>1 DEF Claimed, Restarting, HatTypes
  <2>2. Owing'
    BY <1>1, <1>2, <1>4, <2>1 DEF Owing
  <2>3. Covered'
    <3>. SUFFICES ASSUME NEW h \in hats
                  PROVE  spare'[h] >= (IF Claimed(h)' THEN 1 ELSE 0) + (IF Missed(h)' THEN 1 ELSE 0)
      BY <1>1 DEF Covered
    <3>1. spare[h] \in Int /\ spare[h] >= (IF Claimed(h) THEN 1 ELSE 0) + (IF Missed(h) THEN 1 ELSE 0)
      BY <1>4
    <3>2. /\ Claimed(h)' <=> Claimed(h) /\ h # a
          /\ h = a => Claimed(h)
      BY <1>2, <1>3, <1>4, <1>6, <2>1
    <3>. HIDE DEF Missed, Claimed
    <3>3. CASE h = a
      BY <2>1, <3>1, <3>2, <3>3
    <3>4. CASE h # a
      BY <2>1, <3>1, <3>2, <3>4
    <3>. QED  BY <3>3, <3>4
  <2>. QED  BY <2>2, <2>3
<1>7. CASE HatEnd
  <2>1. HatOver /\ owed' = owed /\ spare' = spare /\ phase = "hat"
    BY <1>7 DEF HatEnd, history
  <2>. QED  BY <1>5, <2>1
<1>8. CASE Restart
  <2>1. phase = "restart"
    BY <1>8 DEF Restart
  <2>2. CASE restarts' >= Unroll
    <3>1. HatOver /\ owed' = [owed EXCEPT ![a] = "no"] /\ spare' = spare
      BY <1>3, <1>8, <2>2 DEF Restart
    <3>2. \A h \in hats : owed'[h] = IF h = a THEN "no" ELSE owed[h]
      BY <3>1 DEF HatTypes
    <3>. QED  BY <1>5, <3>1, <3>2
  <2>3. CASE ~(restarts' >= Unroll)
    BY <1>3, <1>6, <1>8, <2>1, <2>3 DEF Restart, Fires
  <2>. QED  BY <2>2, <2>3
<1>. QED  BY <1>7, <1>8

LEMMA RestKeeps ==
    ASSUME HatTypes, Owing, Covered, Kept, Rests
    PROVE  Owing' /\ Covered'
<1>1. card' = card /\ hats' = hats
  BY DEF Kept, hats
<1>2. /\ phase \in Idle \cup {"hat"} /\ phase' \in Idle \cup {"stopped"}
      /\ world' = world /\ timer' = timer /\ ready' = ready /\ active' = active
      /\ prev' = prev /\ latched' = latched /\ acquired' = acquired
      /\ owed' = owed /\ spare' = spare
  BY DEF Rests
<1>3. phase # "restart" /\ phase' # "restart" /\ phase # "stopped"
  BY <1>2 DEF Idle
<1>4. \A h \in hats : (Missed(h)' <=> Missed(h)) /\ (Claimed(h)' <=> Claimed(h))
                      /\ ~Restarting(h) /\ ~Restarting(h)'
  <2>1. \A h \in hats : Missed(h)' <=> Missed(h)
    BY <1>1, <1>2 DEF Missed, Ahead, Holds, Detects, Loses
  <2>. QED  BY <1>2, <1>3, <2>1 DEF Claimed, Restarting
<1>. HIDE DEF Missed, Claimed, Restarting
<1>. QED  BY <1>1, <1>2, <1>3, <1>4 DEF Owing, Covered

-----------------------------------------------------------------------------
(***************************************************************************)
(* The theorems about the hats.                                            *)
(***************************************************************************)
HatInv == HatTypes /\ (~card.push => Owing /\ Covered)

LEMMA HatInit ==
    ASSUME Init
    PROVE  HatInv
<1>1. /\ card \in Cards /\ world = AdvanceWorld(card, NewWorld(card))
      /\ timer = 0 /\ pending = 0 /\ parked = NotParked
      /\ prev = [h \in hats |-> FALSE]
      /\ latched = {} /\ acquired = {} /\ ready = {} /\ active = 0
      /\ phase = "main" /\ back = "main"
      /\ owed = [h \in hats |-> "no"]
      /\ spare = [h \in hats |-> IF card.hats[h] # "loses" /\ Holds(h, world, 0) THEN 1 ELSE 0]
  BY DEF Init
<1>2. world \in WorldType
  BY <1>1, CardIs, NewWorldIs, WorldAdvances
<1>3. HatTypes
  BY <1>1, <1>2, CardIs DEF HatTypes, Phases, Idle, Backs, ParkedType, NotParked
<1>4. Owing
  BY <1>1 DEF Owing
<1>5. Covered
  <2>. SUFFICES ASSUME NEW h \in hats
                PROVE  spare[h] >= (IF Claimed(h) THEN 1 ELSE 0) + (IF Missed(h) THEN 1 ELSE 0)
    BY DEF Covered
  <2>1. ~Claimed(h)
    BY <1>1 DEF Claimed, Restarting
  <2>2. Missed(h) <=> Holds(h, world, 0) /\ card.hats[h] # "loses"
    BY <1>1 DEF Missed, Ahead, Loses
  <2>. HIDE DEF Claimed, Missed
  <2>. QED  BY <1>1, <2>1, <2>2
<1>. QED  BY <1>3, <1>4, <1>5 DEF HatInv

LEMMA HatStep ==
    ASSUME HatInv, [Next]_vars
    PROVE  HatInv'
<1>1. HatTypes
  BY DEF HatInv
<1>2. CASE Next
  <2>1. HatTypes' /\ Kept
    BY <1>1, <1>2, TypesStep, StepKinds
  <2>2. ASSUME ~(card.push') PROVE Owing' /\ Covered'
    <3>1. ~card.push /\ Owing /\ Covered
      BY <2>1, <2>2 DEF HatInv, Kept
    <3>. QED  BY <1>1, <1>2, <2>1, <3>1, StepKinds, DriveKeeps, StandKeeps, LookKeeps, ServeKeeps,
                 EndKeeps, RestKeeps
  <2>. QED  BY <2>1, <2>2 DEF HatInv
<1>3. CASE UNCHANGED vars
  <2>1. UNCHANGED <<card, world, timer, pending, parked, prev, latched, acquired, ready, active, restarts,
                    blocks, phase, back, owed, spare, low>>
    BY <1>3 DEF vars, hatState, history, control
  <2>2. hats' = hats
    BY <2>1 DEF hats
  <2>3. \A h : /\ Missed(h)' <=> Missed(h)
               /\ Claimed(h)' <=> Claimed(h)
               /\ Restarting(h)' <=> Restarting(h)
    BY <2>1 DEF Missed, Ahead, Holds, Detects, Loses, Claimed, Restarting
  <2>4. HatTypes'
    BY <1>1, <2>1, <2>2 DEF HatTypes
  <2>5. (Owing' <=> Owing) /\ (Covered' <=> Covered)
    <3>. HIDE DEF Missed, Claimed, Restarting
    <3>. QED  BY <2>1, <2>2, <2>3 DEF Owing, Covered
  <2>. QED  BY <2>1, <2>4, <2>5 DEF HatInv
<1>. QED  BY <1>2, <1>3

LEMMA HatInvariant == Spec => []HatInv
BY HatInit, HatStep, PTL DEF Spec

\* Whatever the card, the program and the driver, an edge a hat met along a move, its own
\* or another's, has been answered by a firing of that hat before the next block runs: the
\* latches, the pre-scan of the active hat's drive and fire_ready_sensor_hats lose none
\* between them, while no piece is pushed.
THEOREM SweptEdgesAreServed == Spec => []NoEdgeForgotten
<1>1. HatInv => NoEdgeForgotten
  <2>. SUFFICES ASSUME HatInv, ~card.push, Between, NEW h \in hats, owed[h] = "due" PROVE FALSE
    BY DEF NoEdgeForgotten, Unanswered
  <2>1. phase \in Idle
    BY DEF Between, Idle, HatInv, HatTypes
  <2>. QED  BY <2>1 DEF HatInv, HatTypes, Owing, Idle
<1>. QED  BY <1>1, HatInvariant, PTL

\* No hat is started or restarted more often than its condition has come true, by whatever
\* made it: each start has an edge of its own, at most one more is latched, ready or cut for
\* the restart, and a condition that was missed still has its edge to spare.
THEOREM EveryStartHasAnEdge == Spec => []ContinuousTruthFiresOnce
<1>1. HatInv => ContinuousTruthFiresOnce
  <2>. SUFFICES ASSUME HatInv, ~card.push, NEW h \in hats PROVE spare[h] >= 0
    BY DEF ContinuousTruthFiresOnce
  <2>1. /\ spare[h] \in Int
        /\ spare[h] >= (IF Claimed(h) THEN 1 ELSE 0) + (IF Missed(h) THEN 1 ELSE 0)
    BY DEF HatInv, HatTypes, Covered
  <2>. HIDE DEF Claimed, Missed
  <2>. QED  BY <2>1
<1>. QED  BY <1>1, HatInvariant, PTL

-----------------------------------------------------------------------------
(***************************************************************************)
(* Pieces and edges.                                                       *)
(***************************************************************************)
\* The world at hand is the present one, or what the next block makes of it.
AtHand(v) == v = AdvanceWorld(card, world) \/ v = world

LEMMA AtHandIs ==
    ASSUME HatTypes, NEW v, AtHand(v)
    PROVE  /\ v \in WorldType /\ v.pos = world.pos /\ v.hd = world.hd
           /\ v.waiting = world.waiting /\ world.piece = "live" =>
                 v.px = world.px /\ v.piece = world.piece
           /\ \A k \in 1..Len(v.waiting) :
                 \E j \in 1..Len(world.waiting) : v.waiting[k] = world.waiting[j]
           /\ Len(world.placed) <= Len(v.placed)
           /\ \A k \in 1..Len(world.placed) :
                 /\ v.placed[k].id = world.placed[k].id
                 /\ v.placed[k].edge = world.placed[k].edge
                 /\ v.placed[k].near \in {world.placed[k].near, Near(world, k)}
           /\ \A k \in 1..Len(v.placed) : k > Len(world.placed) =>
                 /\ v.placed[k].edge # Nowhere => v.placed[k].near = Apart(world.pos, v.placed[k].edge)
                 /\ \E j \in 1..Len(world.waiting) :
                       v.placed[k].id = world.waiting[j].id /\ Earned(world, world.waiting[j])
<1>1. world \in WorldType /\ card.at \in Int
  BY CardIs DEF HatTypes
<1>. HIDE DEF Near, Earned
<1>2. CASE v = AdvanceWorld(card, world)
  <2>1. /\ v \in WorldType /\ v.pos = world.pos /\ v.hd = world.hd
        /\ v.waiting = world.waiting /\ world.piece = "live" =>
              v.px = world.px /\ v.piece = world.piece
        /\ Len(world.placed) <= Len(v.placed)
    BY <1>1, <1>2, WorldAdvances
  <2>2. \A k \in 1..Len(v.waiting) :
           \E j \in 1..Len(world.waiting) : v.waiting[k] = world.waiting[j]
    BY <1>1, <1>2, WorldAdvances
  <2>3. \A k \in 1..Len(world.placed) :
              /\ v.placed[k].id = world.placed[k].id
              /\ v.placed[k].edge = world.placed[k].edge
              /\ v.placed[k].near \in {world.placed[k].near, Near(world, k)}
    BY <1>1, <1>2, WorldAdvances
  <2>4. \A k \in 1..Len(v.placed) : k > Len(world.placed) =>
              /\ v.placed[k].edge # Nowhere => v.placed[k].near = Apart(world.pos, v.placed[k].edge)
              /\ \E j \in 1..Len(world.waiting) :
                    v.placed[k].id = world.waiting[j].id /\ Earned(world, world.waiting[j])
    BY <1>1, <1>2, WorldAdvances
  <2>. QED  BY <2>1, <2>2, <2>3, <2>4
<1>3. CASE v = world
  <2>1. Len(world.placed) \in Nat
    BY <1>1, WorldIs
  <2>2. \A k \in 1..Len(v.placed) : ~(k > Len(world.placed))
    BY <1>3, <2>1
  <2>3. \A k \in 1..Len(world.placed) : world.placed[k].near \in {world.placed[k].near, Near(world, k)}
    OBVIOUS
  <2>4. \A k \in 1..Len(world.waiting) :
           \E j \in 1..Len(world.waiting) : world.waiting[k] = world.waiting[j]
    OBVIOUS
  <2>5. Len(world.placed) <= Len(world.placed)
    BY <2>1
  <2>. QED  BY <1>1, <1>3, <2>2, <2>3, <2>4, <2>5
<1>. QED  BY <1>2, <1>3 DEF AtHand

\* An event that is waiting has been waiting before.
Among(s, t) == \A k \in 1..Len(s) : \E j \in 1..Len(t) : s[k] = t[j]

LEMMA StillWaiting ==
    ASSUME NEW c, c.at \in Int, NEW w \in WorldType
    PROVE  Among(AdvanceWorld(c, w).waiting, w.waiting)
BY WorldAdvances DEF Among

LEMMA StillWaitingAtHand ==
    ASSUME HatTypes, NEW v, AtHand(v)
    PROVE  Among(v.waiting, world.waiting)
<1>1. world \in WorldType /\ card.at \in Int
  BY CardIs DEF HatTypes
<1>2. CASE v = AdvanceWorld(card, world)
  BY <1>1, <1>2, StillWaiting
<1>3. CASE v = world
  BY <1>3 DEF Among
<1>. QED  BY <1>2, <1>3 DEF AtHand

\* Every step drives, stands, looks or leaves the world alone, in the world at hand.
LEMMA WorldSteps ==
    ASSUME HatTypes, Next
    PROVE  /\ card' = card
           /\ \/ \E e \in Int :
                    /\ world' = Driven(card, Here, e) /\ AtHand(Here)
                    /\ low' = Nearer(Here.placed, Course(e), low)
              \/ \E v : /\ AtHand(v) /\ world' \in WorldType
                        /\ world'.pos = v.pos /\ world'.px = v.px
                        /\ world'.waiting = v.waiting /\ world'.placed = v.placed
                        /\ \/ low' = Nearer(v.placed, <<v, world'>>, low)
                           \/ low' = Nearer(v.placed, <<world>>, low)
                           \/ low' = low /\ v = world
<1>. DEFINE Goal ==
           \/ \E e \in Int :
                    /\ world' = Driven(card, Here, e) /\ AtHand(Here)
                    /\ low' = Nearer(Here.placed, Course(e), low)
           \/ \E v : /\ AtHand(v) /\ world' \in WorldType
                     /\ world'.pos = v.pos /\ world'.px = v.px
                     /\ world'.waiting = v.waiting /\ world'.placed = v.placed
                     /\ \/ low' = Nearer(v.placed, <<v, world'>>, low)
                        \/ low' = Nearer(v.placed, <<world>>, low)
                        \/ low' = low /\ v = world
<1>1. card' = card /\ AtHand(Here) /\ AtHand(world) /\ world \in WorldType
  BY StepKinds, HereIs DEF Kept, AtHand, HatTypes
<1>2. ASSUME NEW d \in Int, NEW at \in Nat, NEW tm \in Nat, Drives(d, at, tm) PROVE Goal
  <2>1. Length(d, at) \in Int
    BY LengthIs
  <2>2. world' = Driven(card, Here, Length(d, at)) /\ low' = Nearer(Here.placed, Course(Length(d, at)), low)
    BY <1>2 DEF Drives, Move, Recorded
  <2>. QED  BY <1>1, <2>1, <2>2
<1>3. ASSUME NEW w \in WorldType, NEW tm \in Nat, Stands(w, tm) PROVE Goal
  <2>1. /\ world' = w /\ low' = Nearer(Here.placed, <<Here, w>>, low)
        /\ w.pos = Here.pos /\ w.waiting = Here.waiting /\ w.placed = Here.placed /\ w.px = Here.px
    BY <1>3 DEF Stands, Unmoved, Recorded
  <2>. QED  BY <1>1, <2>1
<1>4. ASSUME NEW w \in WorldType, NEW next \in Backs, Looks(w, next) PROVE Goal
  <2>1. /\ world' = w
        /\ \/ w = AdvanceWorld(card, world) /\ low' = Nearer(w.placed, <<world>>, low)
           \/ w = world /\ low' = low
    BY <1>4 DEF Looks
  <2>. QED  BY <2>1 DEF AtHand
<1>5. ASSUME Serve \/ HatEnd \/ Restart \/ Rests PROVE Goal
  <2>1. world' = world /\ low' = low
    <3>1. CASE Serve
      BY <3>1 DEF Serve, Fires, history
    <3>2. CASE HatEnd
      BY <3>2 DEF HatEnd, history
    <3>3. CASE Restart
      BY <3>3 DEF Restart, Fires
    <3>4. CASE Rests
      BY <3>4 DEF Rests
    <3>. QED  BY <1>5, <3>1, <3>2, <3>3, <3>4
  <2>. QED  BY <1>1, <2>1
<1>. QED
  <2>. HIDE DEF Goal
  <2>1. Goal
    BY <1>2, <1>3, <1>4, <1>5, StepKinds
  <2>. QED  BY <1>1, <2>1 DEF Goal

\* However far and whichever way a robot that pushes drives, in its own stack or in a hat's, a
\* piece that stays where the world's events put it stays on its side: the push carries it
\* along in the direction of travel, and passes through none.
THEOREM PiecesKeepTheirSide == Spec => PieceIsNeverRunOver
<1>. DEFINE Kept1 == (/\ card.push /\ world.piece = "live" /\ world'.piece # "pending"
                      /\ world'.waiting = world.waiting /\ world.px # world.pos)
                     => (world.px < world.pos <=> world'.px < world'.pos)
<1>1. ASSUME HatInv, [Next]_vars PROVE [Kept1]_vars
  <2>. SUFFICES ASSUME Next, card.push, world.piece = "live", world'.waiting = world.waiting,
                       world.px # world.pos
                PROVE  world.px < world.pos <=> world'.px < world'.pos
    BY <1>1
  <2>1. HatTypes
    BY <1>1 DEF HatInv
  <2>2. ASSUME NEW e \in Int, world' = Driven(card, Here, e), AtHand(Here)
        PROVE  world.px < world.pos <=> world'.px < world'.pos
    <3>1. Here \in WorldType /\ world'.waiting = Here.waiting
      BY <2>1, <2>2, HereIs, DrivenIs
    <3>2. Here.pos = world.pos /\ Here.px = world.px /\ Here.piece = "live"
      BY <2>1, <2>2, <3>1, AtHandIs
    <3>3. Driven(card, Here, e).pos = world'.pos /\ Driven(card, Here, e).px = world'.px
      BY <2>2
    <3>4. Here.px < Here.pos <=> Driven(card, Here, e).px < Driven(card, Here, e).pos
      BY <3>1, <3>2, DrivenIs
    <3>. QED  BY <3>2, <3>3, <3>4
  <2>3. ASSUME NEW v, AtHand(v), world'.pos = v.pos, world'.px = v.px, world'.waiting = v.waiting
        PROVE  world.px < world.pos <=> world'.px < world'.pos
    BY <2>1, <2>3, AtHandIs
  <2>4. CASE \E e \in Int : world' = Driven(card, Here, e) /\ AtHand(Here)
    BY <2>2, <2>4
  <2>5. CASE \E v : /\ AtHand(v) /\ world'.pos = v.pos /\ world'.px = v.px
                    /\ world'.waiting = v.waiting
    BY <2>3, <2>5
  <2>. QED  BY <2>1, <2>4, <2>5, WorldSteps
<1>. QED  BY <1>1, HatInvariant, PTL DEF Spec, PieceIsNeverRunOver

\* What is known of the retreats: the record is never above the harness's own, and the
\* events that wait are the card's.
LowIsLow ==
    /\ \A k \in 1..Len(world.waiting) : world.waiting[k] \in Range(card.events)
    /\ DOMAIN low = 1..Len(world.placed)
    /\ \A k \in 1..Len(world.placed) : world.placed[k].edge # Nowhere =>
          /\ low[k] \in Nat /\ low[k] <= world.placed[k].near
          /\ low[k] <= Apart(world.pos, world.placed[k].edge)

LEMMA NearerIs ==
    ASSUME NEW places \in Seq(PlacedType), NEW old, NEW n \in Nat \ {0}, NEW course,
           DOMAIN course = 1..n, \A k \in 1..n : course[k].pos \in Int,
           NEW i \in 1..Len(places), places[i].edge # Nowhere,
           i \in DOMAIN old => old[i] \in Nat
    PROVE  LET m == Nearer(places, course, old)[i] IN
           /\ m \in Nat /\ (i \in DOMAIN old => m <= old[i])
           /\ \A k \in 1..n : m <= Apart(course[k].pos, places[i].edge)
<1>. DEFINE was == IF i \in DOMAIN old THEN {old[i]} ELSE {}
            seen == {Apart(course[k].pos, places[i].edge) : k \in DOMAIN course}
<1>1. places[i].edge \in Int
  <2>1. places[i] \in PlacedType
    OBVIOUS
  <2>. QED  BY <2>1 DEF PlacedType
<1>2. \A k \in 1..n : Apart(course[k].pos, places[i].edge) \in Nat
  BY <1>1, ApartIs
<1>3. (was \cup seen) \in SUBSET Nat /\ was \cup seen # {}
  <2>1. 1 \in 1..n
    OBVIOUS
  <2>2. Apart(course[1].pos, places[i].edge) \in seen
    BY <2>1
  <2>. QED  BY <1>2, <2>2
<1>4. Nearer(places, course, old)[i] = Min(was \cup seen)
  BY DEF Nearer
<1>5. Min(was \cup seen) \in was \cup seen /\ \A x \in was \cup seen : Min(was \cup seen) <= x
  BY <1>3, MinIs
<1>6. (i \in DOMAIN old => old[i] \in was) /\ \A k \in 1..n : Apart(course[k].pos, places[i].edge) \in seen
  OBVIOUS
<1>. HIDE DEF was, seen
<1>. QED  BY <1>3, <1>4, <1>5, <1>6

LEMMA LowFollows ==
    ASSUME HatTypes, LowIsLow, card' = card, NEW v, AtHand(v), world' \in WorldType,
           world'.waiting = v.waiting, world'.placed = v.placed,
           NEW n \in Nat \ {0}, NEW course, DOMAIN course = 1..n, \A k \in 1..n : course[k].pos \in Int,
           course[1].pos = world.pos, \E k \in 1..n : course[k].pos = world'.pos,
           low' = Nearer(v.placed, course, low)
    PROVE  LowIsLow'
<1>1. /\ v \in WorldType /\ v.placed \in Seq(PlacedType) /\ Len(v.placed) \in Nat
      /\ world \in WorldType /\ world.placed \in Seq(PlacedType) /\ Len(world.placed) \in Nat
      /\ world.pos \in Int
  BY AtHandIs, WorldIs DEF HatTypes
<1>2. \A k \in 1..Len(world'.waiting) : world'.waiting[k] \in Range(card'.events)
  <2>. TAKE k \in 1..Len(world'.waiting)
  <2>0. Among(v.waiting, world.waiting)
    BY StillWaitingAtHand
  <2>1. PICK j \in 1..Len(world.waiting) : v.waiting[k] = world.waiting[j]
    BY <2>0 DEF Among
  <2>2. world.waiting[j] \in Range(card.events)
    BY <2>1 DEF LowIsLow
  <2>. QED  BY <2>1, <2>2
<1>3. DOMAIN low' = 1..Len(world'.placed)
  BY <1>1 DEF Nearer
<1>4. ASSUME NEW i \in 1..Len(v.placed), v.placed[i].edge # Nowhere
      PROVE  /\ low'[i] \in Nat /\ low'[i] <= v.placed[i].near
             /\ low'[i] <= Apart(world'.pos, v.placed[i].edge)
  <2>1. i \in DOMAIN low <=> i \in 1..Len(world.placed)
    BY DEF LowIsLow
  <2>2. ASSUME i \in 1..Len(world.placed)
        PROVE  /\ v.placed[i].edge = world.placed[i].edge
               /\ v.placed[i].near \in {world.placed[i].near, Near(world, i)}
               /\ low[i] \in Nat /\ low[i] <= world.placed[i].near
               /\ low[i] <= Apart(world.pos, world.placed[i].edge)
    <3>1. /\ v.placed[i].edge = world.placed[i].edge
          /\ v.placed[i].near \in {world.placed[i].near, Near(world, i)}
      BY <2>2, AtHandIs
    <3>. QED  BY <1>4, <2>2, <3>1 DEF LowIsLow
  <2>3. /\ low'[i] \in Nat /\ (i \in DOMAIN low => low'[i] <= low[i])
        /\ \A k \in 1..n : low'[i] <= Apart(course[k].pos, v.placed[i].edge)
    BY <1>1, <1>4, <2>1, <2>2, NearerIs
  <2>4. v.placed[i] \in PlacedType
    BY <1>1
  <2>5. v.placed[i].edge \in Int /\ v.placed[i].near \in Nat
    BY <2>4 DEF PlacedType
  <2>6. 1 \in 1..n /\ low'[i] <= Apart(world.pos, v.placed[i].edge)
    <3>1. 1 \in 1..n
      OBVIOUS
    <3>2. low'[i] <= Apart(course[1].pos, v.placed[i].edge)
      BY <2>3, <3>1
    <3>. QED  BY <3>1, <3>2
  <2>7. low'[i] <= v.placed[i].near
    <3>1. CASE i \in 1..Len(world.placed)
      <4>1. world.placed[i] \in PlacedType
        BY <1>1, <3>1
      <4>2. world.placed[i].near \in Nat /\ world.placed[i].edge \in Int
        BY <4>1 DEF PlacedType
      <4>3. Apart(world.pos, world.placed[i].edge) \in Nat
        BY <1>1, <4>2, ApartIs
      <4>4. low[i] <= v.placed[i].near
        BY <2>2, <3>1, <4>2, <4>3 DEF Near
      <4>. QED  BY <2>1, <2>2, <2>3, <2>5, <3>1, <4>4
    <3>2. CASE i > Len(world.placed)
      <4>1. v.placed[i].near = Apart(world.pos, v.placed[i].edge)
        BY <1>4, <3>2, AtHandIs
      <4>. QED  BY <2>6, <4>1
    <3>. QED  BY <1>1, <3>1, <3>2
  <2>8. PICK k \in 1..n : course[k].pos = world'.pos
    OBVIOUS
  <2>9. low'[i] <= Apart(world'.pos, v.placed[i].edge)
    BY <2>3, <2>8
  <2>. QED  BY <2>3, <2>7, <2>9
<1>. QED  BY <1>2, <1>3, <1>4 DEF LowIsLow

LEMMA LowStep ==
    ASSUME HatTypes, LowIsLow, Next
    PROVE  LowIsLow'
<1>1. card' = card /\ world \in WorldType /\ world.pos \in Int
  BY WorldSteps, WorldIs DEF HatTypes
<1>2. ASSUME NEW e \in Int, world' = Driven(card, Here, e), AtHand(Here),
             low' = Nearer(Here.placed, Course(e), low)
      PROVE  LowIsLow'
  <2>. DEFINE n == Apart(0, e) + 1
  <2>1. /\ Here \in WorldType /\ Here.pos = world.pos
        /\ world' \in WorldType /\ world'.pos = Here.pos + Here.hd * e
        /\ world'.waiting = Here.waiting /\ world'.placed = Here.placed
    BY <1>2, HereIs, DrivenIs
  <2>2. /\ n \in Nat \ {0} /\ DOMAIN Course(e) = 1..n /\ Course(e)[1] = Here
        /\ \A i \in 1..n : /\ Course(e)[i].pos = Here.pos + Here.hd * (Sign(e) * (i - 1))
                           /\ Course(e)[i].pos \in Int
    BY CourseIs
  <2>3. n \in 1..n /\ n - 1 = Apart(0, e) /\ Sign(e) * Apart(0, e) = e
    <3>1. Apart(0, e) \in Nat
      BY ApartIs
    <3>. QED  BY <3>1, SignIs
  <2>4. Course(e)[n].pos = world'.pos
    BY <2>1, <2>2, <2>3
  <2>. HIDE DEF n
  <2>5. /\ Course(e)[1].pos = world.pos /\ (\E k \in 1..n : Course(e)[k].pos = world'.pos)
        /\ \A i \in 1..n : Course(e)[i].pos \in Int
    BY <2>1, <2>2, <2>3, <2>4
  <2>. QED  BY <1>1, <1>2, <2>1, <2>2, <2>5, LowFollows
<1>3. ASSUME NEW v, AtHand(v), world' \in WorldType, world'.pos = v.pos,
             world'.waiting = v.waiting, world'.placed = v.placed
      PROVE  /\ low' = Nearer(v.placed, <<v, world'>>, low) => LowIsLow'
             /\ low' = Nearer(v.placed, <<world>>, low) => LowIsLow'
             /\ low' = low /\ v = world => LowIsLow'
  <2>1. v.pos = world.pos /\ world'.pos = world.pos /\ world.pos \in Int
    BY <1>1, <1>3, AtHandIs
  <2>2. ASSUME low' = Nearer(v.placed, <<v, world'>>, low) PROVE LowIsLow'
    <3>. DEFINE course == <<v, world'>>
    <3>1. /\ 2 \in Nat \ {0} /\ DOMAIN course = 1..2 /\ course[1] = v /\ course[2] = world'
          /\ \A k \in 1..2 : course[k].pos \in Int
      BY <2>1
    <3>2. course[1].pos = world.pos /\ \E k \in 1..2 : course[k].pos = world'.pos
      BY <2>1, <3>1
    <3>3. low' = Nearer(v.placed, course, low)
      BY <2>2
    <3>. HIDE DEF course
    <3>. QED  BY <1>1, <1>3, <3>1, <3>2, <3>3, LowFollows
  <2>3. ASSUME low' = Nearer(v.placed, <<world>>, low) PROVE LowIsLow'
    <3>. DEFINE course == <<world>>
    <3>1. /\ 1 \in Nat \ {0} /\ DOMAIN course = 1..1 /\ course[1] = world
          /\ \A k \in 1..1 : course[k].pos \in Int
      BY <2>1
    <3>2. course[1].pos = world.pos /\ \E k \in 1..1 : course[k].pos = world'.pos
      BY <2>1, <3>1
    <3>3. low' = Nearer(v.placed, course, low)
      BY <2>3
    <3>. HIDE DEF course
    <3>. QED  BY <1>1, <1>3, <3>1, <3>2, <3>3, LowFollows
  <2>4. ASSUME low' = low, v = world PROVE LowIsLow'
    BY <1>1, <1>3, <2>1, <2>4 DEF LowIsLow
  <2>. QED  BY <2>2, <2>3, <2>4
<1>. QED  BY <1>2, <1>3, WorldSteps

LEMMA LowInit ==
    ASSUME Init
    PROVE  LowIsLow
<1>. DEFINE w == NewWorld(card)
<1>1. /\ card \in Cards /\ card.at \in Int /\ card.events \in Seq(EventType)
      /\ w \in WorldType /\ w.waiting = card.events /\ w.placed = <<>>
      /\ world = AdvanceWorld(card, w)
      /\ low = [i \in DOMAIN world.placed |-> world.placed[i].near]
  BY CardIs, NewWorldIs DEF Init, NewWorld
<1>. HIDE DEF w
<1>2. /\ world \in WorldType /\ world.pos = w.pos
      /\ \A k \in 1..Len(world.waiting) : \E j \in 1..Len(w.waiting) : world.waiting[k] = w.waiting[j]
      /\ \A k \in 1..Len(world.placed) : k > Len(w.placed) =>
            (world.placed[k].edge # Nowhere => world.placed[k].near = Apart(w.pos, world.placed[k].edge))
  <2>1. world \in WorldType /\ world.pos = w.pos
    BY <1>1, WorldAdvances
  <2>2. \A k \in 1..Len(world.waiting) : \E j \in 1..Len(w.waiting) : world.waiting[k] = w.waiting[j]
    <3>1. Among(world.waiting, w.waiting)
      BY <1>1, StillWaiting
    <3>. QED  BY <3>1 DEF Among
  <2>3. \A k \in 1..Len(world.placed) : k > Len(w.placed) =>
            (world.placed[k].edge # Nowhere => world.placed[k].near = Apart(w.pos, world.placed[k].edge))
    BY <1>1, WorldAdvances
  <2>. QED  BY <2>1, <2>2, <2>3
<1>3. world.placed \in Seq(PlacedType) /\ Len(world.placed) \in Nat /\ Len(w.placed) = 0
      /\ DOMAIN world.placed = 1..Len(world.placed)
  BY <1>1, <1>2, WorldIs
<1>4. \A k \in 1..Len(world.waiting) : world.waiting[k] \in Range(card.events)
  BY <1>1, <1>2 DEF Range
<1>5. \A k \in 1..Len(world.placed) : world.placed[k].edge # Nowhere =>
          /\ low[k] \in Nat /\ low[k] <= world.placed[k].near
          /\ low[k] <= Apart(world.pos, world.placed[k].edge)
  <2>. SUFFICES ASSUME NEW k \in 1..Len(world.placed), world.placed[k].edge # Nowhere
                PROVE  /\ low[k] \in Nat /\ low[k] <= world.placed[k].near
                       /\ low[k] <= Apart(world.pos, world.placed[k].edge)
    OBVIOUS
  <2>1. world.placed[k] \in PlacedType
    BY <1>3
  <2>2. world.placed[k].near \in Nat /\ low[k] = world.placed[k].near
    BY <1>1, <1>3, <2>1 DEF PlacedType
  <2>3. world.placed[k].near = Apart(world.pos, world.placed[k].edge)
    BY <1>2, <1>3
  <2>. QED  BY <2>2, <2>3
<1>6. DOMAIN low = 1..Len(world.placed)
  BY <1>1, <1>3
<1>. QED  BY <1>4, <1>5, <1>6 DEF LowIsLow

\* An event that waits for a retreat fires only when the robot is that much further from the
\* edge placed before than it has been at any millimetre since: the nearest distance the harness
\* keeps per executed block is never below the true one, so no retreat is counted twice.
THEOREM RetreatsAreEarned == Spec => RetreatIsReal
<1>. DEFINE Real == \A i \in DOMAIN world'.placed \ DOMAIN world.placed :
                      \E e \in Range(card.events) :
                         /\ e.id = world'.placed[i].id
                         /\ e.retreat # Never =>
                              \E j \in DOMAIN low :
                                 /\ world.placed[j].id = e.after
                                 /\ Apart(world.pos, world.placed[j].edge) - low[j] >= e.retreat
<1>1. ASSUME HatInv, LowIsLow, [Next]_vars PROVE [Real]_vars /\ LowIsLow'
  <2>1. CASE UNCHANGED vars
    BY <1>1, <2>1 DEF LowIsLow, vars, history
  <2>2. CASE Next
    <3>1. HatTypes /\ LowIsLow' /\ world \in WorldType
      BY <1>1, <2>2, LowStep DEF HatInv, HatTypes
    <3>2. PICK v : AtHand(v) /\ world'.placed = v.placed
      <4>1. ASSUME NEW e \in Int, world' = Driven(card, Here, e), AtHand(Here)
            PROVE  world'.placed = Here.placed
        BY <3>1, <4>1, HereIs, DrivenIs
      <4>. QED  BY <2>2, <3>1, <4>1, WorldSteps
    <3>3. Real
      <4>. SUFFICES ASSUME NEW i \in DOMAIN world'.placed \ DOMAIN world.placed
                    PROVE  \E e \in Range(card.events) :
                              /\ e.id = world'.placed[i].id
                              /\ e.retreat # Never =>
                                   \E j \in DOMAIN low :
                                      /\ world.placed[j].id = e.after
                                      /\ Apart(world.pos, world.placed[j].edge) - low[j] >= e.retreat
        OBVIOUS
      <4>1. /\ world.placed \in Seq(PlacedType) /\ Len(world.placed) \in Nat
            /\ v.placed \in Seq(PlacedType) /\ Len(v.placed) \in Nat /\ v \in WorldType
            /\ world.pos \in Int /\ world.waiting \in Seq(EventType)
        BY <3>1, <3>2, AtHandIs, WorldIs
      <4>2. i \in 1..Len(v.placed) /\ i > Len(world.placed)
        BY <3>2, <4>1
      <4>3. PICK q \in 1..Len(world.waiting) :
              v.placed[i].id = world.waiting[q].id /\ Earned(world, world.waiting[q])
        BY <3>1, <3>2, <4>2, AtHandIs
      <4>. DEFINE e == world.waiting[q]
      <4>4. e \in Range(card.events) /\ e \in EventType
        BY <1>1, <4>1 DEF LowIsLow
      <4>5. ASSUME e.retreat # Never
            PROVE  \E j \in DOMAIN low :
                      /\ world.placed[j].id = e.after
                      /\ Apart(world.pos, world.placed[j].edge) - low[j] >= e.retreat
        <5>1. PICK k \in 1..Len(world.placed) :
                /\ world.placed[k].id = e.after /\ world.placed[k].edge # Nowhere
                /\ Apart(world.pos, world.placed[k].edge) - Near(world, k) >= e.retreat
          BY <4>3, <4>5 DEF Earned
        <5>2. /\ k \in DOMAIN low /\ low[k] \in Nat /\ low[k] <= world.placed[k].near
              /\ low[k] <= Apart(world.pos, world.placed[k].edge)
          BY <1>1, <5>1 DEF LowIsLow
        <5>3. world.placed[k] \in PlacedType
          BY <4>1
        <5>4. world.placed[k].near \in Nat /\ world.placed[k].edge \in Int
          BY <5>3 DEF PlacedType
        <5>5. Apart(world.pos, world.placed[k].edge) \in Nat
          BY <4>1, <5>4, ApartIs
        <5>6. Near(world, k) \in Nat /\ low[k] <= Near(world, k)
          BY <5>1, <5>2, <5>4, <5>5 DEF Near
        <5>7. e.retreat \in Int
          <6>1. e.retreat \in {Never} \cup (Nat \ {0})
            <7>. HIDE DEF e
            <7>. QED  BY <4>4, EventIs
          <6>. QED  BY <4>5, <6>1
        <5>. DEFINE a == Apart(world.pos, world.placed[k].edge)
                    r == e.retreat
        <5>8. a - low[k] >= r
          <6>1. a \in Nat /\ r \in Int /\ a - Near(world, k) >= r
            BY <5>1, <5>5, <5>7
          <6>. HIDE DEF a, r
          <6>. QED  BY <5>2, <5>6, <6>1
        <5>. QED  BY <5>1, <5>2, <5>8
      <4>. QED  BY <3>2, <4>3, <4>4, <4>5
    <3>. QED  BY <3>1, <3>3
  <2>. QED  BY <1>1, <2>1, <2>2
<1>2. Init => LowIsLow
  BY LowInit
<1>. QED  BY <1>1, <1>2, HatInvariant, PTL DEF Spec, RetreatIsReal
=============================================================================
