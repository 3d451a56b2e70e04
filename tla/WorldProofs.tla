----------------------------- MODULE WorldProofs -----------------------------
(***************************************************************************)
(* What the operators on a world return, whatever it holds: a world again, *)
(* the robot where it drove to, the piece on its side, and for every event *)
(* that fired the retreat it waited for.                                   *)
(***************************************************************************)
EXTENDS World, FiniteSetTheorems, WellFoundedInduction, TLAPS

-----------------------------------------------------------------------------
(***************************************************************************)
(* The least member of a set of naturals.                                  *)
(***************************************************************************)
LEMMA LeastIsThere ==
    ASSUME NEW S \in SUBSET Nat, S # {}
    PROVE  \E m \in S : \A n \in S : m <= n
<1>1. PICK m \in S : \A y \in S : ~(<<y, m>> \in OpToRel(<, Nat))
  BY NatLessThanWellFounded, WFMin
<1>2. ASSUME NEW y \in S PROVE m <= y
  <2>1. m \in Nat /\ y \in Nat
    OBVIOUS
  <2>2. ~(y < m)
    BY <1>1, <2>1 DEF OpToRel
  <2>. QED  BY <2>1, <2>2
<1>. QED  BY <1>2

LEMMA MinIs ==
    ASSUME NEW S \in SUBSET Nat, S # {}
    PROVE  Min(S) \in S /\ \A n \in S : Min(S) <= n
BY LeastIsThere DEF Min

LEMMA PairMin ==
    ASSUME NEW a \in Int, NEW b \in Int
    PROVE  Min({a, b}) = IF a <= b THEN a ELSE b
BY DEF Min

LEMMA PairMax ==
    ASSUME NEW a \in Int, NEW b \in Int
    PROVE  Max({a, b}) = IF a <= b THEN b ELSE a
BY DEF Max

LEMMA ApartIs ==
    ASSUME NEW x \in Int, NEW y \in Int
    PROVE  Apart(x, y) \in Nat /\ Apart(x, y) = Apart(y, x) /\ (x # y => Apart(x, y) >= 1)
BY DEF Apart

LEMMA SignTimes ==
    ASSUME NEW s \in {-1, 1}, NEW d \in Int
    PROVE  s * d \in Int /\ s * d = (IF s = 1 THEN d ELSE -d)
<1>1. CASE s = 1
  BY <1>1
<1>2. CASE s = -1
  BY <1>2
<1>. QED  BY <1>1, <1>2

LEMMA SameSide ==
    ASSUME NEW e \in Int, NEW y \in Int
    PROVE  e * y > 0 <=> (e > 0 /\ y > 0) \/ (e < 0 /\ y < 0)
OBVIOUS

LEMMA SignIs ==
    ASSUME NEW d \in Int
    PROVE  Sign(d) \in {-1, 1} /\ (d > 0 => Sign(d) = 1) /\ (d < 0 => Sign(d) = -1)
           /\ Sign(d) * Apart(0, d) = d
<1>1. CASE d < 0
  BY <1>1 DEF Sign, Apart
<1>2. CASE ~(d < 0)
  <2>1. Sign(d) = 1 /\ Apart(0, d) = d
    BY <1>2 DEF Sign, Apart
  <2>. QED  BY <1>2, <2>1
<1>. QED  BY <1>1, <1>2

LEMMA OffSegmentIs ==
    ASSUME NEW a \in Int, NEW b \in Int, NEW x \in Int, NEW P \in Nat
    PROVE  OffSegment(a, b, x) <= P <=> (a - P <= x \/ b - P <= x) /\ (x <= a + P \/ x <= b + P)
<1>1. Min({a, b}) = (IF a <= b THEN a ELSE b) /\ Max({a, b}) = (IF a <= b THEN b ELSE a)
  BY PairMin, PairMax
<1>2. CASE a <= b
  <2>1. OffSegment(a, b, x) = CASE x < a -> a - x [] x > b -> x - b [] OTHER -> 0
    BY <1>1, <1>2 DEF OffSegment
  <2>. QED  BY <1>2, <2>1
<1>3. CASE ~(a <= b)
  <2>1. OffSegment(a, b, x) = CASE x < b -> b - x [] x > a -> x - a [] OTHER -> 0
    BY <1>1, <1>3 DEF OffSegment
  <2>. QED  BY <1>3, <2>1
<1>. QED  BY <1>2, <1>3

\* A body that the robot reaches and carries along stays on its side; one that it does not
\* reach is beyond its way.
LEMMA StaysAhead ==
    ASSUME NEW from \in Int, NEW e \in Int, NEW x \in Int, NEW P \in Nat \ {0}, NEW s \in {-1, 1},
           NEW to, to = from + e, x # from, e > 0 => s = 1, e < 0 => s = -1,
           NEW y, y = IF OffSegment(from, to, x) <= P /\ e * (x - from) > 0 THEN to + s * P ELSE x
    PROVE  x < from <=> y < to
<1>1. to \in Int /\ x - from \in Int /\ P \in Int /\ P > 0
  OBVIOUS
<1>2. e * (x - from) > 0 <=> (e > 0 /\ x > from) \/ (e < 0 /\ x < from)
  BY <1>1, SameSide
<1>3. s * P = IF s = 1 THEN P ELSE -P
  BY SignTimes
<1>4. OffSegment(from, to, x) <= P
      <=> (from - P <= x \/ to - P <= x) /\ (x <= from + P \/ x <= to + P)
  BY <1>1, OffSegmentIs
<1>5. CASE e > 0 /\ x > from
  <2>1. y = IF x <= to + P THEN to + P ELSE x
    BY <1>1, <1>2, <1>3, <1>4, <1>5
  <2>. QED  BY <1>1, <1>5, <2>1
<1>6. CASE e < 0 /\ x < from
  <2>1. y = IF to - P <= x THEN to - P ELSE x
    BY <1>1, <1>2, <1>3, <1>4, <1>6
  <2>. QED  BY <1>1, <1>6, <2>1
<1>7. CASE ~(e > 0 /\ x > from) /\ ~(e < 0 /\ x < from)
  <2>1. y = x
    BY <1>2, <1>7
  <2>. QED  BY <1>1, <1>7, <2>1
<1>. QED  BY <1>5, <1>6, <1>7

-----------------------------------------------------------------------------
(***************************************************************************)
(* Worlds.                                                                 *)
(***************************************************************************)
PlacedType == [id : STRING, edge : Int, near : Nat]
WorldType ==
    [pos : Int, hd : {-1, 1}, step : Int, lo : Int, hi : Int, exits : BOOLEAN,
     edge : Int, out : {-1, 1}, piece : {"none", "pending", "live", "cleared"},
     px : Int, start : Int, contact : Int, cleared : Int,
     waiting : Seq(EventType), placed : Seq(PlacedType)]

\* What the sensors look at.
Alike(u, w) ==
    /\ u.piece = w.piece /\ u.px = w.px /\ u.pos = w.pos /\ u.hd = w.hd
    /\ u.edge = w.edge /\ u.out = w.out

LEMMA AlikeSenses ==
    ASSUME NEW u, NEW w, Alike(u, w)
    PROVE  EyeSees(u) = EyeSees(w) /\ BumperPressed(u) = BumperPressed(w) /\ RingSeen(u) = RingSeen(w)
BY DEF Alike, EyeSees, BumperPressed, RingSeen

LEMMA DrivenIs ==
    ASSUME NEW c, NEW w \in WorldType, NEW d \in Int
    PROVE  /\ Driven(c, w, d) \in WorldType
           /\ Driven(c, w, d).pos = w.pos + w.hd * d
           /\ Driven(c, w, d).hd = w.hd
           /\ Driven(c, w, d).waiting = w.waiting
           /\ Driven(c, w, d).placed = w.placed
           /\ ~c.push => Alike(Driven(c, w, d), [w EXCEPT !.pos = w.pos + w.hd * d])
           /\ c.push /\ w.piece = "live" /\ w.px # w.pos =>
                 (w.px < w.pos <=> Driven(c, w, d).px < Driven(c, w, d).pos)
<1>. DEFINE moved == [w EXCEPT !.pos = @ + w.hd * d]
            left == [moved EXCEPT !.exits = @ \/ Outside(w, moved.pos) > 0]
            pushed == Push(c, left, w.pos, Sign(d))
            after == Contact(c, pushed, w.pos)
<1>1. w.hd * d \in Int /\ (w.hd * d = d \/ w.hd * d = -d)
  <2>1. w.hd \in {-1, 1}
    BY DEF WorldType
  <2>. QED  BY <2>1, SignTimes
<1>2. /\ moved \in WorldType /\ moved.pos = w.pos + w.hd * d /\ moved.hd = w.hd
      /\ moved.waiting = w.waiting /\ moved.placed = w.placed /\ moved.px = w.px
      /\ moved.piece = w.piece /\ moved.edge = w.edge /\ moved.out = w.out
  <2>. DEFINE t == w.pos + w.hd * d
  <2>1. t \in Int
    <3>1. w.pos \in Int
      BY DEF WorldType
    <3>. DEFINE e == w.hd * d
    <3>2. e \in Int
      BY <1>1
    <3>. HIDE DEF e
    <3>3. w.pos + e \in Int
      BY <3>1, <3>2
    <3>. QED  BY <3>3 DEF e
  <2>2. moved = [w EXCEPT !.pos = t]
    OBVIOUS
  <2>. HIDE DEF moved, t
  <2>3. /\ moved \in WorldType /\ moved.pos = t /\ moved.hd = w.hd
        /\ moved.waiting = w.waiting /\ moved.placed = w.placed /\ moved.px = w.px
        /\ moved.piece = w.piece /\ moved.edge = w.edge /\ moved.out = w.out
    BY <2>1, <2>2 DEF WorldType
  <2>. QED  BY <2>3 DEF t
<1>. HIDE DEF moved
<1>3. /\ left \in WorldType /\ left.pos = moved.pos /\ left.hd = w.hd
      /\ left.waiting = w.waiting /\ left.placed = w.placed /\ left.px = w.px
      /\ left.piece = w.piece /\ left.edge = w.edge /\ left.out = w.out
  <2>. DEFINE b == moved.exits \/ Outside(w, moved.pos) > 0
  <2>1. b \in BOOLEAN
    OBVIOUS
  <2>2. left = [moved EXCEPT !.exits = b]
    OBVIOUS
  <2>. HIDE DEF b, left
  <2>. QED  BY <1>2, <2>1, <2>2 DEF WorldType
<1>. HIDE DEF left
<1>4. PinnedAt(left, Sign(d)) \in Int
  <2>1. left.hd \in {-1, 1} /\ left.pos \in Int /\ Sign(d) \in {-1, 1}
    BY <1>3, SignIs DEF WorldType
  <2>2. Sign(d) * left.hd \in {-1, 1}
    BY <2>1
  <2>3. (Sign(d) * left.hd) * Pin \in Int
    BY <2>2, SignTimes, WorldAssumption
  <2>. QED  BY <2>1, <2>3 DEF PinnedAt
<1>5. /\ pushed \in WorldType /\ pushed.pos = moved.pos /\ pushed.hd = w.hd
      /\ pushed.waiting = w.waiting /\ pushed.placed = w.placed
      /\ pushed.edge = w.edge /\ pushed.out = w.out
      /\ ~Pushes(c, left, w.pos) => pushed.px = w.px /\ pushed.piece = w.piece
      /\ Pushes(c, left, w.pos) => pushed.px = PinnedAt(left, Sign(d))
  <2>1. CASE ~Pushes(c, left, w.pos)
    BY <1>3, <2>1 DEF Push
  <2>2. CASE Pushes(c, left, w.pos)
    <3>. DEFINE x == PinnedAt(left, Sign(d))
                k == IF left.contact = Never THEN left.step ELSE left.contact
                p == IF IsCleared(c, left, x) THEN "cleared" ELSE left.piece
                l == IF IsCleared(c, left, x) THEN left.step ELSE left.cleared
    <3>1. pushed = [left EXCEPT !.px = x, !.contact = k, !.piece = p, !.cleared = l]
      BY <2>2 DEF Push
    <3>2. k \in Int /\ p \in {"none", "pending", "live", "cleared"} /\ l \in Int /\ x \in Int
      BY <1>3, <1>4 DEF WorldType
    <3>. HIDE DEF x, k, p, l, pushed
    <3>3. /\ pushed \in WorldType /\ pushed.pos = left.pos /\ pushed.hd = left.hd
          /\ pushed.waiting = left.waiting /\ pushed.placed = left.placed
          /\ pushed.edge = left.edge /\ pushed.out = left.out /\ pushed.px = x
      BY <1>3, <3>1, <3>2 DEF WorldType
    <3>. QED  BY <1>3, <2>2, <3>3 DEF x
  <2>. QED  BY <2>1, <2>2
<1>. HIDE DEF pushed
<1>6. /\ after \in WorldType /\ after.pos = moved.pos /\ after.hd = w.hd
      /\ after.waiting = w.waiting /\ after.placed = w.placed
      /\ after.edge = w.edge /\ after.out = w.out
      /\ after.px = pushed.px /\ after.piece = pushed.piece
  BY <1>5 DEF Contact, WorldType
<1>. HIDE DEF after
<1>7. Driven(c, w, d) = [after EXCEPT !.step = @ + 1]
  BY DEF Driven, after, pushed, left, moved
<1>8. /\ Driven(c, w, d) \in WorldType /\ Driven(c, w, d).pos = moved.pos
      /\ Driven(c, w, d).hd = w.hd
      /\ Driven(c, w, d).waiting = w.waiting /\ Driven(c, w, d).placed = w.placed
      /\ Driven(c, w, d).edge = w.edge /\ Driven(c, w, d).out = w.out
      /\ Driven(c, w, d).px = pushed.px /\ Driven(c, w, d).piece = pushed.piece
  <2>. DEFINE k == after.step + 1
  <2>1. after \in WorldType /\ k \in Int
    BY <1>6 DEF WorldType
  <2>2. Driven(c, w, d) = [after EXCEPT !.step = k]
    BY <1>7
  <2>. HIDE DEF k
  <2>3. Driven(c, w, d) \in WorldType
    BY <2>1, <2>2 DEF WorldType
  <2>4. /\ Driven(c, w, d).pos = after.pos /\ Driven(c, w, d).hd = after.hd
        /\ Driven(c, w, d).waiting = after.waiting /\ Driven(c, w, d).placed = after.placed
        /\ Driven(c, w, d).edge = after.edge /\ Driven(c, w, d).out = after.out
        /\ Driven(c, w, d).px = after.px /\ Driven(c, w, d).piece = after.piece
    BY <2>1, <2>2 DEF WorldType
  <2>. QED  BY <1>6, <2>3, <2>4
<1>9. ASSUME ~c.push PROVE Alike(Driven(c, w, d), [w EXCEPT !.pos = w.pos + w.hd * d])
  <2>1. ~Pushes(c, left, w.pos)
    BY <1>9 DEF Pushes
  <2>. DEFINE v == [w EXCEPT !.pos = w.pos + w.hd * d]
  <2>2. /\ v.pos = w.pos + w.hd * d /\ v.hd = w.hd /\ v.piece = w.piece /\ v.px = w.px
        /\ v.edge = w.edge /\ v.out = w.out
    BY DEF WorldType
  <2>. HIDE DEF v
  <2>3. Alike(Driven(c, w, d), v)
    BY <1>2, <1>5, <1>8, <2>1, <2>2 DEF Alike
  <2>. QED  BY <2>3 DEF v
<1>10. ASSUME c.push, w.piece = "live", w.px # w.pos
       PROVE  w.px < w.pos <=> Driven(c, w, d).px < Driven(c, w, d).pos
  <2>. DEFINE from == w.pos
              to == moved.pos
              x == w.px
  <2>1. from \in Int /\ to \in Int /\ x \in Int /\ x # from /\ Pin \in Nat \ {0}
        /\ w.hd \in {-1, 1} /\ to = from + w.hd * d
    BY <1>2, <1>10, WorldAssumption DEF WorldType
  <2>2. Pushes(c, left, w.pos) <=> OffSegment(from, to, x) <= Pin /\ (to - from) * (x - from) > 0
    BY <1>2, <1>3, <1>10 DEF Pushes
  <2>3. PinnedAt(left, Sign(d)) = to + Sign(d) * w.hd * Pin
    BY <1>3 DEF PinnedAt
  <2>4. Driven(c, w, d).px = (IF Pushes(c, left, w.pos) THEN to + Sign(d) * w.hd * Pin ELSE x)
    BY <1>5, <1>8, <2>3
  <2>. DEFINE e == w.hd * d
              s == Sign(d) * w.hd
  <2>5. s \in {-1, 1} /\ (e > 0 => s = 1) /\ (e < 0 => s = -1)
    <3>1. w.hd \in {-1, 1} /\ Sign(d) \in {-1, 1}
      BY SignIs DEF WorldType
    <3>2. CASE w.hd = 1
      BY <3>1, <3>2, SignIs
    <3>3. CASE w.hd = -1
      BY <3>1, <3>3, SignIs
    <3>. QED  BY <3>1, <3>2, <3>3
  <2>5a. e \in Int /\ to = from + e /\ to - from = e /\ x - from \in Int
    <3>1. e \in Int /\ to = from + e
      BY <1>1, <2>1
    <3>. HIDE DEF e, from, to, x
    <3>. QED  BY <2>1, <3>1
  <2>5b. Sign(d) * w.hd * Pin = s * Pin
    OBVIOUS
  <2>. HIDE DEF from, to, x, e, s
  <2>11. Driven(c, w, d).px = (IF OffSegment(from, to, x) <= Pin /\ e * (x - from) > 0
                              THEN to + s * Pin ELSE x)
    BY <2>2, <2>4, <2>5a, <2>5b
  <2>12. Driven(c, w, d).pos = to
    BY <1>8 DEF to
  <2>13. x < from <=> Driven(c, w, d).px < to
    BY <2>1, <2>5, <2>5a, <2>11, StaysAhead
  <2>. QED  BY <2>12, <2>13 DEF from, x
<1>. QED  BY <1>2, <1>8, <1>9, <1>10

-----------------------------------------------------------------------------
(***************************************************************************)
(* Between two blocks the world advances.                                  *)
(***************************************************************************)
LEMMA PiecesActivate ==
    ASSUME NEW c, c.at \in Int, NEW w \in WorldType
    PROVE  /\ ActivatePieces(c, w) \in WorldType
           /\ ActivatePieces(c, w).pos = w.pos /\ ActivatePieces(c, w).hd = w.hd
           /\ ActivatePieces(c, w).waiting = w.waiting /\ ActivatePieces(c, w).placed = w.placed
           /\ w.piece = "live" => ActivatePieces(c, w) = w
<1>1. CASE w.piece = "pending" /\ w.step >= c.late
  <2>. DEFINE x == w.pos + w.hd * c.at
  <2>1. w.hd \in {-1, 1} /\ w.pos \in Int
    BY DEF WorldType
  <2>2. x \in Int
    BY <2>1, SignTimes
  <2>3. ActivatePieces(c, w) = [w EXCEPT !.piece = "live", !.px = x, !.start = x]
    BY <1>1 DEF ActivatePieces, MaterializedAt
  <2>. HIDE DEF x
  <2>. QED  BY ZenonT(30), <1>1, <2>2, <2>3 DEF WorldType
<1>2. CASE ~(w.piece = "pending" /\ w.step >= c.late)
  BY <1>2 DEF ActivatePieces
<1>. QED  BY <1>1, <1>2

LEMMA EventIs ==
    ASSUME NEW e \in EventType
    PROVE  /\ e.id \in STRING /\ e.after \in STRING /\ e.piece \in Int
           /\ e.ahead \in {Nowhere} \cup Nat /\ e.retreat \in {Never} \cup (Nat \ {0})
           /\ e.retreat # Never => e.after # ""
<1>1. /\ e \in [id : STRING, at : Int, after : STRING, retreat : {Never} \cup (Nat \ {0}),
                 ahead : {Nowhere} \cup Nat, piece : Int]
      /\ e.retreat # Never => e.after # ""
  BY DEF EventType
<1>. QED  BY <1>1

\* What one event does: it places at most one edge, the robot's own distance from it being
\* the nearest it has been.
LEMMA FireEventIs ==
    ASSUME NEW w \in WorldType, NEW e \in EventType
    PROVE  /\ FireEvent(w, e) \in WorldType
           /\ FireEvent(w, e).pos = w.pos /\ FireEvent(w, e).hd = w.hd
           /\ FireEvent(w, e).waiting = w.waiting
           /\ \E p \in PlacedType :
                 /\ FireEvent(w, e).placed = Append(w.placed, p) /\ p.id = e.id
                 /\ p.edge # Nowhere => p.near = Apart(w.pos, p.edge)
<1>. DEFINE edge == w.pos + w.hd * e.ahead
            rear == w.pos - w.hd * Deep
            lo == Min({edge, rear})
            hi == Max({edge, rear})
            island == IF e.ahead = Nowhere THEN w ELSE PlaceBoundary(w, e.ahead)
            x == island.pos + island.hd * e.piece
            pieces == IF e.piece = Nowhere THEN island ELSE MaterializedAt(island, x)
            p == IF e.ahead = Nowhere THEN [id |-> e.id, edge |-> Nowhere, near |-> 0]
                 ELSE [id |-> e.id, edge |-> island.edge, near |-> e.ahead]
<1>1. /\ w.hd \in {-1, 1} /\ w.pos \in Int /\ Deep \in Int /\ e.piece \in Int
      /\ e.ahead \in {Nowhere} \cup Nat /\ e.id \in STRING
  <2>1. e.piece \in Int /\ e.ahead \in {Nowhere} \cup Nat /\ e.id \in STRING
    BY EventIs
  <2>2. w.hd \in {-1, 1} /\ w.pos \in Int /\ Deep \in Int
    BY WorldAssumption DEF WorldType
  <2>. QED  BY <2>1, <2>2
<1>2. /\ island \in WorldType /\ island.pos = w.pos /\ island.hd = w.hd
      /\ island.waiting = w.waiting /\ island.placed = w.placed
      /\ e.ahead # Nowhere => island.edge = edge
  <2>1. CASE e.ahead = Nowhere
    BY <2>1
  <2>2. CASE e.ahead # Nowhere
    <3>1. e.ahead \in Int
      BY <1>1, <2>2
    <3>2. edge \in Int /\ rear \in Int
      BY <1>1, <3>1, SignTimes
    <3>3. island = [w EXCEPT !.lo = lo, !.hi = hi, !.edge = edge, !.out = w.hd]
      BY <2>2 DEF PlaceBoundary
    <3>. HIDE DEF edge, rear, island
    <3>4. lo \in Int /\ hi \in Int
      BY <3>2, PairMin, PairMax
    <3>. HIDE DEF lo, hi
    <3>. QED  BY <1>1, <3>2, <3>3, <3>4 DEF WorldType
  <2>. QED  BY <2>1, <2>2
<1>3. p \in PlacedType /\ p.id = e.id /\ (p.edge # Nowhere => p.near = Apart(w.pos, p.edge))
  <2>1. CASE e.ahead = Nowhere
    BY <1>1, <2>1 DEF PlacedType, Nowhere
  <2>2. CASE e.ahead # Nowhere
    <3>1. e.ahead \in Nat
      BY <1>1, <2>2
    <3>2. edge \in Int /\ Apart(w.pos, edge) = e.ahead
      <4>1. CASE w.hd = 1
        BY <1>1, <3>1, <4>1 DEF Apart
      <4>2. CASE w.hd = -1
        BY <1>1, <3>1, <4>2 DEF Apart
      <4>. QED  BY <1>1, <4>1, <4>2
    <3>. HIDE DEF edge, island
    <3>. QED  BY <1>1, <1>2, <2>2, <3>1, <3>2 DEF PlacedType
  <2>. QED  BY <2>1, <2>2
<1>. HIDE DEF island, p
<1>4. /\ pieces \in WorldType /\ pieces.pos = w.pos /\ pieces.hd = w.hd
      /\ pieces.waiting = w.waiting /\ pieces.placed = w.placed
  <2>1. CASE e.piece = Nowhere
    BY <1>2, <2>1
  <2>2. CASE e.piece # Nowhere
    <3>1. x \in Int
      BY <1>1, <1>2, SignTimes
    <3>2. pieces = [island EXCEPT !.piece = "live", !.px = x, !.start = x]
      BY <2>2 DEF MaterializedAt
    <3>. HIDE DEF x, pieces
    <3>. QED  BY <1>2, <3>1, <3>2 DEF WorldType
  <2>. QED  BY <2>1, <2>2
<1>5. FireEvent(w, e) = [pieces EXCEPT !.placed = Append(@, p)]
  BY <1>2 DEF FireEvent, pieces, p, island
<1>. HIDE DEF pieces
<1>6. FireEvent(w, e) = [pieces EXCEPT !.placed = Append(w.placed, p)]
  BY <1>4, <1>5
<1>7. w.placed \in Seq(PlacedType) /\ Append(w.placed, p) \in Seq(PlacedType)
  BY <1>3 DEF WorldType
<1>8. /\ FireEvent(w, e) \in WorldType
      /\ FireEvent(w, e).pos = pieces.pos /\ FireEvent(w, e).hd = pieces.hd
      /\ FireEvent(w, e).waiting = pieces.waiting
      /\ FireEvent(w, e).placed = Append(w.placed, p)
  BY <1>4, <1>6, <1>7 DEF WorldType
<1>. QED  BY <1>3, <1>4, <1>8

\* The world after the first i of the events that wait.
FiredStep(w, f, i) ==
    IF i = 0 THEN [Approached(w) EXCEPT !.waiting = <<>>] ELSE FireOrWait(f[i - 1], w.waiting[i])
FiredUpTo(w, f, n) == f = [i \in 0..n |-> FiredStep(w, f, i)]

LEMMA FiredExists ==
    ASSUME NEW w, NEW n \in Nat
    PROVE  \E f : FiredUpTo(w, f, n)
<1>. DEFINE bad == {m \in Nat : ~\E f : FiredUpTo(w, f, m)}
<1>. SUFFICES ASSUME bad # {} PROVE FALSE
  OBVIOUS
<1>1. PICK m \in bad : \A k \in bad : m <= k
  <2>. HIDE DEF bad
  <2>1. bad \in SUBSET Nat
    BY DEF bad
  <2>. QED  BY <2>1, LeastIsThere
<1>2. m \in Nat /\ ~\E f : FiredUpTo(w, f, m)
  OBVIOUS
<1>3. CASE m = 0
  <2>. DEFINE f == [i \in 0..0 |-> [Approached(w) EXCEPT !.waiting = <<>>]]
  <2>1. \A i \in 0..0 : FiredStep(w, f, i) = [Approached(w) EXCEPT !.waiting = <<>>]
    BY DEF FiredStep
  <2>2. f = [i \in 0..0 |-> FiredStep(w, f, i)]
    <3>. HIDE DEF FiredStep
    <3>. QED  BY <2>1
  <2>. HIDE DEF f
  <2>. QED  BY <1>2, <1>3, <2>2 DEF FiredUpTo
<1>4. CASE m # 0
  <2>1. m - 1 \in Nat /\ ~(m <= m - 1)
    BY <1>2, <1>4
  <2>2. PICK f : FiredUpTo(w, f, m - 1)
    BY <1>1, <2>1
  <2>. DEFINE g == [i \in 0..m |-> IF i = m THEN FiredStep(w, f, m) ELSE f[i]]
  <2>3. \A i \in 0..(m - 1) : f[i] = FiredStep(w, f, i) /\ g[i] = f[i]
    <3>1. \A i \in 0..(m - 1) : f[i] = FiredStep(w, f, i)
      BY <2>2 DEF FiredUpTo
    <3>2. \A i \in 0..(m - 1) : i \in 0..m /\ i # m
      BY <1>2
    <3>. QED  BY <3>1, <3>2
  <2>4. ASSUME NEW i \in 0..m PROVE g[i] = FiredStep(w, g, i)
    <3>1. g[i] = FiredStep(w, f, i)
      <4>1. i = m \/ i \in 0..(m - 1)
        BY <1>2
      <4>2. g[m] = FiredStep(w, f, m)
        BY <1>2
      <4>. HIDE DEF g
      <4>. QED  BY <2>3, <4>1, <4>2
    <3>. HIDE DEF g
    <3>2. CASE i = 0
      BY <3>1, <3>2 DEF FiredStep
    <3>3. CASE i # 0
      <4>1. i - 1 \in 0..(m - 1)
        BY <1>2, <3>3
      <4>2. g[i - 1] = f[i - 1]
        BY <2>3, <4>1
      <4>. QED  BY <3>1, <4>2 DEF FiredStep
    <3>. QED  BY <3>2, <3>3
  <2>5. g = [i \in 0..m |-> FiredStep(w, g, i)]
    <3>. DEFINE h(x) == FiredStep(w, g, x)
    <3>1. \A i \in 0..m : g[i] = h(i)
      BY <2>4
    <3>2. g = [i \in 0..m |-> g[i]]
      OBVIOUS
    <3>. HIDE DEF h, g
    <3>3. g = [i \in 0..m |-> h(i)]
      BY <3>1, <3>2
    <3>. QED  BY <3>3 DEF h
  <2>. HIDE DEF g
  <2>. QED  BY <1>2, <2>5 DEF FiredUpTo
<1>. QED  BY <1>3, <1>4

LEMMA FireEventsIs ==
    ASSUME NEW w, Len(w.waiting) \in Nat
    PROVE  \E f : FiredUpTo(w, f, Len(w.waiting)) /\ FireEvents(w) = f[Len(w.waiting)]
<1>. DEFINE n == Len(w.waiting)
            f == CHOOSE g : g = [i \in 0..n |-> FiredStep(w, g, i)]
<1>1. \E g : g = [i \in 0..n |-> FiredStep(w, g, i)]
  BY FiredExists DEF FiredUpTo
<1>2. f = [i \in 0..n |-> FiredStep(w, f, i)]
  <2>. HIDE DEF FiredStep
  <2>. QED  BY <1>1
<1>3. FireEvents(w) = f[n]
  BY DEF FireEvents, FiredStep
<1>. HIDE DEF f
<1>. QED  BY <1>2, <1>3 DEF FiredUpTo

-----------------------------------------------------------------------------
(***************************************************************************)
(* The events that fire in one step, one after the other: who waits, where *)
(* edges are placed, and how far the robot has retreated by then.          *)
(***************************************************************************)
\* The edge placed k-th among those there were, and its distance so far.
Near(w, k) == IF w.placed[k].edge = Nowhere THEN w.placed[k].near
              ELSE IF w.placed[k].near <= Apart(w.pos, w.placed[k].edge)
                   THEN w.placed[k].near ELSE Apart(w.pos, w.placed[k].edge)

\* Event e of the card waited for a retreat and saw it.
Earned(w, e) ==
    e.retreat # Never =>
       \E k \in 1..Len(w.placed) :
          /\ w.placed[k].id = e.after /\ w.placed[k].edge # Nowhere
          /\ Apart(w.pos, w.placed[k].edge) - Near(w, k) >= e.retreat

SoFar(w, v, i) ==
    /\ v \in WorldType /\ v.pos = w.pos /\ v.hd = w.hd
    /\ Len(v.waiting) <= i
    /\ \A k \in 1..Len(v.waiting) : \E j \in 1..Len(w.waiting) : v.waiting[k] = w.waiting[j]
    /\ Len(v.waiting) = i => v.px = w.px /\ v.piece = w.piece
    /\ Len(w.placed) <= Len(v.placed)
    /\ \A k \in 1..Len(w.placed) : /\ v.placed[k].id = w.placed[k].id
                                   /\ v.placed[k].edge = w.placed[k].edge
                                   /\ v.placed[k].near = Near(w, k)
    /\ \A k \in 1..Len(v.placed) : k > Len(w.placed) =>
          /\ v.placed[k].edge # Nowhere => v.placed[k].near = Apart(w.pos, v.placed[k].edge)
          /\ \E j \in 1..Len(w.waiting) : v.placed[k].id = w.waiting[j].id /\ Earned(w, w.waiting[j])

LEMMA ApproachedIs ==
    ASSUME NEW w \in WorldType
    PROVE  SoFar(w, [Approached(w) EXCEPT !.waiting = <<>>], 0)
<1>. DEFINE f(p) == Closer(p, w.pos)
            q == [i \in DOMAIN w.placed |-> f(w.placed[i])]
            v == [w EXCEPT !.placed = q, !.waiting = <<>>]
<1>1. w.placed \in Seq(PlacedType) /\ DOMAIN w.placed = 1..Len(w.placed) /\ Len(w.placed) \in Nat
      /\ w.pos \in Int
  BY DEF WorldType
<1>2. ASSUME NEW i \in 1..Len(w.placed)
      PROVE  /\ f(w.placed[i]) \in PlacedType /\ f(w.placed[i]).id = w.placed[i].id
             /\ f(w.placed[i]).edge = w.placed[i].edge /\ f(w.placed[i]).near = Near(w, i)
  <2>1. w.placed[i] \in PlacedType
    BY <1>1
  <2>2. w.placed[i].near \in Nat /\ w.placed[i].edge \in Int
    BY <2>1 DEF PlacedType
  <2>3. Apart(w.pos, w.placed[i].edge) \in Nat
    BY <1>1, <2>2, ApartIs
  <2>4. Min({w.placed[i].near, Apart(w.pos, w.placed[i].edge)})
          = IF w.placed[i].near <= Apart(w.pos, w.placed[i].edge)
            THEN w.placed[i].near ELSE Apart(w.pos, w.placed[i].edge)
    BY <2>2, <2>3, PairMin
  <2>5. CASE w.placed[i].edge = Nowhere
    BY <2>1, <2>5 DEF Near, Closer
  <2>6. CASE w.placed[i].edge # Nowhere
    <3>. DEFINE a == Apart(w.pos, w.placed[i].edge)
                m == IF w.placed[i].near <= a THEN w.placed[i].near ELSE a
    <3>1. f(w.placed[i]) = [w.placed[i] EXCEPT !.near = m]
      BY <2>4, <2>6 DEF Closer
    <3>2. m \in Nat
      BY <2>2, <2>3
    <3>3. m = Near(w, i)
      BY <2>6 DEF Near
    <3>. HIDE DEF m, f
    <3>. QED  BY <2>1, <3>1, <3>2, <3>3 DEF PlacedType
  <2>. QED  BY <2>5, <2>6
<1>3. [Approached(w) EXCEPT !.waiting = <<>>] = v
  <2>1. Approached(w) = [w EXCEPT !.placed = q]
    BY DEF Approached
  <2>. HIDE DEF q
  <2>2. v = [[w EXCEPT !.placed = q] EXCEPT !.waiting = <<>>]
    BY DEF WorldType
  <2>. HIDE DEF v
  <2>. QED  BY <2>1, <2>2
<1>. HIDE DEF f
<1>4. /\ q \in Seq(PlacedType) /\ Len(q) = Len(w.placed)
      /\ \A k \in 1..Len(w.placed) : q[k] = f(w.placed[k])
  <2>1. q \in [1..Len(w.placed) -> PlacedType]
    BY <1>1, <1>2
  <2>. QED  BY <1>1, <2>1
<1>. HIDE DEF q
<1>5. /\ v \in WorldType /\ v.pos = w.pos /\ v.hd = w.hd /\ v.waiting = <<>>
      /\ v.px = w.px /\ v.piece = w.piece /\ v.placed = q
  <2>1. <<>> \in Seq(EventType)
    OBVIOUS
  <2>. QED  BY <1>4, <2>1 DEF WorldType
<1>. HIDE DEF v
<1>6. Len(v.waiting) = 0
  BY <1>5
<1>7. \A k \in 1..Len(w.placed) : /\ v.placed[k].id = w.placed[k].id
                                  /\ v.placed[k].edge = w.placed[k].edge
                                  /\ v.placed[k].near = Near(w, k)
  BY <1>2, <1>4, <1>5
<1>8. Len(v.placed) = Len(w.placed)
  BY <1>4, <1>5
<1>9. \A k \in 1..Len(v.placed) : ~(k > Len(w.placed))
  BY <1>1, <1>8
<1>10. Len(w.placed) <= Len(v.placed) /\ Len(v.waiting) <= 0
       /\ \A k \in 1..Len(v.waiting) : FALSE
  BY <1>1, <1>6, <1>8
<1>. HIDE DEF Near
<1>11. SoFar(w, v, 0)
  BY <1>5, <1>7, <1>9, <1>10 DEF SoFar
<1>. QED  BY <1>3, <1>11

LEMMA WorldIs ==
    ASSUME NEW w \in WorldType
    PROVE  /\ w.placed \in Seq(PlacedType) /\ Len(w.placed) \in Nat
           /\ w.waiting \in Seq(EventType) /\ Len(w.waiting) \in Nat
           /\ w.pos \in Int /\ w.hd \in {-1, 1} /\ w.px \in Int
BY DEF WorldType

LEMMA WaitsOn ==
    ASSUME NEW w \in WorldType, NEW v, NEW i \in 1..Len(w.waiting), SoFar(w, v, i - 1)
    PROVE  SoFar(w, [v EXCEPT !.waiting = Append(@, w.waiting[i])], i)
<1>. DEFINE e == w.waiting[i]
            q == Append(v.waiting, e)
            u == [v EXCEPT !.waiting = q]
<1>1. /\ v \in WorldType /\ v.waiting \in Seq(EventType) /\ w.waiting \in Seq(EventType)
      /\ Len(w.waiting) \in Nat /\ Len(v.waiting) \in Nat /\ Len(v.waiting) <= i - 1
  <2>1. v \in WorldType /\ Len(v.waiting) <= i - 1
    BY DEF SoFar
  <2>. QED  BY <2>1, WorldIs
<1>2. e \in EventType
  BY <1>1
<1>3. /\ q \in Seq(EventType) /\ Len(q) = Len(v.waiting) + 1 /\ q[Len(v.waiting) + 1] = e
      /\ \A k \in 1..Len(v.waiting) : q[k] = v.waiting[k]
  BY <1>1, <1>2
<1>4. \A k \in 1..Len(q) : \E j \in 1..Len(w.waiting) : q[k] = w.waiting[j]
  <2>. TAKE k \in 1..Len(q)
  <2>1. CASE k = Len(v.waiting) + 1
    BY <1>3, <2>1
  <2>2. CASE k \in 1..Len(v.waiting)
    <3>1. \E j \in 1..Len(w.waiting) : v.waiting[k] = w.waiting[j]
      BY <2>2 DEF SoFar
    <3>. QED  BY <1>3, <2>2, <3>1
  <2>. QED  BY <1>1, <1>3, <2>1, <2>2
<1>. HIDE DEF q
<1>5. /\ u \in WorldType /\ u.pos = v.pos /\ u.hd = v.hd /\ u.waiting = q
      /\ u.px = v.px /\ u.piece = v.piece /\ u.placed = v.placed
  BY <1>1, <1>3 DEF WorldType
<1>6. u = [v EXCEPT !.waiting = Append(@, w.waiting[i])]
  BY DEF q
<1>7. Len(u.waiting) <= i /\ (Len(u.waiting) = i => Len(v.waiting) = i - 1)
  BY <1>1, <1>3, <1>5
<1>. HIDE DEF u, Near, Earned
<1>8. SoFar(w, u, i)
  BY <1>4, <1>5, <1>7 DEF SoFar
<1>. QED  BY <1>6, <1>8

LEMMA FiresNow ==
    ASSUME NEW w \in WorldType, NEW v, NEW i \in 1..Len(w.waiting), SoFar(w, v, i - 1),
           EventReady(v, w.waiting[i])
    PROVE  SoFar(w, FireEvent(v, w.waiting[i]), i)
<1>. DEFINE e == w.waiting[i]
            u == FireEvent(v, e)
<1>1. /\ v \in WorldType /\ v.placed \in Seq(PlacedType) /\ w.waiting \in Seq(EventType)
      /\ w.placed \in Seq(PlacedType) /\ Len(w.placed) \in Nat /\ Len(v.placed) \in Nat
      /\ v.waiting \in Seq(EventType) /\ w.pos \in Int /\ v.pos = w.pos
      /\ Len(w.waiting) \in Nat /\ Len(v.waiting) \in Nat /\ Len(v.waiting) <= i - 1
      /\ Len(w.placed) <= Len(v.placed)
  <2>1. /\ v \in WorldType /\ Len(v.waiting) <= i - 1 /\ v.pos = w.pos
        /\ Len(w.placed) <= Len(v.placed)
    BY DEF SoFar
  <2>. QED  BY <2>1, WorldIs
<1>2. e \in EventType
  BY <1>1
<1>3a. PICK p \in PlacedType :
         /\ FireEvent(v, e).placed = Append(v.placed, p) /\ p.id = e.id
         /\ p.edge # Nowhere => p.near = Apart(v.pos, p.edge)
  <2>. HIDE DEF e
  <2>. QED  BY <1>1, <1>2, FireEventIs
<1>3b. u \in WorldType /\ u.pos = v.pos /\ u.hd = v.hd /\ u.waiting = v.waiting
  <2>1. u = FireEvent(v, e)
    OBVIOUS
  <2>. HIDE DEF e, u
  <2>. QED  BY <1>1, <1>2, <2>1, FireEventIs
<1>3. /\ u \in WorldType /\ u.pos = v.pos /\ u.hd = v.hd /\ u.waiting = v.waiting
      /\ u.placed = Append(v.placed, p)
      /\ p.id = e.id /\ (p.edge # Nowhere => p.near = Apart(v.pos, p.edge))
  <2>1. u.placed = FireEvent(v, e).placed
    OBVIOUS
  <2>. HIDE DEF u, e
  <2>2. u.placed = Append(v.placed, p)
    BY <1>3a, <2>1
  <2>3. p.id = e.id /\ (p.edge # Nowhere => p.near = Apart(v.pos, p.edge))
    BY <1>3a
  <2>. QED  BY <1>3b, <2>2, <2>3
<1>4. /\ Len(u.placed) = Len(v.placed) + 1 /\ u.placed[Len(v.placed) + 1] = p
      /\ \A k \in 1..Len(v.placed) : u.placed[k] = v.placed[k]
  BY <1>1, <1>3
<1>5. Earned(w, e)
  <2>. SUFFICES ASSUME e.retreat # Never
                PROVE  \E k \in 1..Len(w.placed) :
                          /\ w.placed[k].id = e.after /\ w.placed[k].edge # Nowhere
                          /\ Apart(w.pos, w.placed[k].edge) - Near(w, k) >= e.retreat
    BY DEF Earned
  <2>1. e.after # "" /\ e.retreat \in Nat \ {0}
    BY <1>2, EventIs
  <2>2. PICK r \in Range(v.placed) : r.id = e.after /\ Retreated(v, e, r)
    BY <2>1 DEF EventReady
  <2>3. PICK k \in 1..Len(v.placed) : v.placed[k] = r
    BY SMTT(30), <1>1 DEF Range
  <2>4. r \in PlacedType /\ r.edge # Nowhere /\ Apart(w.pos, r.edge) - r.near >= e.retreat
    BY <1>1, <2>2, <2>3 DEF Retreated
  <2>5. r.edge \in Int /\ r.near \in Nat /\ Apart(w.pos, r.edge) \in Nat
    BY <1>1, <2>4, ApartIs DEF PlacedType
  <2>6. ~(k > Len(w.placed))
    <3>1. SUFFICES ASSUME k > Len(w.placed) PROVE FALSE
      OBVIOUS
    <3>2. v.placed[k].edge # Nowhere => v.placed[k].near = Apart(w.pos, v.placed[k].edge)
      BY <2>3, <3>1, Zenon DEF SoFar
    <3>3. r.near = Apart(w.pos, r.edge)
      BY <2>3, <2>4, <3>2
    <3>. DEFINE a == Apart(w.pos, r.edge)
                b == e.retreat
    <3>4. a - r.near >= b /\ r.near = a /\ a \in Nat /\ b \in Nat \ {0}
      BY <2>1, <2>4, <2>5, <3>3
    <3>. HIDE DEF a, b
    <3>. QED  BY <3>4
  <2>7. k \in 1..Len(w.placed)
    BY <1>1, <2>6
  <2>8. w.placed[k].id = r.id /\ w.placed[k].edge = r.edge /\ r.near = Near(w, k)
    BY <2>3, <2>7 DEF SoFar
  <2>. QED  BY <2>2, <2>4, <2>7, <2>8
<1>6. \A k \in 1..Len(u.placed) : k > Len(w.placed) =>
        /\ u.placed[k].edge # Nowhere => u.placed[k].near = Apart(w.pos, u.placed[k].edge)
        /\ \E j \in 1..Len(w.waiting) : u.placed[k].id = w.waiting[j].id /\ Earned(w, w.waiting[j])
  <2>. TAKE k \in 1..Len(u.placed)
  <2>1. CASE k = Len(v.placed) + 1
    BY <1>1, <1>3, <1>4, <1>5, <2>1
  <2>2. CASE k \in 1..Len(v.placed)
    <3>. HIDE DEF Earned, u
    <3>1. k > Len(w.placed) =>
            /\ v.placed[k].edge # Nowhere => v.placed[k].near = Apart(w.pos, v.placed[k].edge)
            /\ \E j \in 1..Len(w.waiting) : v.placed[k].id = w.waiting[j].id /\ Earned(w, w.waiting[j])
      BY <2>2, Zenon DEF SoFar
    <3>. QED  BY <1>4, <2>2, <3>1
  <2>3. k = Len(v.placed) + 1 \/ k \in 1..Len(v.placed)
    BY <1>1, <1>4
  <2>. HIDE DEF Earned, u
  <2>. QED  BY <2>1, <2>2, <2>3
<1>7. \A k \in 1..Len(w.placed) : /\ u.placed[k].id = w.placed[k].id
                                  /\ u.placed[k].edge = w.placed[k].edge
                                  /\ u.placed[k].near = Near(w, k)
  <2>. TAKE k \in 1..Len(w.placed)
  <2>1. k \in 1..Len(v.placed)
    BY <1>1
  <2>2. /\ v.placed[k].id = w.placed[k].id
        /\ v.placed[k].edge = w.placed[k].edge
        /\ v.placed[k].near = Near(w, k)
    BY Zenon DEF SoFar
  <2>. HIDE DEF u, Near
  <2>. QED  BY <1>4, <2>1, <2>2
<1>8. Len(w.placed) <= Len(u.placed) /\ Len(u.waiting) <= i /\ Len(u.waiting) # i
  BY <1>1, <1>3, <1>4
<1>9. \A k \in 1..Len(u.waiting) : \E j \in 1..Len(w.waiting) : u.waiting[k] = w.waiting[j]
  BY <1>3 DEF SoFar
<1>10. u \in WorldType /\ u.pos = w.pos /\ u.hd = w.hd
  BY <1>1, <1>3 DEF SoFar
<1>. HIDE DEF u, Near, Earned
<1>11. SoFar(w, u, i)
  BY <1>6, <1>7, <1>8, <1>9, <1>10 DEF SoFar
<1>. QED  BY <1>11 DEF u

LEMMA SoFarAlways ==
    ASSUME NEW w \in WorldType, NEW f, FiredUpTo(w, f, Len(w.waiting))
    PROVE  \A i \in 0..Len(w.waiting) : SoFar(w, f[i], i)
<1>. DEFINE n == Len(w.waiting)
            bad == {i \in 0..n : ~SoFar(w, f[i], i)}
<1>1. n \in Nat
  BY DEF WorldType
<1>. SUFFICES ASSUME bad # {} PROVE FALSE
  BY DEF bad
<1>2. PICK k \in bad : \A j \in bad : k <= j
  <2>. HIDE DEF bad
  <2>1. bad \in SUBSET Nat
    BY <1>1 DEF bad
  <2>. QED  BY <2>1, LeastIsThere
<1>3. k \in 0..n /\ ~SoFar(w, f[k], k)
  OBVIOUS
<1>4. f[k] = FiredStep(w, f, k)
  BY <1>3 DEF FiredUpTo
<1>5. k # 0
  BY <1>3, <1>4, ApproachedIs DEF FiredStep
<1>6. k - 1 \in 0..n /\ ~(k <= k - 1) /\ k \in 1..n
  BY <1>1, <1>3, <1>5
<1>7. SoFar(w, f[k - 1], k - 1)
  BY <1>2, <1>6
<1>8. f[k] = FireOrWait(f[k - 1], w.waiting[k])
  BY <1>4, <1>5 DEF FiredStep
<1>. HIDE DEF bad
<1>9. CASE EventReady(f[k - 1], w.waiting[k])
  BY <1>3, <1>6, <1>7, <1>8, <1>9, FiresNow DEF FireOrWait
<1>10. CASE ~EventReady(f[k - 1], w.waiting[k])
  BY <1>3, <1>6, <1>7, <1>8, <1>10, WaitsOn DEF FireOrWait
<1>. QED  BY <1>9, <1>10

LEMMA WorldAdvances ==
    ASSUME NEW c, c.at \in Int, NEW w \in WorldType
    PROVE  LET v == AdvanceWorld(c, w) IN
           /\ v \in WorldType /\ v.pos = w.pos /\ v.hd = w.hd
           /\ v.waiting = w.waiting /\ w.piece = "live" => v.px = w.px /\ v.piece = w.piece
           /\ \A k \in 1..Len(v.waiting) : \E j \in 1..Len(w.waiting) : v.waiting[k] = w.waiting[j]
           /\ Len(w.placed) <= Len(v.placed)
           /\ \A k \in 1..Len(w.placed) : /\ v.placed[k].id = w.placed[k].id
                                          /\ v.placed[k].edge = w.placed[k].edge
                                          /\ v.placed[k].near \in {w.placed[k].near, Near(w, k)}
           /\ \A k \in 1..Len(v.placed) : k > Len(w.placed) =>
                 /\ v.placed[k].edge # Nowhere => v.placed[k].near = Apart(w.pos, v.placed[k].edge)
                 /\ \E j \in 1..Len(w.waiting) :
                       v.placed[k].id = w.waiting[j].id /\ Earned(w, w.waiting[j])
<1>. DEFINE u == ActivatePieces(c, w)
            v == AdvanceWorld(c, w)
<1>1. /\ u \in WorldType /\ u.pos = w.pos /\ u.hd = w.hd
      /\ u.waiting = w.waiting /\ u.placed = w.placed /\ (w.piece = "live" => u = w)
  BY PiecesActivate
<1>2. v = IF u.waiting = <<>> THEN u ELSE FireEvents(u)
  BY DEF AdvanceWorld
<1>. HIDE DEF u, v
<1>3. Len(w.placed) \in Nat /\ Len(w.waiting) \in Nat /\ u.waiting \in Seq(EventType)
  BY <1>1, WorldIs
<1>4. CASE u.waiting = <<>>
  <2>1. v = u
    BY <1>2, <1>4
  <2>2. \A k \in 1..Len(v.placed) : ~(k > Len(w.placed))
    BY <1>1, <1>3, <2>1
  <2>3. \A k \in 1..Len(v.waiting) : \E j \in 1..Len(w.waiting) : v.waiting[k] = w.waiting[j]
    BY <1>1, <2>1
  <2>. HIDE DEF Near, Earned
  <2>. QED  BY <1>1, <1>3, <2>1, <2>2, <2>3 DEF v
<1>5. CASE u.waiting # <<>>
  <2>1. SoFar(u, v, Len(u.waiting))
    <3>1. Len(u.waiting) \in Nat
      BY <1>3
    <3>2. PICK f : FiredUpTo(u, f, Len(u.waiting)) /\ FireEvents(u) = f[Len(u.waiting)]
      BY <3>1, FireEventsIs
    <3>3. SoFar(u, f[Len(u.waiting)], Len(u.waiting))
      BY <1>1, <3>1, <3>2, SoFarAlways
    <3>. QED  BY <1>2, <1>5, <3>2, <3>3
  <2>2. \A k : Near(u, k) = Near(w, k)
    BY <1>1 DEF Near
  <2>3. \A e : Earned(u, e) <=> Earned(w, e)
    <3>. HIDE DEF Near
    <3>. QED  BY <1>1, <2>2 DEF Earned
  <2>. HIDE DEF Near, Earned
  <2>4. /\ v \in WorldType /\ v.pos = w.pos /\ v.hd = w.hd
        /\ Len(v.waiting) = Len(w.waiting) => v.px = u.px /\ v.piece = u.piece
        /\ \A k \in 1..Len(v.waiting) : \E j \in 1..Len(w.waiting) : v.waiting[k] = w.waiting[j]
        /\ Len(w.placed) <= Len(v.placed)
    BY <1>1, <2>1 DEF SoFar
  <2>5. \A k \in 1..Len(w.placed) : /\ v.placed[k].id = w.placed[k].id
                                    /\ v.placed[k].edge = w.placed[k].edge
                                    /\ v.placed[k].near = Near(w, k)
    BY <1>1, <2>1, <2>2 DEF SoFar
  <2>6. \A k \in 1..Len(v.placed) : k > Len(w.placed) =>
          /\ v.placed[k].edge # Nowhere => v.placed[k].near = Apart(w.pos, v.placed[k].edge)
          /\ \E j \in 1..Len(w.waiting) :
                v.placed[k].id = w.waiting[j].id /\ Earned(w, w.waiting[j])
    BY <1>1, <2>1, <2>3 DEF SoFar
  <2>7. v.waiting = w.waiting /\ w.piece = "live" => v.px = w.px /\ v.piece = w.piece
    BY <1>1, <2>4
  <2>8. \A k \in 1..Len(w.placed) : v.placed[k].near \in {w.placed[k].near, Near(w, k)}
    BY <2>5
  <2>. QED  BY <2>4, <2>5, <2>6, <2>7, <2>8 DEF v
<1>. QED  BY <1>4, <1>5

-----------------------------------------------------------------------------
\* The world before the first block, and after one that does not drive.
LEMMA NewWorldIs ==
    ASSUME NEW c, c.at \in Int, c.events \in Seq(EventType)
    PROVE  NewWorld(c) \in WorldType
<1>1. c.at \in Int /\ c.events \in Seq(EventType) /\ Field \in Int /\ -Field \in Int
  BY WorldAssumption
<1>. DEFINE piece == IF c.at = Nowhere THEN "none" ELSE IF c.late > 0 THEN "pending" ELSE "live"
            px == IF c.at = Nowhere \/ c.late > 0 THEN 0 ELSE c.at
<1>2. piece \in {"none", "pending", "live", "cleared"} /\ px \in Int
  BY <1>1
<1>3. NewWorld(c) =
        [pos |-> 0, hd |-> 1, step |-> 0, lo |-> -Field, hi |-> Field, exits |-> FALSE,
         edge |-> Nowhere, out |-> 1, piece |-> piece, px |-> px, start |-> px,
         contact |-> Never, cleared |-> Never, waiting |-> c.events, placed |-> <<>>]
  BY DEF NewWorld
<1>4. Nowhere \in Int /\ Never \in Int /\ <<>> \in Seq(PlacedType)
  BY DEF Nowhere, Never
<1>. HIDE DEF piece, px
<1>. QED  BY <1>1, <1>2, <1>3, <1>4 DEF WorldType

LEMMA TurnedIs ==
    ASSUME NEW w \in WorldType
    PROVE  /\ Turned(w) \in WorldType /\ Turned(w).pos = w.pos /\ Turned(w).waiting = w.waiting
           /\ Turned(w).placed = w.placed /\ Turned(w).px = w.px
           /\ Stopped(w) \in WorldType /\ Stopped(w).pos = w.pos /\ Stopped(w).waiting = w.waiting
           /\ Stopped(w).placed = w.placed /\ Stopped(w).px = w.px
<1>. DEFINE k == w.step + 1
            x == -w.hd
<1>1. k \in Int /\ x \in {-1, 1}
  BY DEF WorldType
<1>2. Turned(w) = [w EXCEPT !.hd = x, !.step = k] /\ Stopped(w) = [w EXCEPT !.step = k]
  BY DEF Turned, Stopped
<1>. HIDE DEF k, x
<1>. QED  BY ZenonT(30), <1>1, <1>2 DEF WorldType
=============================================================================
