---------------------------- MODULE BatteryProofs ----------------------------
(***************************************************************************)
(* What holds of every battery, program, length of drive and setting of    *)
(* the rules: first the types of what a scenario records, then what the    *)
(* walks, filters and scans of the evidence come to, and from it that the  *)
(* two scans agree; then what one more scenario does to bands and levels;  *)
(* then that nothing counts after a failure; and at last that the check    *)
(* and the evidence find the same encounters.                              *)
(*                                                                         *)
(* A scan, a filter and a flattening are recursive functions, so their     *)
(* lemmas first show that such a function exists (Iterates), and then what *)
(* every value of it is (HandedOn).                                        *)
(***************************************************************************)
EXTENDS Battery, WorldProofs

-----------------------------------------------------------------------------
(***************************************************************************)
(* What the recorded run of a scenario is made of.                         *)
(***************************************************************************)
RowType == [step : Int, x : Int, hd : {-1, 1}]
LogType == [step : Int, id : STRING, edge : Int]
RunType == [w : WorldType, path : Seq(RowType), log : Seq(LogType), shown : Int, detect : Int]

Typed ==
    /\ battery \in Batteries /\ todo \in Seq(CardType) /\ sim \in RunType
    /\ act \in {0, 1, Never}

LEMMA CardIs ==
    ASSUME NEW c \in CardType
    PROVE  c.at \in Int /\ c.events \in Seq(EventType) /\ c.id \in STRING
BY DEF CardType

LEMMA ResolvedIs ==
    ASSUME NEW c \in CardType, NEW step \in Int
    PROVE  Resolved(c, step).at \in Int /\ Resolved(c, step).events \in Seq(EventType)
<1>. DEFINE new(e) == IF e.after = "" THEN [e EXCEPT !.at = step] ELSE e
            es == [i \in DOMAIN c.events |-> new(c.events[i])]
<1>1. c.events \in Seq(EventType) /\ DOMAIN c.events = 1..Len(c.events) /\ Len(c.events) \in Nat
  BY DEF CardType
<1>2. ASSUME NEW e \in EventType PROVE new(e) \in EventType
  BY DEF EventType
<1>3. \A i \in 1..Len(c.events) : c.events[i] \in EventType
  BY <1>1
<1>. HIDE DEF new
<1>4. es \in [1..Len(c.events) -> EventType]
  BY <1>1, <1>2, <1>3
<1>5. es \in Seq(EventType)
  BY <1>1, <1>4
<1>6. Resolved(c, step) = [c EXCEPT !.events = es]
  BY DEF Resolved, new
<1>. HIDE DEF es
<1>. QED  BY <1>5, <1>6 DEF CardType

LEMMA StartedIs ==
    ASSUME NEW c \in CardType, NEW step \in Int
    PROVE  Started(c, step) \in RunType
<1>. DEFINE r == Resolved(c, step)
            w == NewWorld(r)
<1>1. w \in WorldType
  <2>. HIDE DEF r
  <2>1. r.at \in Int /\ r.events \in Seq(EventType)
    BY ResolvedIs DEF r
  <2>. QED  BY <2>1, NewWorldIs
<1>. HIDE DEF w
<1>2. Arena \in Int /\ -Arena \in Int
  BY BatteryAssumption
<1>3. [w EXCEPT !.lo = -Arena, !.hi = Arena] \in WorldType
  BY <1>1, <1>2 DEF WorldType
<1>4. ScenarioWorld(r) \in WorldType
  BY <1>1, <1>3 DEF ScenarioWorld, w
<1>5. <<>> \in Seq(RowType) /\ <<>> \in Seq(LogType) /\ Never \in Int
  BY DEF Never
<1>6. Started(c, step) = [w |-> ScenarioWorld(r), path |-> <<>>, log |-> <<>>,
                          shown |-> Never, detect |-> Never]
  BY DEF Started
<1>. HIDE DEF r
<1>. QED  BY <1>4, <1>5, <1>6 DEF RunType

LEMMA AdvancedIs ==
    ASSUME Typed, todo # <<>>
    PROVE  Advanced \in RunType /\ Advanced.path = sim.path
<1>. DEFINE v == AdvanceWorld(scenario, sim.w)
            n == Len(sim.w.placed)
            fired == SubSeq(v.placed, n + 1, Len(v.placed))
            rec(p) == [step |-> v.step, id |-> p.id, edge |-> p.edge]
            new == [i \in DOMAIN fired |-> rec(fired[i])]
            shown == IF sim.shown = Never /\ v.piece = "live" /\ sim.w.piece # "live"
                     THEN v.step ELSE sim.shown
<1>1. /\ sim \in RunType /\ sim.w \in WorldType /\ sim.log \in Seq(LogType) /\ sim.shown \in Int
  BY DEF Typed, RunType
<1>2. scenario \in CardType /\ scenario.at \in Int
  <2>1. scenario \in CardType
    BY DEF Typed, scenario
  <2>. QED  BY <2>1, CardIs
<1>3. v \in WorldType /\ n <= Len(v.placed) /\ n \in Nat
  <2>1. v \in WorldType /\ n <= Len(v.placed)
    BY <1>1, <1>2, WorldAdvances
  <2>. QED  BY <1>1, <2>1, WorldIs
<1>. HIDE DEF v
<1>4. v.placed \in Seq(PlacedType) /\ Len(v.placed) \in Nat /\ v.step \in Int
  BY <1>3 DEF WorldType
<1>5. fired \in Seq(PlacedType)
  BY <1>3, <1>4
<1>. HIDE DEF fired
<1>6. ASSUME NEW p \in PlacedType PROVE rec(p) \in LogType
  BY <1>4 DEF PlacedType, LogType
<1>7. DOMAIN fired = 1..Len(fired) /\ Len(fired) \in Nat /\ \A i \in 1..Len(fired) : fired[i] \in PlacedType
  BY <1>5
<1>. HIDE DEF rec
<1>8. new \in [1..Len(fired) -> LogType]
  BY <1>6, <1>7
<1>9. new \in Seq(LogType)
  BY <1>7, <1>8
<1>10. Advanced = [sim EXCEPT !.w = v, !.log = sim.log \o new, !.shown = shown]
  BY DEF Advanced, new, rec, fired, v
<1>. HIDE DEF new, shown
<1>11. shown \in Int
  BY <1>1, <1>4 DEF shown
<1>12. sim.log \o new \in Seq(LogType)
  BY <1>1, <1>9
<1>. QED  BY <1>1, <1>3, <1>10, <1>11, <1>12 DEF RunType

LEMMA RanIs ==
    ASSUME NEW run \in RunType, NEW w \in WorldType, NEW pushed
    PROVE  Ran(run, w, pushed) \in RunType
<1>. DEFINE row == [step |-> run.w.step, x |-> w.pos, hd |-> w.hd]
            path == Append(run.path, row)
<1>1. run.w \in WorldType /\ run.path \in Seq(RowType) /\ run.shown \in Int
  BY DEF RunType
<1>2. run.w.step \in Int /\ w.pos \in Int /\ w.hd \in {-1, 1}
  BY <1>1 DEF WorldType
<1>3. row \in RowType
  BY <1>2 DEF RowType
<1>. HIDE DEF row
<1>4. path \in Seq(RowType)
  BY <1>1, <1>3
<1>5. Shown(run, pushed) \in Int
  BY <1>1, <1>2 DEF Shown
<1>6. Ran(run, w, pushed) = [run EXCEPT !.w = w, !.shown = Shown(run, pushed), !.path = path]
  BY DEF Ran, row
<1>. HIDE DEF path
<1>. QED  BY <1>4, <1>5, <1>6 DEF RunType

LEMMA TypedInit ==
    ASSUME Init
    PROVE  Typed
<1>1. battery \in Batteries /\ todo = battery.tests /\ act \in {0, 1, Never} /\ sim = Started(todo[1], act)
  BY DEF Init
<1>2. todo \in Seq(CardType) /\ todo # <<>>
  BY <1>1, BatteryAssumption
<1>3. todo[1] \in CardType /\ act \in Int
  BY <1>1, <1>2 DEF Never
<1>. QED  BY <1>1, <1>2, <1>3, StartedIs DEF Typed

LEMMA TypedStep ==
    ASSUME Typed, [Next]_vars
    PROVE  Typed'
<1>1. CASE UNCHANGED vars
  BY <1>1 DEF vars, Typed
<1>2. ASSUME Running, Keeps, sim' \in RunType PROVE Typed'
  BY <1>2 DEF Keeps, Typed
<1>3. ASSUME Running
      PROVE  Advanced \in RunType /\ Advanced.w \in WorldType
  <2>1. Advanced \in RunType
    BY <1>3, AdvancedIs DEF Running
  <2>. QED  BY <2>1 DEF RunType
<1>4. ASSUME NEW d \in Lengths, DriveFor(d) PROVE Typed'
  <2>1. Running /\ Keeps
    BY <1>4 DEF DriveFor
  <2>2. d \in Int
    BY BatteryAssumption
  <2>3. Driven(scenario, Advanced.w, d) \in WorldType
    BY <1>3, <2>1, <2>2, DrivenIs
  <2>4. sim' \in RunType
    BY <1>3, <1>4, <2>1, <2>3, RanIs DEF DriveFor
  <2>. QED  BY <1>2, <2>1, <2>4
<1>5. CASE TurnAround
  <2>1. Running /\ Keeps /\ Turned(Advanced.w) \in WorldType
    BY <1>3, <1>5, TurnedIs DEF TurnAround
  <2>. QED  BY <1>2, <1>3, <1>5, <2>1, RanIs DEF TurnAround
<1>6. CASE Sense
  <2>1. Running /\ Keeps /\ sim' = [Advanced EXCEPT !.detect = Advanced.w.step]
    BY <1>6 DEF Sense
  <2>2. Advanced.w.step \in Int
    BY <1>3, <2>1 DEF WorldType
  <2>. DEFINE k == Advanced.w.step
              r == Advanced
  <2>. HIDE DEF k, r
  <2>3. sim' = [r EXCEPT !.detect = k] /\ k \in Int /\ r \in RunType
    BY <1>3, <2>1, <2>2 DEF k, r
  <2>4. sim' \in RunType
    BY <2>3 DEF RunType
  <2>. QED  BY <1>2, <2>1, <2>4
<1>7. ASSUME NEW code \in Codes, EndScenario(code) PROVE Typed'
  <2>1. todo # <<>> /\ todo' = Tail(todo) /\ battery' = battery
    BY <1>7 DEF EndScenario
  <2>2. todo' \in Seq(CardType)
    BY <2>1 DEF Typed
  <2>3. CASE todo' = <<>>
    BY <1>7, <2>1, <2>2, <2>3 DEF EndScenario, Typed
  <2>4. CASE todo' # <<>>
    <3>1. act' \in {0, 1, Never} /\ sim' = Started(Head(todo'), act')
      BY <1>7, <2>4 DEF EndScenario, Begins
    <3>2. Head(todo') \in CardType /\ act' \in Int
      BY <2>2, <2>4, <3>1 DEF Never
    <3>3. sim' \in RunType
      BY <3>1, <3>2, StartedIs
    <3>. QED  BY <2>1, <2>2, <3>1, <3>3 DEF Typed
  <2>. QED  BY <2>3, <2>4
<1>. QED  BY <1>1, <1>4, <1>5, <1>6, <1>7 DEF Next


-----------------------------------------------------------------------------
(***************************************************************************)
(* Going along a sequence: a function given by its first value and by how  *)
(* a value follows from the one before exists.                             *)
(***************************************************************************)
StepsIn(S, n, g) == g \in [S \X (1..n) -> S]
Course(S, base, n, g, f) ==
    f \in [0..n -> S] /\ f[0] = base /\ \A i \in 1..n : f[i] = g[<<f[i - 1], i>>]

LEMMA Iterates ==
    ASSUME NEW S, NEW base \in S, NEW n \in Nat, NEW g, StepsIn(S, n, g)
    PROVE  \E f : Course(S, base, n, g, f)
<1>. USE DEF StepsIn, Course
<1>. DEFINE Good(m, f) == f \in [0..m -> S] /\ f[0] = base /\ \A i \in 1..m : f[i] = g[<<f[i - 1], i>>]
            bad == {m \in 0..n : ~\E f : Good(m, f)}
<1>. SUFFICES ASSUME bad # {} PROVE FALSE
  <2>1. n \in 0..n
    OBVIOUS
  <2>. QED  BY <2>1
<1>1. PICK m \in bad : \A k \in bad : m <= k
  <2>. HIDE DEF bad
  <2>1. bad \in SUBSET Nat
    BY DEF bad
  <2>. QED  BY <2>1, LeastIsThere
<1>2. m \in 0..n /\ ~\E f : Good(m, f)
  OBVIOUS
<1>3. m # 0
  <2>. SUFFICES ASSUME m = 0 PROVE FALSE
    OBVIOUS
  <2>. DEFINE f == [i \in 0..0 |-> base]
  <2>1. Good(0, f)
    OBVIOUS
  <2>. HIDE DEF Good, f
  <2>. QED  BY <1>2, <2>1
<1>4. m - 1 \in 0..n /\ ~(m <= m - 1) /\ m \in 1..n
  BY <1>2, <1>3
<1>5. PICK f : Good(m - 1, f)
  BY <1>1, <1>4
<1>. DEFINE h == [i \in 0..m |-> IF i = m THEN g[<<f[m - 1], m>>] ELSE f[i]]
<1>6. f[m - 1] \in S /\ g[<<f[m - 1], m>>] \in S
  <2>1. m - 1 \in 0..(m - 1)
    BY <1>4
  <2>2. f[m - 1] \in S
    BY <1>5, <2>1
  <2>. QED  BY <1>4, <2>2
<1>7. h \in [0..m -> S]
  <2>1. ASSUME NEW i \in 0..m, i # m PROVE f[i] \in S
    <3>1. i \in 0..(m - 1)
      BY <1>2, <2>1
    <3>. QED  BY <1>5, <3>1
  <2>. QED  BY <1>6, <2>1
<1>8. h[0] = base
  BY <1>2, <1>3, <1>5
<1>9. ASSUME NEW i \in 1..m PROVE h[i] = g[<<h[i - 1], i>>]
  <2>1. i - 1 \in 0..m /\ i - 1 # m /\ i \in 0..m
    BY <1>2
  <2>2. h[i - 1] = f[i - 1]
    BY <2>1
  <2>3. CASE i = m
    BY <2>1, <2>2, <2>3
  <2>4. CASE i # m
    <3>1. i \in 1..(m - 1)
      BY <1>2, <2>4
    <3>2. f[i] = g[<<f[i - 1], i>>]
      BY <1>5, <3>1
    <3>. QED  BY <2>1, <2>2, <2>4, <3>2
  <2>. QED  BY <2>3, <2>4
<1>10. Good(m, h)
  <2>. HIDE DEF h
  <2>. QED  BY <1>7, <1>8, <1>9
<1>. HIDE DEF Good, h
<1>. QED  BY <1>2, <1>10

\* What holds at the start and is handed on holds all the way.
LEMMA HandedOn ==
    ASSUME NEW n \in Nat, NEW G \in SUBSET (0..n), 0 \in G,
           \A i \in 1..n : i - 1 \in G => i \in G
    PROVE  G = 0..n
<1>. DEFINE bad == {i \in 0..n : i \notin G}
<1>. SUFFICES ASSUME bad # {} PROVE FALSE
  BY DEF bad
<1>1. PICK k \in bad : \A j \in bad : k <= j
  <2>. HIDE DEF bad
  <2>1. bad \in SUBSET Nat
    BY DEF bad
  <2>. QED  BY <2>1, LeastIsThere
<1>2. k \in 1..n /\ k - 1 \in 0..n /\ ~(k <= k - 1)
  BY <1>1
<1>3. k - 1 \in G
  BY <1>1, <1>2
<1>. QED  BY <1>1, <1>2, <1>3

\* What a list of sequences comes to, one after the other.
LEMMA FlattenCourse ==
    ASSUME NEW S, NEW ss \in Seq(Seq(S)), ss # <<>>
    PROVE  \E f : /\ FlattenSeq(ss) = f[Len(ss)]
                  /\ \A i \in 1..Len(ss) : /\ f[i] \in Seq(S)
                                           /\ f[i] = IF i = 1 THEN ss[i] ELSE f[i - 1] \o ss[i]
<1>. DEFINE n == Len(ss)
            Next1(f, i) == IF i = 1 THEN ss[i] ELSE f[i - 1] \o ss[i]
            F == CHOOSE f : f = [i \in 1..n |-> Next1(f, i)]
<1>1. n \in Nat /\ n # 0 /\ \A i \in 1..n : ss[i] \in Seq(S)
  OBVIOUS
<1>2. FlattenSeq(ss) = F[n]
  BY <1>1 DEF FlattenSeq
<1>. DEFINE g == [p \in Seq(S) \X (1..n) |-> IF p[2] = 1 THEN ss[p[2]] ELSE p[1] \o ss[p[2]]]
<1>. HIDE DEF n
<1>3. g \in [Seq(S) \X (1..n) -> Seq(S)]
  BY <1>1
<1>4. \A q \in Seq(S), i \in 1..n : g[<<q, i>>] = IF i = 1 THEN ss[i] ELSE q \o ss[i]
  OBVIOUS
<1>5. <<>> \in Seq(S)
  OBVIOUS
<1>. HIDE DEF g
<1>6. PICK f : Course(Seq(S), <<>>, n, g, f)
  <2>1. StepsIn(Seq(S), n, g)
    BY <1>3 DEF StepsIn
  <2>. QED  BY <1>1, <1>5, <2>1, Iterates DEF n
<1>7. ASSUME NEW i \in 1..n PROVE f[i - 1] \in Seq(S) /\ f[i] = Next1(f, i)
  <2>1. i - 1 \in 0..n
    BY <1>1
  <2>. QED  BY <1>4, <1>6, <2>1 DEF Course
<1>. DEFINE e == [i \in 1..n |-> f[i]]
<1>8. ASSUME NEW i \in 1..n PROVE e[i] = Next1(e, i)
  <2>1. i # 1 => i - 1 \in 1..n
    BY <1>1
  <2>. QED  BY <1>7, <2>1
<1>9. \E x : x = [i \in 1..n |-> Next1(x, i)]
  <2>1. e = [i \in 1..n |-> e[i]]
    OBVIOUS
  <2>. HIDE DEF e, Next1
  <2>2. e = [i \in 1..n |-> Next1(e, i)]
    BY <1>8, <2>1
  <2>. QED  BY <2>2
<1>10. F = [i \in 1..n |-> Next1(F, i)]
  <2>. HIDE DEF Next1
  <2>. QED  BY <1>9
<1>. HIDE DEF F
<1>11. \A i \in 1..n : F[i] = Next1(F, i)
  <2>. DEFINE N(i) == Next1(F, i)
  <2>1. F = [i \in 1..n |-> N(i)]
    BY <1>10
  <2>. HIDE DEF N, Next1
  <2>2. \A i \in 1..n : F[i] = N(i)
    BY <2>1
  <2>. QED  BY <2>2 DEF N
<1>. DEFINE G == {i \in 0..n : i # 0 => F[i] \in Seq(S)}
<1>12. G = 0..n
  <2>1. 0 \in G
    BY <1>1
  <2>2. ASSUME NEW i \in 1..n, i - 1 \in G PROVE i \in G
    <3>1. F[i] = Next1(F, i) /\ i \in 0..n /\ ss[i] \in Seq(S)
      BY <1>1, <1>11
    <3>2. i # 1 => F[i - 1] \in Seq(S)
      BY <2>2
    <3>3. F[i] \in Seq(S)
      BY <3>1, <3>2
    <3>. QED  BY <3>1, <3>3
  <2>. HIDE DEF G
  <2>3. G \in SUBSET (0..n)
    BY DEF G
  <2>. QED  BY <1>1, <2>1, <2>2, <2>3, HandedOn
<1>13. \A i \in 1..n : i \in 0..n /\ i # 0
  BY <1>1
<1>14. \A i \in 1..n : F[i] \in Seq(S)
  BY <1>12, <1>13
<1>. HIDE DEF G
<1>15. F[n] = FlattenSeq(ss) /\ \A i \in 1..n : F[i] \in Seq(S) /\ F[i] = Next1(F, i)
  BY <1>2, <1>11, <1>14
<1>. QED  BY <1>15 DEF n

LEMMA FlattenIs ==
    ASSUME NEW S, NEW ss \in Seq(Seq(S))
    PROVE  FlattenSeq(ss) \in Seq(S)
<1>1. CASE ss = <<>>
  BY <1>1 DEF FlattenSeq
<1>2. CASE ss # <<>>
  <2>1. PICK f : /\ FlattenSeq(ss) = f[Len(ss)]
                 /\ \A i \in 1..Len(ss) : f[i] \in Seq(S)
    BY <1>2, FlattenCourse
  <2>2. Len(ss) \in 1..Len(ss)
    BY <1>2
  <2>. QED  BY <2>1, <2>2
<1>. QED  BY <1>1, <1>2


-----------------------------------------------------------------------------
(***************************************************************************)
(* The samples of a walk.                                                  *)
(***************************************************************************)
Spot == [step : Int, x : Int]
SampleType == [step : Int, d : Nat, inside : BOOLEAN]

LEMMA SegmentIs ==
    ASSUME NEW a \in Spot, NEW b \in Spot
    PROVE  Segment(a, b) \in Seq(Spot)
<1>. DEFINE n == Max({1, Apart(a.x, b.x)})
            s == Sign(b.x - a.x)
            at(k) == [step |-> a.step, x |-> a.x + s * (k - 1)]
<1>1. a.x \in Int /\ b.x \in Int /\ a.step \in Int /\ b.x - a.x \in Int
  BY DEF Spot
<1>2. n \in Nat
  <2>1. Apart(a.x, b.x) \in Nat
    BY <1>1, ApartIs
  <2>. QED  BY <2>1, PairMax
<1>3. s \in {-1, 1}
  BY <1>1, SignIs
<1>4. Segment(a, b) = [k \in 1..n |-> at(k)]
  BY DEF Segment
<1>. HIDE DEF n, s
<1>5. ASSUME NEW k \in 1..n PROVE at(k) \in Spot
  <2>1. k - 1 \in Int
    BY <1>2
  <2>2. s * (k - 1) \in Int
    BY <1>3, <2>1, SignTimes
  <2>. QED  BY <1>1, <2>2 DEF Spot
<1>. HIDE DEF at
<1>6. [k \in 1..n |-> at(k)] \in [1..n -> Spot]
  BY <1>5
<1>. QED  BY <1>2, <1>4, <1>6

LEMMA WalkIs ==
    ASSUME NEW points \in Seq(Spot), points # <<>>
    PROVE  WalkFrom(points) \in Seq(Spot)
<1>. DEFINE n == Len(points) - 1
            leg(i) == Segment(points[i], points[i + 1])
            legs == [i \in 1..n |-> leg(i)]
<1>1. n \in Nat /\ points[Len(points)] \in Spot
  OBVIOUS
<1>2. ASSUME NEW i \in 1..n PROVE leg(i) \in Seq(Spot)
  <2>1. points[i] \in Spot /\ points[i + 1] \in Spot
    OBVIOUS
  <2>. QED  BY <2>1, SegmentIs
<1>3. WalkFrom(points) = FlattenSeq(legs) \o <<points[Len(points)]>>
  BY DEF WalkFrom
<1>. HIDE DEF leg, n
<1>4. legs \in [1..n -> Seq(Spot)]
  BY <1>2
<1>5. legs \in Seq(Seq(Spot))
  BY <1>1, <1>4
<1>. HIDE DEF legs
<1>6. FlattenSeq(legs) \in Seq(Spot)
  BY <1>5, FlattenIs
<1>7. <<points[Len(points)]>> \in Seq(Spot)
  BY <1>1
<1>. QED  BY <1>3, <1>6, <1>7

LEMMA DenseIs ==
    ASSUME NEW run \in RunType
    PROVE  DenseSamples(run) \in Seq(Spot)
<1>. DEFINE o == [step |-> 0, x |-> 0]
            spot(p) == [step |-> p.step, x |-> p.x]
            rest == [i \in DOMAIN run.path |-> spot(run.path[i])]
<1>1. run.path \in Seq(RowType) /\ Len(run.path) \in Nat /\ DOMAIN run.path = 1..Len(run.path)
  BY DEF RunType
<1>2. o \in Spot
  BY DEF Spot
<1>3. ASSUME NEW p \in RowType PROVE spot(p) \in Spot
  BY DEF RowType, Spot
<1>. HIDE DEF spot, o
<1>4. rest \in [1..Len(run.path) -> Spot]
  BY <1>1, <1>3
<1>5. rest \in Seq(Spot)
  BY <1>1, <1>4
<1>6. DenseSamples(run) = WalkFrom(<<o>> \o rest)
  BY DEF DenseSamples, spot, o
<1>. HIDE DEF rest
<1>7. <<o>> \in Seq(Spot) /\ Len(<<o>>) = 1
  BY <1>2
<1>8. <<o>> \o rest \in Seq(Spot) /\ Len(<<o>> \o rest) = 1 + Len(rest) /\ Len(rest) \in Nat
  BY <1>5, <1>7
<1>9. <<o>> \o rest # <<>>
  BY <1>8
<1>. QED  BY <1>6, <1>8, <1>9, WalkIs

LEMMA EdgesAre ==
    ASSUME NEW run \in RunType
    PROVE  Edges(run) \in SUBSET Int /\ Edges(run) # {}
<1>1. /\ run.log \in Seq(LogType) /\ run.w \in WorldType /\ run.w.lo \in Int /\ run.w.hi \in Int
  <2>1. run.log \in Seq(LogType) /\ run.w \in WorldType
    BY DEF RunType
  <2>. QED  BY <2>1 DEF WorldType
<1>2. \A e \in Range(run.log) : e.edge \in Int
  <2>. TAKE e \in Range(run.log)
  <2>1. PICK i \in DOMAIN run.log : run.log[i] = e
    BY DEF Range
  <2>2. run.log[i] \in LogType
    BY <1>1
  <2>. QED  BY <2>1, <2>2 DEF LogType
<1>. QED  BY <1>1, <1>2 DEF Edges

LEMMA MeasuredIs ==
    ASSUME NEW run \in RunType
    PROVE  Measured(run, DenseSamples(run)) \in Seq(SampleType)
<1>. DEFINE edges == Edges(run)
            walk == DenseSamples(run)
            nearest(x) == CHOOSE e \in edges : \A f \in edges : Apart(x, e) <= Apart(x, f)
            sample(p) == [step |-> p.step, d |-> Apart(p.x, nearest(p.x)), inside |-> Outside(run.w, p.x) = 0]
<1>1. edges \in SUBSET Int /\ edges # {}
  BY EdgesAre
<1>2. walk \in Seq(Spot) /\ Len(walk) \in Nat /\ DOMAIN walk = 1..Len(walk)
  BY DenseIs
<1>3. Measured(run, walk) = [i \in DOMAIN walk |-> sample(walk[i])]
  BY DEF Measured
<1>. HIDE DEF edges, walk
<1>4. ASSUME NEW x \in Int PROVE nearest(x) \in edges
  <2>. DEFINE D == {Apart(x, e) : e \in edges}
  <2>1. D \in SUBSET Nat /\ D # {}
    BY <1>1, ApartIs
  <2>2. PICK m \in D : \A k \in D : m <= k
    BY <2>1, LeastIsThere
  <2>3. PICK e \in edges : m = Apart(x, e)
    BY <2>2
  <2>4. \A f \in edges : Apart(x, e) <= Apart(x, f)
    BY <2>2, <2>3
  <2>. QED  BY <2>4
<1>. HIDE DEF nearest
<1>5. ASSUME NEW p \in Spot PROVE sample(p) \in SampleType
  <2>1. p.x \in Int /\ p.step \in Int
    BY DEF Spot
  <2>2. nearest(p.x) \in Int
    BY <1>1, <1>4, <2>1
  <2>3. Apart(p.x, nearest(p.x)) \in Nat
    BY <2>1, <2>2, ApartIs
  <2>. QED  BY <2>1, <2>3 DEF SampleType
<1>. HIDE DEF sample
<1>6. Measured(run, walk) \in [1..Len(walk) -> SampleType]
  BY <1>2, <1>3, <1>5
<1>. QED  BY <1>2, <1>6 DEF walk

-----------------------------------------------------------------------------
(***************************************************************************)
(* What a scan comes to.                                                   *)
(***************************************************************************)
\* The filter of the samples that count.
Counts(run, s) == s.step >= Onset(run) /\ (ExitStep(run) = Never \/ s.step <= ExitStep(run))
KeepStep(run, kept, s) == IF Counts(run, s) THEN Append(kept, s) ELSE kept

\* The samples kept, one after the other.
LEMMA WatchedCourse ==
    ASSUME NEW run \in RunType, run.path # <<>>
    PROVE  LET seq == Measured(run, DenseSamples(run)) IN
           \E F : /\ Watched(run) = F[Len(seq)] /\ F[0] = <<>>
                  /\ \A i \in 1..Len(seq) : F[i] = KeepStep(run, F[i - 1], seq[i])
                  /\ \A i \in 0..Len(seq) : F[i] \in Seq(SampleType)
<1>. DEFINE seq == Measured(run, DenseSamples(run))
            n == Len(seq)
            At(f, i) == IF i = 0 THEN <<>> ELSE KeepStep(run, f[i - 1], seq[i])
            F == CHOOSE f : f = [i \in 0..n |-> At(f, i)]
            T == Seq(SampleType)
<1>1. seq \in Seq(SampleType)
  BY MeasuredIs
<1>2. Watched(run) = F[n]
  BY DEF Watched, Scan, KeepStep, Counts
<1>. HIDE DEF seq
<1>3. n \in Nat /\ \A i \in 1..n : seq[i] \in SampleType
  BY <1>1
<1>. HIDE DEF n
<1>4. \A q \in T, i \in 1..n : KeepStep(run, q, seq[i]) \in T
  BY <1>3 DEF KeepStep
<1>. DEFINE g == [p \in T \X (1..n) |-> KeepStep(run, p[1], seq[p[2]])]
<1>5. <<>> \in T /\ StepsIn(T, n, g) /\ \A q \in T, i \in 1..n : g[<<q, i>>] = KeepStep(run, q, seq[i])
  <2>. HIDE DEF T
  <2>1. g \in [T \X (1..n) -> T]
    BY <1>4
  <2>. QED  BY <2>1 DEF StepsIn, T
<1>. HIDE DEF T, g
<1>6. PICK f : Course(T, <<>>, n, g, f)
  BY <1>3, <1>5, Iterates
<1>7. ASSUME NEW i \in 0..n PROVE f[i] \in T /\ f[i] = At(f, i)
  <2>1. CASE i = 0
    BY <1>6, <2>1 DEF Course
  <2>2. CASE i # 0
    <3>1. i \in 1..n /\ i - 1 \in 0..n
      BY <1>3, <2>2
    <3>. QED  BY <1>5, <1>6, <2>2, <3>1 DEF Course
  <2>. QED  BY <2>1, <2>2
<1>8. \E x : x = [i \in 0..n |-> At(x, i)]
  <2>1. f = [i \in 0..n |-> f[i]]
    BY <1>6 DEF Course
  <2>. HIDE DEF At
  <2>2. f = [i \in 0..n |-> At(f, i)]
    BY <1>7, <2>1
  <2>. QED  BY <2>2
<1>9. F = [i \in 0..n |-> At(F, i)]
  <2>. HIDE DEF At
  <2>. QED  BY <1>8
<1>. HIDE DEF F
<1>10. \A i \in 0..n : F[i] = At(F, i)
  <2>. DEFINE N(i) == At(F, i)
  <2>1. F = [i \in 0..n |-> N(i)]
    BY <1>9
  <2>. HIDE DEF N, At
  <2>2. \A i \in 0..n : F[i] = N(i)
    BY <2>1
  <2>. QED  BY <2>2 DEF N
<1>. DEFINE G == {i \in 0..n : F[i] \in T}
<1>11. G = 0..n
  <2>1. 0 \in G
    BY <1>3, <1>5, <1>10
  <2>2. ASSUME NEW i \in 1..n, i - 1 \in G PROVE i \in G
    <3>1. i \in 0..n /\ i # 0 /\ F[i - 1] \in T
      BY <1>3, <2>2
    <3>2. F[i] = KeepStep(run, F[i - 1], seq[i])
      BY <1>10, <3>1
    <3>. QED  BY <1>4, <3>1, <3>2 DEF T
  <2>. HIDE DEF G
  <2>3. G \in SUBSET (0..n)
    BY DEF G
  <2>. QED  BY <1>3, <2>1, <2>2, <2>3, HandedOn
<1>12. \A i \in 0..n : F[i] \in T
  BY <1>11
<1>. HIDE DEF G
<1>13. F[0] = <<>> /\ \A i \in 1..n : F[i] = KeepStep(run, F[i - 1], seq[i])
  <2>1. 0 \in 0..n /\ \A i \in 1..n : i \in 0..n /\ i # 0
    BY <1>3
  <2>. QED  BY <1>10, <2>1
<1>. QED  BY <1>2, <1>12, <1>13 DEF T, seq, n

LEMMA WatchedIs ==
    ASSUME NEW run \in RunType
    PROVE  Watched(run) \in Seq(SampleType)
<1>. DEFINE seq == Measured(run, DenseSamples(run))
<1>1. CASE run.path = <<>>
  <2>1. Watched(run) = <<>>
    BY <1>1 DEF Watched
  <2>. QED  BY <2>1
<1>2. CASE run.path # <<>>
  <2>1. PICK F : /\ Watched(run) = F[Len(seq)]
                 /\ \A i \in 0..Len(seq) : F[i] \in Seq(SampleType)
    BY <1>2, WatchedCourse
  <2>2. Len(seq) \in 0..Len(seq)
    <3>1. seq \in Seq(SampleType)
      BY MeasuredIs
    <3>. HIDE DEF seq
    <3>. QED  BY <3>1
  <2>. QED  BY <2>1, <2>2
<1>. QED  BY <1>1, <1>2


-----------------------------------------------------------------------------
(***************************************************************************)
(* The two scans of the samples that count, sample by sample.              *)
(***************************************************************************)
EntryType == [in : BOOLEAN, entries : Nat, fresh : BOOLEAN, corrective : BOOLEAN]
NoEntry == [in |-> FALSE, entries |-> 0, fresh |-> TRUE, corrective |-> FALSE]
SeamType == [step : Int, kind : {"boundary", "retreat"}]
SeamState == [in : BOOLEAN, seams : Seq(SeamType)]
NoSeam == [in |-> FALSE, seams |-> <<>>]

LEMMA EntryStepIs ==
    ASSUME NEW st \in EntryType, NEW s \in SampleType
    PROVE  EntryStep(st, s) \in EntryType
<1>. DEFINE enters == Enters(st, s)
            in == enters \/ (st.in /\ s.d <= Band)
            count == IF enters THEN st.entries + 1 ELSE st.entries
            back == ~in /\ count > 0 /\ BackInside(s)
<1>1. st.in \in BOOLEAN /\ st.entries \in Nat /\ st.fresh \in BOOLEAN /\ st.corrective \in BOOLEAN
  BY DEF EntryType
<1>2. enters \in BOOLEAN
  BY DEF Enters
<1>. HIDE DEF enters
<1>3. in \in BOOLEAN /\ count \in Nat /\ back \in BOOLEAN
  BY <1>1, <1>2 DEF BackInside
<1>4. EntryStep(st, s) = [in |-> in, entries |-> count, fresh |-> ~enters /\ (st.fresh \/ back),
                          corrective |-> st.corrective \/ back]
  BY DEF EntryStep, enters
<1>. HIDE DEF in, count, back
<1>5. (~enters /\ (st.fresh \/ back)) \in BOOLEAN /\ (st.corrective \/ back) \in BOOLEAN
  OBVIOUS
<1>. QED  BY <1>3, <1>4, <1>5 DEF EntryType

LEMMA SeamStepIs ==
    ASSUME NEW st \in SeamState, NEW s \in SampleType
    PROVE  EdgeSeamStep(st, s) \in SeamState
<1>1. st.in \in BOOLEAN /\ st.seams \in Seq(SeamType) /\ s.step \in Int
  BY DEF SeamState, SampleType
<1>2. ASSUME NEW k \in {"boundary", "retreat"}
      PROVE  Append(st.seams, [step |-> s.step, kind |-> k]) \in Seq(SeamType)
  <2>1. [step |-> s.step, kind |-> k] \in SeamType
    BY <1>1 DEF SeamType
  <2>. QED  BY <1>1, <2>1
<1>3. Append(st.seams, [step |-> s.step, kind |-> "boundary"]) \in Seq(SeamType)
  BY <1>2
<1>4. Append(st.seams, [step |-> s.step, kind |-> "retreat"]) \in Seq(SeamType)
  BY <1>2
<1>. QED  BY <1>1, <1>3, <1>4 DEF EdgeSeamStep, SeamState

\* The entries scan, sample by sample.
LEMMA EntryScanIs ==
    ASSUME NEW seq \in Seq(SampleType)
    PROVE  \E F : /\ Scan(EntryStep, NoEntry, seq) = F[Len(seq)]
                  /\ F[0] = NoEntry
                  /\ \A i \in 1..Len(seq) : F[i] = EntryStep(F[i - 1], seq[i])
<1>. DEFINE n == Len(seq)
            At(f, i) == IF i = 0 THEN NoEntry ELSE EntryStep(f[i - 1], seq[i])
            F == CHOOSE f : f = [i \in 0..n |-> At(f, i)]
            T == EntryType
            g == [p \in T \X (1..n) |-> EntryStep(p[1], seq[p[2]])]
<1>1. Scan(EntryStep, NoEntry, seq) = F[n]
  BY DEF Scan
<1>2. n \in Nat /\ \A i \in 1..n : seq[i] \in SampleType
  OBVIOUS
<1>. HIDE DEF n
<1>3. \A q \in T, i \in 1..n : EntryStep(q, seq[i]) \in T
  BY <1>2, EntryStepIs
<1>4. NoEntry \in T
  BY DEF EntryType, NoEntry
<1>. HIDE DEF T
<1>5. StepsIn(T, n, g) /\ \A q \in T, i \in 1..n : g[<<q, i>>] = EntryStep(q, seq[i])
  <2>1. g \in [T \X (1..n) -> T]
    BY <1>3
  <2>. QED  BY <2>1 DEF StepsIn
<1>. HIDE DEF g
<1>6. PICK f : Course(T, NoEntry, n, g, f)
  BY <1>2, <1>4, <1>5, Iterates
<1>7. ASSUME NEW i \in 0..n PROVE f[i] = At(f, i)
  <2>1. CASE i = 0
    BY <1>6, <2>1 DEF Course
  <2>2. CASE i # 0
    <3>1. i \in 1..n /\ i - 1 \in 0..n
      BY <1>2, <2>2
    <3>2. f[i - 1] \in T /\ f[i] = g[<<f[i - 1], i>>]
      BY <1>6, <3>1 DEF Course
    <3>. QED  BY <1>5, <2>2, <3>1, <3>2
  <2>. QED  BY <2>1, <2>2
<1>8. \E x : x = [i \in 0..n |-> At(x, i)]
  <2>1. f = [i \in 0..n |-> f[i]]
    BY <1>6 DEF Course
  <2>. HIDE DEF At
  <2>2. f = [i \in 0..n |-> At(f, i)]
    BY <1>7, <2>1
  <2>. QED  BY <2>2
<1>9. F = [i \in 0..n |-> At(F, i)]
  <2>. HIDE DEF At
  <2>. QED  BY <1>8
<1>. HIDE DEF F
<1>10. \A i \in 0..n : F[i] = At(F, i)
  <2>. DEFINE N(i) == At(F, i)
  <2>1. F = [i \in 0..n |-> N(i)]
    BY <1>9
  <2>. HIDE DEF N, At
  <2>2. \A i \in 0..n : F[i] = N(i)
    BY <2>1
  <2>. QED  BY <2>2 DEF N
<1>11. F[0] = NoEntry
  <2>1. 0 \in 0..n
    BY <1>2
  <2>2. F[0] = At(F, 0)
    BY <1>10, <2>1
  <2>. QED  BY <2>2
<1>12. \A i \in 1..n : F[i] = EntryStep(F[i - 1], seq[i])
  <2>. TAKE i \in 1..n
  <2>1. i \in 0..n /\ i # 0
    BY <1>2
  <2>2. F[i] = At(F, i)
    BY <1>10, <2>1
  <2>. QED  BY <2>1, <2>2
<1>. QED  BY <1>1, <1>11, <1>12 DEF n

\* The seams scan, sample by sample.
LEMMA SeamScanIs ==
    ASSUME NEW seq \in Seq(SampleType)
    PROVE  \E F : /\ Scan(EdgeSeamStep, NoSeam, seq) = F[Len(seq)]
                  /\ F[0] = NoSeam
                  /\ \A i \in 1..Len(seq) : F[i] = EdgeSeamStep(F[i - 1], seq[i])
<1>. DEFINE n == Len(seq)
            At(f, i) == IF i = 0 THEN NoSeam ELSE EdgeSeamStep(f[i - 1], seq[i])
            F == CHOOSE f : f = [i \in 0..n |-> At(f, i)]
            T == SeamState
            g == [p \in T \X (1..n) |-> EdgeSeamStep(p[1], seq[p[2]])]
<1>1. Scan(EdgeSeamStep, NoSeam, seq) = F[n]
  BY DEF Scan
<1>2. n \in Nat /\ \A i \in 1..n : seq[i] \in SampleType
  OBVIOUS
<1>. HIDE DEF n
<1>3. \A q \in T, i \in 1..n : EdgeSeamStep(q, seq[i]) \in T
  BY <1>2, SeamStepIs
<1>4. NoSeam \in T
  BY DEF SeamState, NoSeam
<1>. HIDE DEF T
<1>5. StepsIn(T, n, g) /\ \A q \in T, i \in 1..n : g[<<q, i>>] = EdgeSeamStep(q, seq[i])
  <2>1. g \in [T \X (1..n) -> T]
    BY <1>3
  <2>. QED  BY <2>1 DEF StepsIn
<1>. HIDE DEF g
<1>6. PICK f : Course(T, NoSeam, n, g, f)
  BY <1>2, <1>4, <1>5, Iterates
<1>7. ASSUME NEW i \in 0..n PROVE f[i] = At(f, i)
  <2>1. CASE i = 0
    BY <1>6, <2>1 DEF Course
  <2>2. CASE i # 0
    <3>1. i \in 1..n /\ i - 1 \in 0..n
      BY <1>2, <2>2
    <3>2. f[i - 1] \in T /\ f[i] = g[<<f[i - 1], i>>]
      BY <1>6, <3>1 DEF Course
    <3>. QED  BY <1>5, <2>2, <3>1, <3>2
  <2>. QED  BY <2>1, <2>2
<1>8. \E x : x = [i \in 0..n |-> At(x, i)]
  <2>1. f = [i \in 0..n |-> f[i]]
    BY <1>6 DEF Course
  <2>. HIDE DEF At
  <2>2. f = [i \in 0..n |-> At(f, i)]
    BY <1>7, <2>1
  <2>. QED  BY <2>2
<1>9. F = [i \in 0..n |-> At(F, i)]
  <2>. HIDE DEF At
  <2>. QED  BY <1>8
<1>. HIDE DEF F
<1>10. \A i \in 0..n : F[i] = At(F, i)
  <2>. DEFINE N(i) == At(F, i)
  <2>1. F = [i \in 0..n |-> N(i)]
    BY <1>9
  <2>. HIDE DEF N, At
  <2>2. \A i \in 0..n : F[i] = N(i)
    BY <2>1
  <2>. QED  BY <2>2 DEF N
<1>11. F[0] = NoSeam
  <2>1. 0 \in 0..n
    BY <1>2
  <2>2. F[0] = At(F, 0)
    BY <1>10, <2>1
  <2>. QED  BY <2>2
<1>12. \A i \in 1..n : F[i] = EdgeSeamStep(F[i - 1], seq[i])
  <2>. TAKE i \in 1..n
  <2>1. i \in 0..n /\ i # 0
    BY <1>2
  <2>2. F[i] = At(F, i)
    BY <1>10, <2>1
  <2>. QED  BY <2>1, <2>2
<1>. QED  BY <1>1, <1>11, <1>12 DEF n


-----------------------------------------------------------------------------
(***************************************************************************)
(* The two scans agree.  After every sample the robot is in an encounter   *)
(* of the seams exactly when the entries have not been re-armed.           *)
(***************************************************************************)
Of(seams, kind) == Cardinality({i \in DOMAIN seams : seams[i].kind = kind})

LEMMA OneMoreSeam ==
    ASSUME NEW seams \in Seq(SeamType), NEW s \in SeamType, NEW kind
    PROVE  /\ Of(seams, kind) \in Nat
           /\ Of(Append(seams, s), kind) = IF s.kind = kind THEN Of(seams, kind) + 1 ELSE Of(seams, kind)
<1>. DEFINE n == Len(seams)
            t == Append(seams, s)
            A == {i \in DOMAIN seams : seams[i].kind = kind}
            B == {i \in DOMAIN t : t[i].kind = kind}
<1>1. /\ n \in Nat /\ DOMAIN seams = 1..n /\ DOMAIN t = 1..(n + 1) /\ t[n + 1] = s
      /\ \A i \in 1..n : t[i] = seams[i]
  OBVIOUS
<1>. HIDE DEF t, n
<1>2. A \subseteq 1..n /\ IsFiniteSet(1..n)
  BY <1>1, FS_Interval
<1>3. IsFiniteSet(A)
  BY <1>2, FS_Subset
<1>4. Cardinality(A) \in Nat
  BY <1>3, FS_CardinalityType
<1>5. n + 1 \notin A
  BY <1>1, <1>2
<1>6. CASE s.kind = kind
  <2>1. \A i : i \in B <=> i \in A \cup {n + 1}
    BY <1>1, <1>6
  <2>2. B = A \cup {n + 1}
    BY <2>1
  <2>. HIDE DEF A, B
  <2>3. Cardinality(B) = Cardinality(A) + 1
    BY <1>3, <1>5, <2>2, FS_AddElement
  <2>. QED  BY <1>4, <1>6, <2>3 DEF Of, A, B, t
<1>7. CASE s.kind # kind
  <2>1. \A i : i \in B <=> i \in A
    BY <1>1, <1>7
  <2>2. B = A
    BY <2>1
  <2>. HIDE DEF A, B
  <2>. QED  BY <1>4, <1>7, <2>2 DEF Of, A, B, t
<1>. QED  BY <1>6, <1>7

LEMMA NoSeams ==
    ASSUME NEW kind
    PROVE  Of(<<>>, kind) = 0
<1>1. {i \in DOMAIN <<>> : <<>>[i].kind = kind} = {}
  OBVIOUS
<1>. QED  BY <1>1, FS_EmptySet DEF Of

Alongside(e, g) ==
    /\ e \in EntryType /\ g \in SeamState
    /\ g.in <=> ~e.fresh
    /\ e.in => ~e.fresh
    /\ ~e.fresh => e.entries > 0
    /\ e.fresh /\ e.entries > 0 => e.corrective
    /\ e.corrective => e.entries > 0
    /\ Of(g.seams, "boundary") = e.entries
    /\ e.corrective <=> Of(g.seams, "retreat") > 0

LEMMA SideBySide ==
    ASSUME NEW e, NEW g, Alongside(e, g), NEW s \in SampleType
    PROVE  Alongside(EntryStep(e, s), EdgeSeamStep(g, s))
<1>. DEFINE e1 == EntryStep(e, s)
            g1 == EdgeSeamStep(g, s)
            b == [step |-> s.step, kind |-> "boundary"]
            r == [step |-> s.step, kind |-> "retreat"]
<1>1. e1 \in EntryType /\ g1 \in SeamState
  BY EntryStepIs, SeamStepIs DEF Alongside
<1>2. /\ e.in \in BOOLEAN /\ e.entries \in Nat /\ e.fresh \in BOOLEAN /\ e.corrective \in BOOLEAN
      /\ g.in \in BOOLEAN /\ g.seams \in Seq(SeamType)
      /\ s.d \in Nat /\ s.step \in Int /\ s.inside \in BOOLEAN
      /\ Band \in Nat /\ Retreat \in Nat /\ Band < Retreat
  BY RulesAssumption DEF Alongside, EntryType, SeamState, SampleType
<1>3. b \in SeamType /\ r \in SeamType /\ b.kind = "boundary" /\ r.kind = "retreat"
  BY <1>2 DEF SeamType
<1>. HIDE DEF b, r
<1>4. /\ Of(g.seams, "boundary") \in Nat /\ Of(g.seams, "retreat") \in Nat
      /\ Of(Append(g.seams, b), "boundary") = Of(g.seams, "boundary") + 1
      /\ Of(Append(g.seams, b), "retreat") = Of(g.seams, "retreat")
      /\ Of(Append(g.seams, r), "boundary") = Of(g.seams, "boundary")
      /\ Of(Append(g.seams, r), "retreat") = Of(g.seams, "retreat") + 1
  BY <1>2, <1>3, OneMoreSeam
<1>5. g1 = IF ~g.in /\ s.d <= Band THEN [in |-> TRUE, seams |-> Append(g.seams, b)]
           ELSE IF g.in /\ BackInside(s) THEN [in |-> FALSE, seams |-> Append(g.seams, r)]
                ELSE g
  BY DEF EdgeSeamStep, b, r
<1>. DEFINE near == s.d <= Band
            away == BackInside(s)
<1>6. near \in BOOLEAN /\ away \in BOOLEAN /\ (away => ~near)
  BY <1>2 DEF BackInside
<1>7. /\ e1.in <=> ((~e.in /\ near /\ e.fresh) \/ (e.in /\ near))
      /\ e1.entries = IF ~e.in /\ near /\ e.fresh THEN e.entries + 1 ELSE e.entries
  BY DEF EntryStep, Enters
<1>8. /\ e1.fresh <=> (/\ ~(~e.in /\ near /\ e.fresh)
                       /\ e.fresh \/ (~e1.in /\ e1.entries > 0 /\ away))
      /\ e1.corrective <=> (e.corrective \/ (~e1.in /\ e1.entries > 0 /\ away))
  BY <1>7 DEF EntryStep, Enters
<1>9. /\ g.in <=> ~e.fresh
      /\ e.in => ~e.fresh
      /\ ~e.fresh => e.entries > 0
      /\ e.fresh /\ e.entries > 0 => e.corrective
      /\ e.corrective => e.entries > 0
      /\ Of(g.seams, "boundary") = e.entries
      /\ e.corrective <=> Of(g.seams, "retreat") > 0
  BY DEF Alongside
<1>. HIDE DEF near, away, e1, g1
<1>10. CASE e.fresh /\ near
  <2>1. g1.in = TRUE /\ g1.seams = Append(g.seams, b)
    BY <1>5, <1>9, <1>10 DEF near
  <2>2. e1.in /\ e1.entries = e.entries + 1 /\ ~e1.fresh /\ (e1.corrective <=> e.corrective)
    BY <1>7, <1>8, <1>9, <1>10
  <2>. QED  BY <1>1, <1>2, <1>4, <1>9, <2>1, <2>2 DEF Alongside, e1, g1
<1>11. CASE e.fresh /\ ~near
  <2>1. g1 = g
    BY <1>5, <1>9, <1>11 DEF near
  <2>2. ~e1.in /\ e1.entries = e.entries /\ e1.fresh /\ (e1.corrective <=> e.corrective)
    BY <1>2, <1>7, <1>8, <1>9, <1>11
  <2>. QED  BY <1>1, <1>2, <1>4, <1>9, <1>11, <2>1, <2>2 DEF Alongside, e1, g1
<1>12. CASE ~e.fresh /\ away
  <2>1. g1.in = FALSE /\ g1.seams = Append(g.seams, r)
    BY <1>5, <1>9, <1>12 DEF away
  <2>2. ~e1.in /\ e1.entries = e.entries /\ e1.fresh /\ e1.corrective
    BY <1>6, <1>7, <1>8, <1>9, <1>12
  <2>. QED  BY <1>1, <1>2, <1>4, <1>9, <1>12, <2>1, <2>2 DEF Alongside, e1, g1
<1>13. CASE ~e.fresh /\ ~away
  <2>1. g1 = g
    BY <1>5, <1>9, <1>13 DEF away
  <2>2. e1.entries = e.entries /\ ~e1.fresh /\ (e1.corrective <=> e.corrective)
    BY <1>7, <1>8, <1>9, <1>13
  <2>. QED  BY <1>1, <1>2, <1>4, <1>9, <1>13, <2>1, <2>2 DEF Alongside, e1, g1
<1>. QED  BY <1>2, <1>10, <1>11, <1>12, <1>13

LEMMA ScansAlongside ==
    ASSUME NEW seq \in Seq(SampleType)
    PROVE  Alongside(Scan(EntryStep, NoEntry, seq), Scan(EdgeSeamStep, NoSeam, seq))
<1>. DEFINE n == Len(seq)
<1>1. n \in Nat /\ \A i \in 1..n : seq[i] \in SampleType
  OBVIOUS
<1>2. PICK E : /\ Scan(EntryStep, NoEntry, seq) = E[n] /\ E[0] = NoEntry
               /\ \A i \in 1..n : E[i] = EntryStep(E[i - 1], seq[i])
  BY EntryScanIs
<1>3. PICK S : /\ Scan(EdgeSeamStep, NoSeam, seq) = S[n] /\ S[0] = NoSeam
               /\ \A i \in 1..n : S[i] = EdgeSeamStep(S[i - 1], seq[i])
  BY SeamScanIs
<1>. DEFINE G == {i \in 0..n : Alongside(E[i], S[i])}
<1>. HIDE DEF n
<1>4. 0 \in G
  <2>1. NoEntry \in EntryType /\ NoSeam \in SeamState
    BY DEF NoEntry, NoSeam, EntryType, SeamState
  <2>2. /\ NoEntry.in = FALSE /\ NoEntry.entries = 0 /\ NoEntry.fresh = TRUE /\ NoEntry.corrective = FALSE
        /\ NoSeam.in = FALSE /\ NoSeam.seams = <<>>
    BY DEF NoEntry, NoSeam
  <2>3. Alongside(NoEntry, NoSeam)
    BY <2>1, <2>2, NoSeams DEF Alongside
  <2>. QED  BY <1>1, <1>2, <1>3, <2>3
<1>5. ASSUME NEW i \in 1..n, i - 1 \in G PROVE i \in G
  <2>1. i \in 0..n /\ Alongside(E[i - 1], S[i - 1])
    BY <1>1, <1>5
  <2>2. Alongside(EntryStep(E[i - 1], seq[i]), EdgeSeamStep(S[i - 1], seq[i]))
    BY <1>1, <2>1, SideBySide
  <2>. QED  BY <1>2, <1>3, <2>1, <2>2
<1>6. G = 0..n
  <2>. HIDE DEF G
  <2>1. G \in SUBSET (0..n)
    BY DEF G
  <2>. QED  BY <1>1, <1>4, <1>5, <2>1, HandedOn
<1>7. n \in G
  BY <1>1, <1>6
<1>. QED  BY <1>2, <1>3, <1>7

\* Whatever was recorded, the two scans of it find the same encounters.
LEMMA SameEncounters ==
    ASSUME NEW run \in RunType
    PROVE  /\ Of(EdgeSeams(run), "boundary") = Entries(run)
           /\ Corrective(run) = "True" <=> Of(EdgeSeams(run), "retreat") > 0
           /\ Corrective(run) = "False" <=> Entries(run) > 0 /\ Of(EdgeSeams(run), "retreat") = 0
<1>. DEFINE e == Scan(EntryStep, NoEntry, Watched(run))
            g == Scan(EdgeSeamStep, NoSeam, Watched(run))
<1>1. Alongside(e, g)
  BY WatchedIs, ScansAlongside
<1>2. EntryScan(run) = e /\ Entries(run) = e.entries /\ EdgeSeams(run) = g.seams
  BY DEF EntryScan, Entries, EdgeSeams, NoEntry, NoSeam
<1>. HIDE DEF e, g
<1>3. /\ e.entries \in Nat /\ e.corrective \in BOOLEAN /\ Of(g.seams, "boundary") = e.entries
      /\ e.corrective <=> Of(g.seams, "retreat") > 0
      /\ e.corrective => e.entries > 0
  BY <1>1 DEF Alongside, EntryType
<1>4. Of(g.seams, "retreat") \in Nat
  <2>1. g.seams \in Seq(SeamType) /\ [step |-> 0, kind |-> "retreat"] \in SeamType
    BY <1>1 DEF Alongside, SeamState, SeamType
  <2>. QED  BY <2>1, OneMoreSeam
<1>5. /\ ~e.corrective \/ e.entries # 0
      /\ e.corrective = TRUE \/ e.corrective = FALSE
  BY <1>3
<1>6. e.entries = 0 => Corrective(run) = ""
  BY <1>2, <1>5, Zenon DEF Corrective
<1>7. e.entries # 0 /\ e.corrective => Corrective(run) = "True"
  BY <1>2, Zenon DEF Corrective
<1>8. e.entries # 0 /\ ~e.corrective => Corrective(run) = "False"
  BY <1>2, Zenon DEF Corrective
<1>9. CASE e.corrective
  <2>1. e.entries > 0 /\ Of(g.seams, "retreat") > 0 /\ Corrective(run) = "True"
    BY <1>3, <1>7, <1>9
  <2>. QED  BY <1>2, <1>3, <2>1
<1>10. CASE ~e.corrective
  <2>1. Of(g.seams, "retreat") = 0
    BY <1>3, <1>4, <1>10
  <2>2. CASE e.entries = 0
    <3>1. Corrective(run) # "True" /\ Corrective(run) # "False"
      <4>1. "" # "True" /\ "" # "False"
        BY Zenon
      <4>. QED  BY <1>6, <2>2, <4>1
    <3>. QED  BY <1>2, <1>3, <2>1, <2>2, <3>1
  <2>3. CASE e.entries # 0
    <3>1. Corrective(run) = "False" /\ e.entries > 0
      BY <1>3, <1>8, <1>10, <2>3
    <3>. QED  BY <1>2, <1>3, <2>1, <3>1
  <2>. QED  BY <2>2, <2>3
<1>. QED  BY <1>9, <1>10

LEMMA TypedAlways == Spec => []Typed
<1>1. Init => Typed
  BY TypedInit
<1>2. Typed /\ [Next]_vars => Typed'
  BY TypedStep
<1>. QED  BY <1>1, <1>2, PTL DEF Spec

\* For every battery, program, length of drive and setting of the rules: the scan that counts
\* the entries and the one that writes the seams, which start and stop apart and re-arm by
\* different flags, find the same encounters and the same corrections.
THEOREM SeamsMirrorEntries == Spec => []ScansAgree
<1>1. Typed => ScansAgree
  BY SameEncounters DEF Typed, ScansAgree, Of
<1>. QED  BY <1>1, TypedAlways, PTL


-----------------------------------------------------------------------------
(***************************************************************************)
(* A test that abstains.  It joins no valid test and no sum, so the flat   *)
(* mean of a goal is over the same tests as before.                        *)
(***************************************************************************)
Checks == {"proportion_cleared", "stays_on_island"}
Added(res, upTo, i) ==
    IF i = 0 THEN 0
    ELSE IF i \in Valid(res)
         THEN upTo[i - 1] + (Scale * res[i].of) \div res[i].out
         ELSE upTo[i - 1]
Summed(res, n, f) == DOMAIN f = 0..n /\ \A i \in 0..n : f[i] = Added(res, f, i)

\* The running sums of a goal exist, whatever the results are.
LEMMA SumsExist ==
    ASSUME NEW res, NEW n \in Nat
    PROVE  \E f : Summed(res, n, f)
<1>. DEFINE bad == {m \in 0..n : ~\E f : Summed(res, m, f)}
<1>. SUFFICES ASSUME bad # {} PROVE FALSE
  <2>1. n \in 0..n
    OBVIOUS
  <2>. QED  BY <2>1
<1>1. PICK m \in bad : \A k \in bad : m <= k
  <2>. HIDE DEF bad
  <2>1. bad \in SUBSET Nat
    BY DEF bad
  <2>. QED  BY <2>1, LeastIsThere
<1>2. m \in 0..n /\ m \in Nat /\ ~\E f : Summed(res, m, f)
  OBVIOUS
<1>3. m # 0
  <2>. SUFFICES ASSUME m = 0 PROVE FALSE
    OBVIOUS
  <2>. DEFINE f == [i \in 0..0 |-> 0]
  <2>1. Summed(res, 0, f)
    BY DEF Summed, Added
  <2>. HIDE DEF f
  <2>. QED  BY <1>2, <2>1
<1>4. m - 1 \in 0..n /\ ~(m <= m - 1)
  BY <1>2, <1>3
<1>5. PICK f : Summed(res, m - 1, f)
  BY <1>1, <1>4
<1>. DEFINE h == [i \in 0..m |-> IF i = m THEN Added(res, f, m) ELSE f[i]]
<1>6. ASSUME NEW i \in 0..m PROVE h[i] = Added(res, h, i)
  <2>1. CASE i = m
    <3>1. h[i] = Added(res, f, m) /\ m - 1 \in 0..m /\ m - 1 # m
      BY <1>2, <1>3, <2>1
    <3>2. h[m - 1] = f[m - 1]
      BY <3>1
    <3>. HIDE DEF h
    <3>. QED  BY <1>3, <2>1, <3>1, <3>2 DEF Added
  <2>2. CASE i # m
    <3>1. i \in 0..(m - 1) /\ h[i] = f[i]
      BY <1>2, <2>2
    <3>2. f[i] = Added(res, f, i)
      BY <1>5, <3>1 DEF Summed
    <3>3. CASE i = 0
      BY <3>1, <3>2, <3>3 DEF Added
    <3>4. CASE i # 0
      <4>1. i - 1 \in 0..m /\ i - 1 # m
        BY <1>2, <3>4
      <4>2. h[i - 1] = f[i - 1]
        BY <4>1
      <4>. HIDE DEF h
      <4>. QED  BY <3>1, <3>2, <3>4, <4>2 DEF Added
    <3>. QED  BY <3>3, <3>4
  <2>. QED  BY <2>1, <2>2
<1>7. Summed(res, m, h)
  <2>1. DOMAIN h = 0..m
    OBVIOUS
  <2>. HIDE DEF h
  <2>. QED  BY <1>6, <2>1 DEF Summed
<1>. HIDE DEF h
<1>. QED  BY <1>2, <1>7

LEMMA SumIs ==
    ASSUME NEW res, Len(res) \in Nat
    PROVE  \E f : Summed(res, Len(res), f) /\ Sum(res) = f[Len(res)]
<1>. DEFINE n == Len(res)
            F == CHOOSE f : f = [i \in 0..n |-> Added(res, f, i)]
<1>1. Sum(res) = F[n]
  BY DEF Sum, Added
<1>2. n \in Nat
  OBVIOUS
<1>. HIDE DEF n
<1>3. PICK f : Summed(res, n, f)
  BY <1>2, SumsExist
<1>. DEFINE e == [i \in 0..n |-> f[i]]
<1>4. ASSUME NEW i \in 0..n PROVE e[i] = Added(res, e, i)
  <2>1. f[i] = Added(res, f, i) /\ e[i] = f[i]
    BY <1>3 DEF Summed
  <2>2. CASE i = 0
    BY <2>1, <2>2 DEF Added
  <2>3. CASE i # 0
    <3>1. i - 1 \in 0..n
      BY <1>2, <2>3
    <3>2. e[i - 1] = f[i - 1]
      BY <3>1
    <3>. HIDE DEF e
    <3>. QED  BY <2>1, <2>3, <3>2 DEF Added
  <2>. QED  BY <2>2, <2>3
<1>5. \E x : x = [i \in 0..n |-> Added(res, x, i)]
  <2>1. e = [i \in 0..n |-> e[i]]
    OBVIOUS
  <2>. HIDE DEF e
  <2>2. e = [i \in 0..n |-> Added(res, e, i)]
    BY <1>4, <2>1
  <2>. QED  BY <2>2
<1>6. F = [i \in 0..n |-> Added(res, F, i)]
  BY <1>5
<1>. HIDE DEF F
<1>7. Summed(res, n, F)
  <2>. DEFINE N(i) == Added(res, F, i)
  <2>1. F = [i \in 0..n |-> N(i)]
    BY <1>6
  <2>. HIDE DEF N
  <2>2. DOMAIN F = 0..n /\ \A i \in 0..n : F[i] = N(i)
    BY <2>1
  <2>. QED  BY <2>2 DEF Summed, N
<1>. QED  BY <1>1, <1>7 DEF n

\* Valid tests, their sum and their number are what they were.
LEMMA AbstainedAdds ==
    ASSUME NEW S, NEW was \in Seq(S), NEW r \in S, r.abstained
    PROVE  /\ Valid(Append(was, r)) = Valid(was)
           /\ Sum(Append(was, r)) = Sum(was)
           /\ Cardinality(Valid(was)) \in Nat
<1>. DEFINE n == Len(was)
            now == Append(was, r)
<1>1. /\ n \in Nat /\ Len(now) = n + 1 /\ DOMAIN now = 1..(n + 1) /\ DOMAIN was = 1..n
      /\ now[n + 1] = r /\ \A i \in 1..n : now[i] = was[i]
  OBVIOUS
<1>. HIDE DEF n, now
<1>2. Valid(now) = Valid(was)
  <2>1. \A i : i \in Valid(now) <=> i \in Valid(was)
    BY <1>1 DEF Valid
  <2>. QED  BY <2>1 DEF Valid
<1>3. Valid(was) \in SUBSET (1..n)
  BY <1>1 DEF Valid
<1>4. Cardinality(Valid(was)) \in Nat
  <2>1. IsFiniteSet(1..n)
    BY <1>1, FS_Interval
  <2>2. IsFiniteSet(Valid(was))
    BY <1>3, <2>1, FS_Subset
  <2>. QED  BY <2>2, FS_CardinalityType
<1>5. Sum(now) = Sum(was)
  <2>1. PICK f : Summed(was, n, f) /\ Sum(was) = f[n]
    <3>1. \E f : Summed(was, Len(was), f) /\ Sum(was) = f[Len(was)]
      BY <1>1, SumIs DEF n
    <3>. QED  BY <3>1 DEF n
  <2>2. PICK g : Summed(now, n + 1, g) /\ Sum(now) = g[n + 1]
    <3>1. Len(now) \in Nat
      BY <1>1
    <3>2. \E g : Summed(now, Len(now), g) /\ Sum(now) = g[Len(now)]
      BY <3>1, SumIs
    <3>. QED  BY <1>1, <3>2
  <2>. DEFINE G == {i \in 0..n : g[i] = f[i]}
  <2>3. 0 \in G
    <3>1. 0 \in 0..n /\ 0 \in 0..(n + 1)
      BY <1>1
    <3>2. g[0] = Added(now, g, 0) /\ f[0] = Added(was, f, 0)
      BY <2>1, <2>2, <3>1 DEF Summed
    <3>. QED  BY <3>1, <3>2 DEF Added
  <2>4. ASSUME NEW i \in 1..n, i - 1 \in G PROVE i \in G
    <3>1. i \in 0..n /\ i \in 0..(n + 1) /\ i # 0 /\ now[i] = was[i] /\ g[i - 1] = f[i - 1]
      BY <1>1, <2>4
    <3>2. g[i] = Added(now, g, i) /\ f[i] = Added(was, f, i)
      BY <2>1, <2>2, <3>1 DEF Summed
    <3>3. i \in Valid(now) <=> i \in Valid(was)
      BY <1>2
    <3>. QED  BY <3>1, <3>2, <3>3 DEF Added
  <2>5. G = 0..n
    <3>. HIDE DEF G
    <3>1. G \in SUBSET (0..n)
      BY DEF G
    <3>. QED  BY <1>1, <2>3, <2>4, <3>1, HandedOn
  <2>6. g[n] = f[n]
    <3>1. n \in G
      BY <1>1, <2>5
    <3>. QED  BY <3>1
  <2>7. g[n + 1] = g[n]
    <3>1. n + 1 \in 0..(n + 1) /\ n + 1 # 0 /\ (n + 1) - 1 = n /\ n + 1 \notin Valid(was)
      BY <1>1, <1>3
    <3>2. g[n + 1] = Added(now, g, n + 1)
      BY <2>2, <3>1 DEF Summed
    <3>. QED  BY <1>2, <3>1, <3>2 DEF Added
  <2>. QED  BY <2>1, <2>2, <2>6, <2>7
<1>. QED  BY <1>2, <1>4, <1>5 DEF now

\* The results of every check are kept in order, one per scenario.
ResultsKept ==
    /\ DOMAIN results = Checks
    /\ \A check \in Checks : \E S : results[check] \in Seq(S)

LEMMA ResultsInit ==
    ASSUME Init
    PROVE  ResultsKept
<1>1. results = [check \in Checks |-> <<>>]
  BY DEF Init, Checks
<1>2. <<>> \in Seq({})
  OBVIOUS
<1>. QED  BY <1>1, <1>2 DEF ResultsKept

LEMMA ResultsGrow ==
    ASSUME ResultsKept, [Next]_vars
    PROVE  \/ results' = results
           \/ /\ DOMAIN results' = Checks
              /\ \A check \in Checks : results'[check] = Append(results[check], Checked(check))
<1>1. ASSUME NEW code \in Codes, EndScenario(code)
      PROVE  /\ DOMAIN results' = Checks
             /\ \A check \in Checks : results'[check] = Append(results[check], Checked(check))
  <2>. DEFINE new(c) == Append(results[c], Checked(c))
  <2>1. results' = [check \in DOMAIN results |-> new(check)]
    BY <1>1 DEF EndScenario
  <2>. HIDE DEF new
  <2>2. DOMAIN results' = Checks /\ \A check \in Checks : results'[check] = new(check)
    BY <2>1 DEF ResultsKept
  <2>. QED  BY <2>2 DEF new
<1>2. CASE UNCHANGED vars
  BY <1>2 DEF vars
<1>3. ASSUME NEW d \in Lengths, DriveFor(d) PROVE results' = results
  BY <1>3 DEF DriveFor, Keeps
<1>4. CASE TurnAround
  BY <1>4 DEF TurnAround, Keeps
<1>5. CASE Sense
  BY <1>5 DEF Sense, Keeps
<1>. QED  BY <1>1, <1>2, <1>3, <1>4, <1>5 DEF Next

LEMMA ResultsStep ==
    ASSUME ResultsKept, [Next]_vars
    PROVE  ResultsKept'
<1>1. CASE results' = results
  BY <1>1 DEF ResultsKept
<1>2. ASSUME DOMAIN results' = Checks,
             \A check \in Checks : results'[check] = Append(results[check], Checked(check))
      PROVE  ResultsKept'
  <2>1. ASSUME NEW check \in Checks PROVE \E S : results'[check] \in Seq(S)
    <3>1. PICK S : results[check] \in Seq(S)
      BY DEF ResultsKept
    <3>. DEFINE r == Checked(check)
                T == S \cup {r}
    <3>. HIDE DEF r
    <3>2. results[check] \in Seq(T) /\ r \in T
      BY <3>1
    <3>. HIDE DEF T
    <3>3. Append(results[check], r) \in Seq(T)
      BY <3>2
    <3>. QED  BY <1>2, <3>3 DEF r
  <2>. QED  BY <1>2, <2>1 DEF ResultsKept
<1>. QED  BY <1>1, <1>2, ResultsGrow

LEMMA SameBand ==
    ASSUME NEW S, NEW was \in Seq(S), NEW r, r.abstained, NEW goal
    PROVE  GoalBand(goal, Append(was, r)) = [GoalBand(goal, was) EXCEPT !.abstained = @ + 1]
<1>. DEFINE T == S \cup {r}
            now == Append(was, r)
            n == Cardinality(Valid(was))
<1>1. was \in Seq(T) /\ r \in T
  OBVIOUS
<1>. HIDE DEF T
<1>2. Valid(now) = Valid(was) /\ Sum(now) = Sum(was) /\ n \in Nat
  BY <1>1, AbstainedAdds
<1>3. Len(now) = Len(was) + 1 /\ Len(was) \in Nat
  BY <1>1
<1>. HIDE DEF now
<1>. DEFINE band == IF Valid(was) = {} THEN "U" ELSE BandFor(goal, Sum(was), n)
            certainty == IF Valid(was) # {} /\ n < SparseMin(goal) THEN "reduced" ELSE "full"
<1>4. /\ GoalBand(goal, was) = [band |-> band, valid |-> n, abstained |-> Len(was) - n, certainty |-> certainty]
      /\ GoalBand(goal, now) = [band |-> band, valid |-> n, abstained |-> Len(now) - n, certainty |-> certainty]
  BY <1>2 DEF GoalBand
<1>. HIDE DEF band, certainty, n
<1>5. Len(now) - n = (Len(was) - n) + 1
  BY <1>2, <1>3
<1>6. GoalBand(goal, now) = [GoalBand(goal, was) EXCEPT !.abstained = @ + 1]
  BY <1>4, <1>5
<1>. QED  BY <1>6 DEF now

\* "abstention shrinks the denominator, never zeroes" (battery_rollup's banded_rollup): for
\* every battery and every sequence of results, a test that abstains leaves the band of both
\* goals, its number of valid tests and its certainty as they were, and is counted.
THEOREM AbstentionIsNeutral == Spec => AbstentionChangesNoBand
<1>1. Init => ResultsKept
  BY ResultsInit
<1>2. ResultsKept /\ [Next]_vars => ResultsKept'
  BY ResultsStep
<1>. DEFINE Step(goal) == LET was == results[CheckOf(goal)]
                              now == results'[CheckOf(goal)]
                          IN  Last(now).abstained =>
                                GoalBand(goal, now) = [GoalBand(goal, was) EXCEPT !.abstained = @ + 1]
            Goals == {"clear_debris_zone", "remain_on_island"}
<1>3. ResultsKept /\ [Next]_vars => [results' # results => \A goal \in Goals : Step(goal)]_vars
  <2>. SUFFICES ASSUME ResultsKept, [Next]_vars, results' # results, NEW goal \in Goals
                PROVE  Step(goal)
    OBVIOUS
  <2>. DEFINE check == CheckOf(goal)
              r == Checked(check)
  <2>1. check \in Checks
    BY DEF CheckOf, Checks
  <2>2. results'[check] = Append(results[check], r)
    BY <2>1, ResultsGrow
  <2>3. PICK S : results[check] \in Seq(S)
    BY <2>1 DEF ResultsKept
  <2>. HIDE DEF check, r
  <2>4. Last(results'[check]) = r
    BY <2>2, <2>3 DEF Last
  <2>. SUFFICES ASSUME r.abstained
                PROVE  GoalBand(goal, results'[check])
                         = [GoalBand(goal, results[check]) EXCEPT !.abstained = @ + 1]
    BY <2>4 DEF check
  <2>. QED  BY <2>2, <2>3, SameBand
<1>. QED  BY <1>1, <1>2, <1>3, PTL DEF Spec, AbstentionChangesNoBand


-----------------------------------------------------------------------------
(***************************************************************************)
(* A row of evidence.  Every count of it is a natural number.              *)
(***************************************************************************)
ReturnType == [seen : BOOLEAN, pending : BOOLEAN, returns : Nat]
NoReturn == [seen |-> FALSE, pending |-> FALSE, returns |-> 0]
CycleType == [cycles : Nat, open : BOOLEAN]
NoCycle == [cycles |-> 0, open |-> FALSE]

LEMMA ReturnStepIs ==
    ASSUME NEW st \in ReturnType, NEW s
    PROVE  ReturnStep(st, s) \in ReturnType
<1>1. \/ ReturnStep(st, s) = [seen |-> TRUE, pending |-> FALSE, returns |-> st.returns]
      \/ ReturnStep(st, s) = [st EXCEPT !.pending = TRUE]
      \/ ReturnStep(st, s) = [seen |-> st.seen, pending |-> FALSE, returns |-> st.returns + 1]
      \/ ReturnStep(st, s) = st
  BY Zenon DEF ReturnStep
<1>2. st.seen \in BOOLEAN /\ st.returns \in Nat
  BY DEF ReturnType
<1>3. [st EXCEPT !.pending = TRUE] \in ReturnType
  BY DEF ReturnType
<1>4. /\ [seen |-> TRUE, pending |-> FALSE, returns |-> st.returns] \in ReturnType
      /\ [seen |-> st.seen, pending |-> FALSE, returns |-> st.returns + 1] \in ReturnType
  BY <1>2 DEF ReturnType
<1>. QED  BY <1>1, <1>3, <1>4

LEMMA CycleStepIs ==
    ASSUME NEW st \in CycleType, NEW s
    PROVE  CycleStep(st, s) \in CycleType
<1>. DEFINE more == IF st.open THEN st.cycles + 1 ELSE st.cycles
<1>1. st.cycles \in Nat /\ st.cycles + 1 \in Nat /\ more \in Nat
  BY DEF CycleType
<1>2. \/ CycleStep(st, s) = [cycles |-> more, open |-> TRUE]
      \/ CycleStep(st, s) = [cycles |-> st.cycles + 1, open |-> FALSE]
      \/ CycleStep(st, s) = st
  BY Zenon DEF CycleStep
<1>. HIDE DEF more
<1>3. /\ [cycles |-> more, open |-> TRUE] \in CycleType
      /\ [cycles |-> st.cycles + 1, open |-> FALSE] \in CycleType
  BY <1>1 DEF CycleType
<1>. QED  BY <1>2, <1>3

\* The count of resumed pursuits, seam by seam.
LEMMA ReturnScanIs ==
    ASSUME NEW S, NEW seq \in Seq(S)
    PROVE  \E F : /\ Scan(ReturnStep, NoReturn, seq) = F[Len(seq)]
                  /\ F[0] = NoReturn
                  /\ \A i \in 1..Len(seq) : F[i] = ReturnStep(F[i - 1], seq[i])
<1>. DEFINE n == Len(seq)
            At(f, i) == IF i = 0 THEN NoReturn ELSE ReturnStep(f[i - 1], seq[i])
            F == CHOOSE f : f = [i \in 0..n |-> At(f, i)]
            T == ReturnType
            g == [p \in T \X (1..n) |-> ReturnStep(p[1], seq[p[2]])]
<1>1. Scan(ReturnStep, NoReturn, seq) = F[n]
  BY DEF Scan
<1>2. n \in Nat
  OBVIOUS
<1>. HIDE DEF n
<1>3. \A q \in T, i \in 1..n : ReturnStep(q, seq[i]) \in T
  BY <1>2, ReturnStepIs
<1>4. NoReturn \in T
  BY DEF ReturnType, NoReturn
<1>. HIDE DEF T
<1>5. StepsIn(T, n, g) /\ \A q \in T, i \in 1..n : g[<<q, i>>] = ReturnStep(q, seq[i])
  <2>1. g \in [T \X (1..n) -> T]
    BY <1>3
  <2>. QED  BY <2>1 DEF StepsIn
<1>. HIDE DEF g
<1>6. PICK f : Course(T, NoReturn, n, g, f)
  BY <1>2, <1>4, <1>5, Iterates
<1>7. ASSUME NEW i \in 0..n PROVE f[i] = At(f, i)
  <2>1. CASE i = 0
    BY <1>6, <2>1 DEF Course
  <2>2. CASE i # 0
    <3>1. i \in 1..n /\ i - 1 \in 0..n
      BY <1>2, <2>2
    <3>2. f[i - 1] \in T /\ f[i] = g[<<f[i - 1], i>>]
      BY <1>6, <3>1 DEF Course
    <3>. QED  BY <1>5, <2>2, <3>1, <3>2
  <2>. QED  BY <2>1, <2>2
<1>8. \E x : x = [i \in 0..n |-> At(x, i)]
  <2>1. f = [i \in 0..n |-> f[i]]
    BY <1>6 DEF Course
  <2>. HIDE DEF At
  <2>2. f = [i \in 0..n |-> At(f, i)]
    BY <1>7, <2>1
  <2>. QED  BY <2>2
<1>9. F = [i \in 0..n |-> At(F, i)]
  <2>. HIDE DEF At
  <2>. QED  BY <1>8
<1>. HIDE DEF F
<1>10. \A i \in 0..n : F[i] = At(F, i)
  <2>. DEFINE N(i) == At(F, i)
  <2>1. F = [i \in 0..n |-> N(i)]
    BY <1>9
  <2>. HIDE DEF N, At
  <2>2. \A i \in 0..n : F[i] = N(i)
    BY <2>1
  <2>. QED  BY <2>2 DEF N
<1>11. F[0] = NoReturn
  <2>1. 0 \in 0..n
    BY <1>2
  <2>2. F[0] = At(F, 0)
    BY <1>10, <2>1
  <2>. QED  BY <2>2
<1>12. \A i \in 1..n : F[i] = ReturnStep(F[i - 1], seq[i])
  <2>. TAKE i \in 1..n
  <2>1. i \in 0..n /\ i # 0
    BY <1>2
  <2>2. F[i] = At(F, i)
    BY <1>10, <2>1
  <2>. QED  BY <2>1, <2>2
<1>. QED  BY <1>1, <1>11, <1>12 DEF n

\* The count of reassessment cycles, seam by seam.
LEMMA CycleScanIs ==
    ASSUME NEW S, NEW seq \in Seq(S)
    PROVE  \E F : /\ Scan(CycleStep, NoCycle, seq) = F[Len(seq)]
                  /\ F[0] = NoCycle
                  /\ \A i \in 1..Len(seq) : F[i] = CycleStep(F[i - 1], seq[i])
<1>. DEFINE n == Len(seq)
            At(f, i) == IF i = 0 THEN NoCycle ELSE CycleStep(f[i - 1], seq[i])
            F == CHOOSE f : f = [i \in 0..n |-> At(f, i)]
            T == CycleType
            g == [p \in T \X (1..n) |-> CycleStep(p[1], seq[p[2]])]
<1>1. Scan(CycleStep, NoCycle, seq) = F[n]
  BY DEF Scan
<1>2. n \in Nat
  OBVIOUS
<1>. HIDE DEF n
<1>3. \A q \in T, i \in 1..n : CycleStep(q, seq[i]) \in T
  BY <1>2, CycleStepIs
<1>4. NoCycle \in T
  BY DEF CycleType, NoCycle
<1>. HIDE DEF T
<1>5. StepsIn(T, n, g) /\ \A q \in T, i \in 1..n : g[<<q, i>>] = CycleStep(q, seq[i])
  <2>1. g \in [T \X (1..n) -> T]
    BY <1>3
  <2>. QED  BY <2>1 DEF StepsIn
<1>. HIDE DEF g
<1>6. PICK f : Course(T, NoCycle, n, g, f)
  BY <1>2, <1>4, <1>5, Iterates
<1>7. ASSUME NEW i \in 0..n PROVE f[i] = At(f, i)
  <2>1. CASE i = 0
    BY <1>6, <2>1 DEF Course
  <2>2. CASE i # 0
    <3>1. i \in 1..n /\ i - 1 \in 0..n
      BY <1>2, <2>2
    <3>2. f[i - 1] \in T /\ f[i] = g[<<f[i - 1], i>>]
      BY <1>6, <3>1 DEF Course
    <3>. QED  BY <1>5, <2>2, <3>1, <3>2
  <2>. QED  BY <2>1, <2>2
<1>8. \E x : x = [i \in 0..n |-> At(x, i)]
  <2>1. f = [i \in 0..n |-> f[i]]
    BY <1>6 DEF Course
  <2>. HIDE DEF At
  <2>2. f = [i \in 0..n |-> At(f, i)]
    BY <1>7, <2>1
  <2>. QED  BY <2>2
<1>9. F = [i \in 0..n |-> At(F, i)]
  <2>. HIDE DEF At
  <2>. QED  BY <1>8
<1>. HIDE DEF F
<1>10. \A i \in 0..n : F[i] = At(F, i)
  <2>. DEFINE N(i) == At(F, i)
  <2>1. F = [i \in 0..n |-> N(i)]
    BY <1>9
  <2>. HIDE DEF N, At
  <2>2. \A i \in 0..n : F[i] = N(i)
    BY <2>1
  <2>. QED  BY <2>2 DEF N
<1>11. F[0] = NoCycle
  <2>1. 0 \in 0..n
    BY <1>2
  <2>2. F[0] = At(F, 0)
    BY <1>10, <2>1
  <2>. QED  BY <2>2
<1>12. \A i \in 1..n : F[i] = CycleStep(F[i - 1], seq[i])
  <2>. TAKE i \in 1..n
  <2>1. i \in 0..n /\ i # 0
    BY <1>2
  <2>2. F[i] = At(F, i)
    BY <1>10, <2>1
  <2>. QED  BY <2>1, <2>2
<1>. QED  BY <1>1, <1>11, <1>12 DEF n


Kinds == {"acquire", "boundary", "clear", "engage", "loss", "recovery", "retreat"}
Tagged == [step : Int, kind : Kinds]

\* The seams of a run are a sequence, sorted or not.
LEMMA SeamsAre ==
    ASSUME NEW run \in RunType
    PROVE  \E S : Seams(run) \in Seq(S)
<1>1. /\ run.log \in Seq(LogType) /\ run.w \in WorldType /\ run.detect \in Int
      /\ run.w.contact \in Int /\ run.w.cleared \in Int
  <2>1. run.log \in Seq(LogType) /\ run.w \in WorldType /\ run.detect \in Int
    BY DEF RunType
  <2>. QED  BY <2>1 DEF WorldType
<1>2. ASSUME NEW k \in Kinds, NEW step \in Int
      PROVE  Seam(run, k, step) \in Seq(Tagged) /\ SinceOnset(run, k, step) \in Seq(Tagged)
  <2>1. [step |-> step, kind |-> k] \in Tagged
    BY DEF Tagged
  <2>2. <<[step |-> step, kind |-> k]>> \in Seq(Tagged) /\ <<>> \in Seq(Tagged)
    BY <2>1
  <2>. QED  BY <2>2 DEF Seam, SinceOnset
<1>3. /\ "acquire" \in Kinds /\ "engage" \in Kinds /\ "clear" \in Kinds
      /\ "loss" \in Kinds /\ "recovery" \in Kinds
  BY DEF Kinds
<1>4. RecoverySeams(run) \in Seq(Tagged)
  <2>. DEFINE n == Len(run.log)
              at(i) == IF run.log[i].edge = Nowhere THEN Seam(run, "recovery", run.log[i].step) ELSE <<>>
              legs == [i \in 1..n |-> at(i)]
  <2>1. n \in Nat /\ DOMAIN run.log = 1..n
    BY <1>1
  <2>2. RecoverySeams(run) = FlattenSeq(legs)
    BY <2>1 DEF RecoverySeams
  <2>3. ASSUME NEW i \in 1..n PROVE at(i) \in Seq(Tagged)
    <3>1. run.log[i].step \in Int
      <4>1. run.log[i] \in LogType
        BY <1>1
      <4>. QED  BY <4>1 DEF LogType
    <3>2. Seam(run, "recovery", run.log[i].step) \in Seq(Tagged)
      BY <1>2, <1>3, <3>1
    <3>3. <<>> \in Seq(Tagged)
      OBVIOUS
    <3>. QED  BY <3>2, <3>3
  <2>. HIDE DEF at, n
  <2>4. legs \in [1..n -> Seq(Tagged)]
    BY <2>3
  <2>5. legs \in Seq(Seq(Tagged))
    BY <2>1, <2>4
  <2>. QED  BY <2>2, <2>5, FlattenIs
<1>5. EdgeSeams(run) \in Seq(Tagged)
  <2>. DEFINE g == Scan(EdgeSeamStep, NoSeam, Watched(run))
  <2>1. Alongside(Scan(EntryStep, NoEntry, Watched(run)), g)
    BY WatchedIs, ScansAlongside
  <2>2. EdgeSeams(run) = g.seams
    BY DEF EdgeSeams, NoSeam
  <2>. HIDE DEF g
  <2>3. EdgeSeams(run) \in Seq(SeamType)
    BY <2>1, <2>2 DEF Alongside, SeamState
  <2>4. SeamType \subseteq Tagged
    BY DEF SeamType, Tagged, Kinds
  <2>. QED  BY <2>3, <2>4
<1>. DEFINE a == SinceOnset(run, "acquire", run.detect)
            b == SinceOnset(run, "engage", run.w.contact)
            c == Seam(run, "clear", run.w.cleared)
            l == IF run.w.contact # Never THEN Seam(run, "loss", run.w.cleared) ELSE <<>>
            all == a \o b \o c \o l \o RecoverySeams(run) \o EdgeSeams(run)
            at(k) == all[CHOOSE i \in DOMAIN all : Place(all, i) = k]
            T == {at(k) : k \in DOMAIN all}
<1>6. all \in Seq(Tagged)
  <2>1. /\ a \in Seq(Tagged) /\ b \in Seq(Tagged) /\ c \in Seq(Tagged)
        /\ Seam(run, "loss", run.w.cleared) \in Seq(Tagged)
    BY <1>1, <1>2, <1>3
  <2>2. <<>> \in Seq(Tagged)
    OBVIOUS
  <2>3. l \in Seq(Tagged)
    BY <2>1, <2>2
  <2>. HIDE DEF a, b, c, l
  <2>. QED  BY <1>4, <1>5, <2>1, <2>3
<1>7. Seams(run) = IF run.path = <<>> THEN <<>> ELSE Ordered(all)
  BY DEF Seams
<1>8. Ordered(all) = [k \in DOMAIN all |-> at(k)]
  BY DEF Ordered
<1>. HIDE DEF all
<1>9. DOMAIN all = 1..Len(all) /\ Len(all) \in Nat
  BY <1>6
<1>. HIDE DEF at
<1>10. [k \in DOMAIN all |-> at(k)] \in [DOMAIN all -> T]
  OBVIOUS
<1>. HIDE DEF T
<1>11. Ordered(all) \in Seq(T) /\ <<>> \in Seq(T)
  BY <1>8, <1>9, <1>10
<1>. QED  BY <1>7, <1>11

LEMMA SeamCounts ==
    ASSUME NEW S, NEW seams \in Seq(S)
    PROVE  /\ TaskTransitions(seams) \in Nat
           /\ TaskReturns(seams) \in Nat
           /\ ReassessmentCycles(seams) \in Nat
<1>. DEFINE n == Len(seams)
<1>1. n \in Nat
  OBVIOUS
<1>2. TaskTransitions(seams) \in Nat
  <2>. DEFINE C == {i \in 1..(n - 1) : /\ seams[i].kind # seams[i + 1].kind
                                       /\ seams[i + 1].kind \in TaskKinds}
  <2>1. IsFiniteSet(1..(n - 1))
    BY <1>1, FS_Interval
  <2>2. C \in SUBSET (1..(n - 1))
    OBVIOUS
  <2>3. TaskTransitions(seams) = Cardinality(C)
    BY DEF TaskTransitions
  <2>. HIDE DEF C
  <2>. QED  BY <2>1, <2>2, <2>3, FS_Subset, FS_CardinalityType
<1>3. TaskReturns(seams) \in Nat
  <2>1. PICK F : /\ Scan(ReturnStep, NoReturn, seams) = F[n] /\ F[0] = NoReturn
                 /\ \A i \in 1..n : F[i] = ReturnStep(F[i - 1], seams[i])
    BY ReturnScanIs
  <2>2. TaskReturns(seams) = F[n].returns
    BY <2>1 DEF TaskReturns, NoReturn
  <2>. DEFINE G == {i \in 0..n : F[i] \in ReturnType}
  <2>. HIDE DEF n
  <2>3. 0 \in G
    <3>1. NoReturn \in ReturnType
      BY DEF ReturnType, NoReturn
    <3>. QED  BY <1>1, <2>1, <3>1
  <2>4. ASSUME NEW i \in 1..n, i - 1 \in G PROVE i \in G
    <3>1. i \in 0..n /\ F[i - 1] \in ReturnType
      BY <1>1, <2>4
    <3>. QED  BY <2>1, <3>1, ReturnStepIs
  <2>5. G = 0..n
    <3>. HIDE DEF G
    <3>1. G \in SUBSET (0..n)
      BY DEF G
    <3>. QED  BY <1>1, <2>3, <2>4, <3>1, HandedOn
  <2>6. F[n] \in ReturnType
    <3>1. n \in G
      BY <1>1, <2>5
    <3>. QED  BY <3>1
  <2>. QED  BY <2>2, <2>6 DEF ReturnType
<1>4. ReassessmentCycles(seams) \in Nat
  <2>1. PICK F : /\ Scan(CycleStep, NoCycle, seams) = F[n] /\ F[0] = NoCycle
                 /\ \A i \in 1..n : F[i] = CycleStep(F[i - 1], seams[i])
    BY CycleScanIs
  <2>2. ReassessmentCycles(seams) = F[n].cycles
    BY <2>1 DEF ReassessmentCycles, NoCycle
  <2>. DEFINE G == {i \in 0..n : F[i] \in CycleType}
  <2>. HIDE DEF n
  <2>3. 0 \in G
    <3>1. NoCycle \in CycleType
      BY DEF CycleType, NoCycle
    <3>. QED  BY <1>1, <2>1, <3>1
  <2>4. ASSUME NEW i \in 1..n, i - 1 \in G PROVE i \in G
    <3>1. i \in 0..n /\ F[i - 1] \in CycleType
      BY <1>1, <2>4
    <3>. QED  BY <2>1, <3>1, CycleStepIs
  <2>5. G = 0..n
    <3>. HIDE DEF G
    <3>1. G \in SUBSET (0..n)
      BY DEF G
    <3>. QED  BY <1>1, <2>3, <2>4, <3>1, HandedOn
  <2>6. F[n] \in CycleType
    <3>1. n \in G
      BY <1>1, <2>5
    <3>. QED  BY <3>1
  <2>. QED  BY <2>2, <2>6 DEF CycleType
<1>. QED  BY <1>2, <1>3, <1>4

Counted(r) ==
    /\ r.entries \in Nat /\ r.transitions \in Nat /\ r.returns \in Nat /\ r.cycles \in Nat
    /\ r.alternations \in Nat
RowsCounted(rs) == \E S : rs \in Seq(S) /\ \A r \in S : Counted(r)

LEMMA RowIs ==
    ASSUME Typed, todo # <<>>, NEW code \in Codes
    PROVE  Counted(Row(code))
<1>. DEFINE traced == IF sim.path = <<>>
                      THEN [alternations |-> 0, responds |-> FALSE, terminates |-> FALSE] ELSE code
            seams == Seams(sim)
<1>1. sim \in RunType
  BY DEF Typed
<1>2. traced.alternations \in Nat
  BY BatteryAssumption
<1>3. TaskTransitions(seams) \in Nat /\ TaskReturns(seams) \in Nat /\ ReassessmentCycles(seams) \in Nat
  BY <1>1, SeamsAre, SeamCounts
<1>4. Entries(sim) \in Nat
  <2>. DEFINE e == Scan(EntryStep, NoEntry, Watched(sim))
  <2>1. Alongside(e, Scan(EdgeSeamStep, NoSeam, Watched(sim)))
    BY <1>1, WatchedIs, ScansAlongside
  <2>2. Entries(sim) = e.entries
    BY DEF Entries, EntryScan, NoEntry
  <2>. HIDE DEF e
  <2>. QED  BY <2>1, <2>2 DEF Alongside, EntryType
<1>5. /\ Row(code).entries = Entries(sim) /\ Row(code).transitions = TaskTransitions(seams)
      /\ Row(code).returns = TaskReturns(seams) /\ Row(code).cycles = ReassessmentCycles(seams)
      /\ Row(code).alternations = traced.alternations
  BY DEF Row
<1>. HIDE DEF traced, seams
<1>. QED  BY <1>2, <1>3, <1>4, <1>5 DEF Counted

\* Rows are only ever added, one by scenario, and what was measured before stays.
LEMMA RowsGrow ==
    ASSUME Typed, [Next]_vars
    PROVE  /\ battery' = battery
           /\ rows' # rows => \E r : Counted(r) /\ rows' = Append(rows, r)
<1>1. ASSUME NEW code \in Codes, EndScenario(code)
      PROVE  /\ battery' = battery
             /\ rows' # rows => \E r : Counted(r) /\ rows' = Append(rows, r)
  <2>1. todo # <<>> /\ battery' = battery /\ (rows' = rows \/ rows' = Append(rows, Row(code)))
    BY <1>1 DEF EndScenario
  <2>2. Counted(Row(code))
    BY <2>1, RowIs
  <2>. QED  BY <2>1, <2>2
<1>2. CASE UNCHANGED vars
  BY <1>2 DEF vars
<1>3. ASSUME NEW d \in Lengths, DriveFor(d) PROVE battery' = battery /\ rows' = rows
  BY <1>3 DEF DriveFor, Keeps
<1>4. CASE TurnAround
  BY <1>4 DEF TurnAround, Keeps
<1>5. CASE Sense
  BY <1>5 DEF Sense, Keeps
<1>. QED  BY <1>1, <1>2, <1>3, <1>4, <1>5 DEF Next


-----------------------------------------------------------------------------
(***************************************************************************)
(* What one more row does to the features.                                 *)
(***************************************************************************)
LEMMA GreatestUpTo ==
    ASSUME NEW n \in Nat, NEW S, S \subseteq 0..n, S # {}
    PROVE  Max(S) \in S /\ \A i \in S : i <= Max(S)
<1>. DEFINE T == {n - i : i \in S}
<1>1. T \in SUBSET Nat /\ T # {}
  <2>1. \A i \in S : i \in 0..n /\ n - i \in Nat
    OBVIOUS
  <2>. QED  BY <2>1
<1>2. PICK x \in T : \A y \in T : x <= y
  BY <1>1, LeastIsThere
<1>3. PICK m \in S : x = n - m
  OBVIOUS
<1>4. ASSUME NEW i \in S PROVE m >= i
  <2>1. n - i \in T /\ n - m <= n - i
    BY <1>2, <1>3
  <2>2. i \in 0..n /\ m \in 0..n
    OBVIOUS
  <2>. QED  BY <2>1, <2>2
<1>5. Max(S) \in S /\ \A i \in S : Max(S) >= i
  BY <1>4 DEF Max
<1>. QED  BY <1>5

\* A field of the rows so far, at its largest.
LEMMA LargestIs ==
    ASSUME NEW S, NEW rs \in Seq(S), NEW field, \A r \in S : r[field] \in Nat
    PROVE  /\ Largest(rs, field) \in Nat
           /\ Largest(rs, field) = 0 \/ \E i \in DOMAIN rs : Largest(rs, field) = rs[i][field]
           /\ \A i \in DOMAIN rs : rs[i][field] <= Largest(rs, field)
<1>. DEFINE n == Len(rs)
            V == {rs[i][field] : i \in DOMAIN rs} \cup {0}
<1>1. n \in Nat /\ DOMAIN rs = 1..n /\ \A i \in 1..n : rs[i][field] \in Nat
  OBVIOUS
<1>. HIDE DEF n
<1>. DEFINE G == {k \in 0..n : \E m \in Nat : \A i \in 1..k : rs[i][field] <= m}
<1>2. 0 \in G
  BY <1>1
<1>3. ASSUME NEW k \in 1..n, k - 1 \in G PROVE k \in G
  <2>1. PICK m \in Nat : \A i \in 1..(k - 1) : rs[i][field] <= m
    BY <1>3
  <2>. DEFINE v == rs[k][field]
              w == IF m < v THEN v ELSE m
  <2>2. v \in Nat /\ k \in 0..n
    BY <1>1
  <2>3. w \in Nat /\ m <= w /\ v <= w
    BY <2>2
  <2>. HIDE DEF w
  <2>4. ASSUME NEW i \in 1..k PROVE rs[i][field] <= w
    <3>1. i \in 1..n
      BY <1>1
    <3>2. rs[i][field] \in Nat
      BY <1>1, <3>1
    <3>3. CASE i = k
      BY <2>3, <3>3
    <3>4. CASE i # k
      <4>1. i \in 1..(k - 1)
        BY <3>4
      <4>. QED  BY <2>1, <2>3, <3>2, <4>1
    <3>. QED  BY <3>3, <3>4
  <2>. QED  BY <2>2, <2>3, <2>4
<1>4. G = 0..n
  <2>. HIDE DEF G
  <2>1. G \in SUBSET (0..n)
    BY DEF G
  <2>. QED  BY <1>1, <1>2, <1>3, <2>1, HandedOn
<1>5. PICK m \in Nat : \A i \in 1..n : rs[i][field] <= m
  <2>. HIDE DEF G
  <2>1. n \in G
    BY <1>1, <1>4
  <2>. QED  BY <2>1 DEF G
<1>6. V \subseteq 0..m /\ V # {} /\ 0 \in V
  BY <1>1, <1>5
<1>7. Largest(rs, field) = Max(V)
  BY DEF Largest
<1>8. \A i \in DOMAIN rs : rs[i][field] \in V
  OBVIOUS
<1>9. \A v \in V : v = 0 \/ \E i \in DOMAIN rs : v = rs[i][field]
  OBVIOUS
<1>. HIDE DEF V
<1>10. Max(V) \in V /\ \A v \in V : v <= Max(V)
  BY <1>6, GreatestUpTo
<1>11. Max(V) \in Nat
  <2>1. Max(V) \in 0..m /\ m \in Nat
    BY <1>5, <1>6, <1>10
  <2>. QED  BY <2>1
<1>12. Max(V) = 0 \/ \E i \in DOMAIN rs : Max(V) = rs[i][field]
  BY <1>9, <1>10
<1>13. \A i \in DOMAIN rs : rs[i][field] <= Max(V)
  BY <1>8, <1>10
<1>. QED  BY <1>7, <1>11, <1>12, <1>13

LEMMA LargestGrows ==
    ASSUME NEW S, NEW rs \in Seq(S), NEW r, NEW field, \A s \in S \cup {r} : s[field] \in Nat
    PROVE  /\ Largest(rs, field) \in Nat /\ Largest(Append(rs, r), field) \in Nat
           /\ Largest(rs, field) <= Largest(Append(rs, r), field)
<1>. DEFINE T == S \cup {r}
            ss == Append(rs, r)
<1>1. rs \in Seq(T) /\ ss \in Seq(T)
  OBVIOUS
<1>2. \A s \in T : s[field] \in Nat
  OBVIOUS
<1>3. \A i \in DOMAIN rs : i \in DOMAIN ss /\ ss[i] = rs[i]
  OBVIOUS
<1>. HIDE DEF T, ss
<1>4. /\ Largest(rs, field) \in Nat
      /\ Largest(rs, field) = 0 \/ \E i \in DOMAIN rs : Largest(rs, field) = rs[i][field]
  BY <1>1, <1>2, LargestIs
<1>5. /\ Largest(ss, field) \in Nat
      /\ \A i \in DOMAIN ss : ss[i][field] <= Largest(ss, field)
  BY <1>1, <1>2, LargestIs
<1>6. CASE Largest(rs, field) = 0
  BY <1>5, <1>6 DEF ss
<1>7. CASE \E i \in DOMAIN rs : Largest(rs, field) = rs[i][field]
  <2>1. PICK i \in DOMAIN rs : Largest(rs, field) = rs[i][field]
    BY <1>7
  <2>2. i \in DOMAIN ss /\ ss[i] = rs[i]
    BY <1>3
  <2>3. ss[i][field] <= Largest(ss, field)
    BY <1>5, <2>2
  <2>. QED  BY <1>4, <1>5, <2>1, <2>2, <2>3 DEF ss
<1>. QED  BY <1>4, <1>6, <1>7

\* What is counted among the rows is counted among one more.
LEMMA CountsGrow ==
    ASSUME NEW n \in Nat, NEW A \in SUBSET (1..n), NEW B \in SUBSET (1..(n + 1)), A \subseteq B
    PROVE  /\ IsFiniteSet(A) /\ IsFiniteSet(B)
           /\ Cardinality(A) \in Nat /\ Cardinality(B) \in Nat
           /\ Cardinality(A) <= Cardinality(B)
<1>1. IsFiniteSet(1..(n + 1))
  <2>1. 1 \in Int /\ n + 1 \in Int
    OBVIOUS
  <2>. QED  BY <2>1, FS_Interval
<1>2. IsFiniteSet(B)
  BY <1>1, FS_Subset
<1>3. A \in SUBSET B
  OBVIOUS
<1>4. IsFiniteSet(A) /\ Cardinality(A) <= Cardinality(B)
  BY <1>2, <1>3, FS_Subset
<1>. QED  BY <1>2, <1>4, FS_CardinalityType

\* The families of some rows, among those of more.
FamiliesOf(rs, A) == {rs[i].family : i \in A}

LEMMA FamiliesGrow ==
    ASSUME NEW n \in Nat, NEW A \in SUBSET (1..n), NEW B \in SUBSET (1..(n + 1)), A \subseteq B,
           NEW f, NEW g, \A i \in A : f[i].family = g[i].family
    PROVE  /\ Cardinality(FamiliesOf(f, A)) \in Nat /\ Cardinality(FamiliesOf(g, B)) \in Nat
           /\ Cardinality(FamiliesOf(f, A)) <= Cardinality(FamiliesOf(g, B))
<1>. DEFINE F == FamiliesOf(f, A)
            G == FamiliesOf(g, B)
            h == [i \in B |-> g[i].family]
<1>1. IsFiniteSet(B)
  BY CountsGrow
<1>2. h \in [B -> G] /\ \A y \in G : \E i \in B : h[i] = y
  BY DEF FamiliesOf
<1>. HIDE DEF h
<1>3. h \in Surjection(B, G)
  <2>. HIDE DEF G
  <2>. QED  BY <1>2 DEF Surjection
<1>4. IsFiniteSet(G)
  <2>. HIDE DEF G
  <2>. QED  BY <1>1, <1>3, FS_Surjection
<1>5. F \in SUBSET G
  BY DEF FamiliesOf
<1>. HIDE DEF F, G
<1>6. IsFiniteSet(F) /\ Cardinality(F) <= Cardinality(G)
  BY <1>4, <1>5, FS_Subset
<1>7. Cardinality(F) \in Nat /\ Cardinality(G) \in Nat
  BY <1>4, <1>6, FS_CardinalityType
<1>. QED  BY <1>6, <1>7 DEF F, G

LEMMA FlagGrows ==
    ASSUME NEW a, NEW b, a => b
    PROVE  Flag(a) \in Nat /\ Flag(b) \in Nat /\ Flag(a) <= Flag(b)
BY DEF Flag


ShownNames == {"alternations", "responds", "entries", "transitions", "transitionTests", "returns",
               "completion", "unchanged", "correctives", "cycles", "cycleFamilies", "unsurvived",
               "terminations", "detectsFail"}
Score == Nat \cup {Blank}

\* A battery's features go up, except for the count of families not survived.
LEMMA ShownGrow ==
    ASSUME NEW rs, RowsCounted(rs), NEW r, Counted(r), NEW stays, NEW more
    PROVE  LET F == BatteryFeatures(rs, stays)
               G == BatteryFeatures(Append(rs, r), more)
           IN  /\ DOMAIN F = ShownNames /\ DOMAIN G = ShownNames
               /\ \A f \in ShownNames : F[f] \in Nat /\ G[f] \in Nat
               /\ \A f \in ShownNames \ {"unsurvived"} : F[f] <= G[f]
               /\ F["cycleFamilies"] >= 1 => F["cycles"] >= 1
               /\ F["detectsFail"] = 0 /\ G["detectsFail"] = 0
<1>1. PICK S : rs \in Seq(S) /\ \A s \in S : Counted(s)
  BY DEF RowsCounted
<1>. DEFINE n == Len(rs)
            ss == Append(rs, r)
<1>2. /\ n \in Nat /\ DOMAIN rs = 1..n /\ DOMAIN ss = 1..(n + 1)
      /\ \A i \in 1..n : ss[i] = rs[i]
  BY <1>1
<1>3. ASSUME NEW s \in S \cup {r}
      PROVE  /\ s["entries"] \in Nat /\ s["transitions"] \in Nat /\ s["cycles"] \in Nat
             /\ s["alternations"] \in Nat
  BY <1>1 DEF Counted
<1>4. ASSUME NEW field \in {"alternations", "entries", "transitions", "cycles"}
      PROVE  /\ Largest(rs, field) \in Nat /\ Largest(ss, field) \in Nat
             /\ Largest(rs, field) <= Largest(ss, field)
  <2>1. \A s \in S \cup {r} : s[field] \in Nat
    BY <1>3
  <2>. QED  BY <1>1, <2>1, LargestGrows
<1>. HIDE DEF n, ss
<1>5. ASSUME NEW A, NEW B, A \subseteq DOMAIN rs, B \subseteq DOMAIN ss, A \subseteq B
      PROVE  /\ Cardinality(A) \in Nat /\ Cardinality(B) \in Nat
             /\ Cardinality(A) <= Cardinality(B)
  <2>1. A \in SUBSET (1..n) /\ B \in SUBSET (1..(n + 1))
    BY <1>2, <1>5
  <2>. QED  BY <1>2, <1>5, <2>1, CountsGrow
<1>. DEFINE Grows(a, b) == a \in Nat /\ b \in Nat /\ a <= b
<1>6. Grows(Count(rs, LAMBDA x : x.transitions >= 2), Count(ss, LAMBDA x : x.transitions >= 2))
  <2>. DEFINE A == {i \in DOMAIN rs : rs[i].transitions >= 2}
              B == {i \in DOMAIN ss : ss[i].transitions >= 2}
  <2>1. A \subseteq DOMAIN rs /\ B \subseteq DOMAIN ss /\ A \subseteq B
    BY <1>2
  <2>2. Count(rs, LAMBDA x : x.transitions >= 2) = Cardinality(A)
        /\ Count(ss, LAMBDA x : x.transitions >= 2) = Cardinality(B)
    BY DEF Count
  <2>. HIDE DEF A, B
  <2>. QED  BY <1>5, <2>1, <2>2
<1>7. Grows(Count(rs, LAMBDA x : x.completion = "False"), Count(ss, LAMBDA x : x.completion = "False"))
  <2>. DEFINE A == {i \in DOMAIN rs : rs[i].completion = "False"}
              B == {i \in DOMAIN ss : ss[i].completion = "False"}
  <2>1. A \subseteq DOMAIN rs /\ B \subseteq DOMAIN ss /\ A \subseteq B
    BY <1>2
  <2>2. Count(rs, LAMBDA x : x.completion = "False") = Cardinality(A)
        /\ Count(ss, LAMBDA x : x.completion = "False") = Cardinality(B)
    BY DEF Count
  <2>. HIDE DEF A, B
  <2>. QED  BY <1>5, <2>1, <2>2
<1>8. Grows(CorrectiveEvaluated(rs), CorrectiveEvaluated(ss))
  <2>. DEFINE A == {i \in DOMAIN rs : rs[i].corrective \in {"True", "False"}}
              B == {i \in DOMAIN ss : ss[i].corrective \in {"True", "False"}}
  <2>1. A \subseteq DOMAIN rs /\ B \subseteq DOMAIN ss /\ A \subseteq B
    BY <1>2
  <2>2. CorrectiveEvaluated(rs) = Cardinality(A) /\ CorrectiveEvaluated(ss) = Cardinality(B)
    BY DEF CorrectiveEvaluated, Count
  <2>. HIDE DEF A, B
  <2>. QED  BY <1>5, <2>1, <2>2
<1>9. Grows(Count(rs, LAMBDA x : x.terminates), Count(ss, LAMBDA x : x.terminates))
  <2>. DEFINE A == {i \in DOMAIN rs : rs[i].terminates}
              B == {i \in DOMAIN ss : ss[i].terminates}
  <2>1. A \subseteq DOMAIN rs /\ B \subseteq DOMAIN ss /\ A \subseteq B
    BY <1>2
  <2>2. Count(rs, LAMBDA x : x.terminates) = Cardinality(A)
        /\ Count(ss, LAMBDA x : x.terminates) = Cardinality(B)
    BY DEF Count
  <2>. HIDE DEF A, B
  <2>. QED  BY <1>5, <2>1, <2>2
<1>. DEFINE K == {k \in DOMAIN rs : rs[k].cycles >= 1}
            L == {k \in DOMAIN ss : ss[k].cycles >= 1}
            FK == FamiliesOf(rs, K)
            FL == FamiliesOf(ss, L)
<1>10. Grows(Cardinality(FK), Cardinality(FL))
  <2>1. K \in SUBSET (1..n) /\ L \in SUBSET (1..(n + 1)) /\ K \subseteq L
    BY <1>2
  <2>2. \A i \in K : rs[i].family = ss[i].family
    BY <1>2
  <2>. HIDE DEF K, L
  <2>. QED  BY <1>2, <2>1, <2>2, FamiliesGrow
<1>11. Cardinality(FK) >= 1 => Largest(rs, "cycles") >= 1
  <2>. SUFFICES ASSUME Cardinality(FK) >= 1 PROVE Largest(rs, "cycles") >= 1
    OBVIOUS
  <2>1. K # {}
    <3>. SUFFICES ASSUME K = {} PROVE FALSE
      OBVIOUS
    <3>1. FK = {}
      BY DEF FamiliesOf
    <3>. HIDE DEF FK
    <3>2. Cardinality(FK) = 0
      BY <3>1, FS_EmptySet
    <3>. QED  BY <3>2
  <2>2. PICK k \in DOMAIN rs : rs[k].cycles >= 1
    BY <2>1
  <2>3. rs[k]["cycles"] \in Nat /\ rs[k]["cycles"] >= 1
    BY <1>1, <1>3, <2>2
  <2>4. Largest(rs, "cycles") \in Nat /\ rs[k]["cycles"] <= Largest(rs, "cycles")
    <3>1. \A s \in S : s["cycles"] \in Nat
      BY <1>3
    <3>. QED  BY <1>1, <2>2, <3>1, LargestIs
  <2>. QED  BY <2>3, <2>4
<1>12. ASSUME NEW rr, NEW T, rr \in Seq(T), NEW st
       PROVE  UnsurvivedFamilies(rr, st) \in Nat
  <2>. DEFINE m == Len(rr)
              A == {k \in DOMAIN rr : /\ rr[k].scenario \in DOMAIN st
                                      /\ st[rr[k].scenario].of < st[rr[k].scenario].out}
  <2>1. m \in Nat /\ DOMAIN rr = 1..m
    BY <1>12
  <2>2. UnsurvivedFamilies(rr, st) = Cardinality(FamiliesOf(rr, A))
    BY DEF UnsurvivedFamilies, FamiliesOf
  <2>3. A \in SUBSET (1..m) /\ A \in SUBSET (1..(m + 1)) /\ A \subseteq A
    <3>. HIDE DEF m
    <3>. QED  BY <2>1
  <2>4. \A i \in A : rr[i].family = rr[i].family
    OBVIOUS
  <2>. HIDE DEF A, m
  <2>5. Cardinality(FamiliesOf(rr, A)) \in Nat
    BY <2>1, <2>3, <2>4, FamiliesGrow
  <2>. QED  BY <2>2, <2>5
<1>13. UnsurvivedFamilies(rs, stays) \in Nat /\ UnsurvivedFamilies(ss, more) \in Nat
  <2>1. ss \in Seq(S \cup {r})
    BY <1>1 DEF ss
  <2>. QED  BY <1>1, <1>12, <2>1
<1>. DEFINE b1 == \E i \in DOMAIN rs : rs[i].responds
            b2 == \E i \in DOMAIN ss : ss[i].responds
            c1 == \E i \in DOMAIN rs : rs[i].returns >= 1
            c2 == \E i \in DOMAIN ss : ss[i].returns >= 1
            d1 == \E i \in DOMAIN rs : rs[i].completion = "True"
            d2 == \E i \in DOMAIN ss : ss[i].completion = "True"
<1>14. (b1 => b2) /\ (c1 => c2) /\ (d1 => d2)
  <2>1. \A i \in DOMAIN rs : i \in DOMAIN ss /\ ss[i] = rs[i]
    BY <1>2
  <2>. QED  BY <2>1
<1>15. Grows(Flag(b1), Flag(b2)) /\ Grows(Flag(c1), Flag(c2)) /\ Grows(Flag(d1), Flag(d2))
  BY <1>14, FlagGrows
<1>. DEFINE F == BatteryFeatures(rs, stays)
            G == BatteryFeatures(ss, more)
<1>16. F = [alternations |-> Largest(rs, "alternations"), responds |-> Flag(b1),
            entries |-> Largest(rs, "entries"), transitions |-> Largest(rs, "transitions"),
            transitionTests |-> Count(rs, LAMBDA x : x.transitions >= 2),
            returns |-> Flag(c1), completion |-> Flag(d1),
            unchanged |-> Count(rs, LAMBDA x : x.completion = "False"),
            correctives |-> CorrectiveEvaluated(rs), cycles |-> Largest(rs, "cycles"),
            cycleFamilies |-> Cardinality(FK), unsurvived |-> UnsurvivedFamilies(rs, stays),
            terminations |-> Count(rs, LAMBDA x : x.terminates), detectsFail |-> 0]
  BY DEF BatteryFeatures, FamiliesOf
<1>17. G = [alternations |-> Largest(ss, "alternations"), responds |-> Flag(b2),
            entries |-> Largest(ss, "entries"), transitions |-> Largest(ss, "transitions"),
            transitionTests |-> Count(ss, LAMBDA x : x.transitions >= 2),
            returns |-> Flag(c2), completion |-> Flag(d2),
            unchanged |-> Count(ss, LAMBDA x : x.completion = "False"),
            correctives |-> CorrectiveEvaluated(ss), cycles |-> Largest(ss, "cycles"),
            cycleFamilies |-> Cardinality(FL), unsurvived |-> UnsurvivedFamilies(ss, more),
            terminations |-> Count(ss, LAMBDA x : x.terminates), detectsFail |-> 0]
  BY DEF BatteryFeatures, FamiliesOf
<1>. DEFINE tt == Count(rs, LAMBDA x : x.transitions >= 2)
            uu == Count(rs, LAMBDA x : x.completion = "False")
            ee == Count(rs, LAMBDA x : x.terminates)
            tt2 == Count(ss, LAMBDA x : x.transitions >= 2)
            uu2 == Count(ss, LAMBDA x : x.completion = "False")
            ee2 == Count(ss, LAMBDA x : x.terminates)
            kk == Cardinality(FK)
            kk2 == Cardinality(FL)
<1>18. /\ Grows(tt, tt2) /\ Grows(uu, uu2) /\ Grows(ee, ee2) /\ Grows(kk, kk2)
       /\ kk >= 1 => Largest(rs, "cycles") >= 1
  BY <1>6, <1>7, <1>9, <1>10, <1>11
<1>19. /\ F = [alternations |-> Largest(rs, "alternations"), responds |-> Flag(b1),
               entries |-> Largest(rs, "entries"), transitions |-> Largest(rs, "transitions"),
               transitionTests |-> tt, returns |-> Flag(c1), completion |-> Flag(d1),
               unchanged |-> uu, correctives |-> CorrectiveEvaluated(rs),
               cycles |-> Largest(rs, "cycles"), cycleFamilies |-> kk,
               unsurvived |-> UnsurvivedFamilies(rs, stays), terminations |-> ee,
               detectsFail |-> 0]
       /\ G = [alternations |-> Largest(ss, "alternations"), responds |-> Flag(b2),
               entries |-> Largest(ss, "entries"), transitions |-> Largest(ss, "transitions"),
               transitionTests |-> tt2, returns |-> Flag(c2), completion |-> Flag(d2),
               unchanged |-> uu2, correctives |-> CorrectiveEvaluated(ss),
               cycles |-> Largest(ss, "cycles"), cycleFamilies |-> kk2,
               unsurvived |-> UnsurvivedFamilies(ss, more), terminations |-> ee2,
               detectsFail |-> 0]
  BY <1>16, <1>17
<1>. HIDE DEF b1, b2, c1, c2, d1, d2, tt, uu, ee, tt2, uu2, ee2, kk, kk2, F, G
<1>20. DOMAIN F = ShownNames /\ DOMAIN G = ShownNames
  BY <1>19 DEF ShownNames
<1>21. /\ Grows(Largest(rs, "alternations"), Largest(ss, "alternations"))
       /\ Grows(Largest(rs, "entries"), Largest(ss, "entries"))
       /\ Grows(Largest(rs, "transitions"), Largest(ss, "transitions"))
       /\ Grows(Largest(rs, "cycles"), Largest(ss, "cycles"))
  BY <1>4
<1>22. ASSUME NEW f \in ShownNames \ {"unsurvived"} PROVE Grows(F[f], G[f])
  BY <1>8, <1>15, <1>18, <1>19, <1>21 DEF ShownNames
<1>23. F["unsurvived"] \in Nat /\ G["unsurvived"] \in Nat
  BY <1>13, <1>19
<1>24. /\ F["cycleFamilies"] >= 1 => F["cycles"] >= 1
       /\ F["detectsFail"] = 0 /\ G["detectsFail"] = 0
  BY <1>18, <1>19
<1>25. \A f \in ShownNames : F[f] \in Nat /\ G[f] \in Nat
  BY <1>22, <1>23
<1>26. \A f \in ShownNames \ {"unsurvived"} : F[f] <= G[f]
  BY <1>22
<1>. QED  BY <1>20, <1>24, <1>25, <1>26 DEF F, G, ss


\* The features of the program as a whole, which is what the claims are resolved against.
WrittenNames == {"prodAlternations", "relations", "loops", "controlled", "gatedMotion", "calibrated",
                 "specificity", "structures", "reused"}
Upward(F, G) ==
    /\ DOMAIN F = DOMAIN G
    /\ \A f \in DOMAIN F : F[f] \in Score /\ G[f] \in Score
    /\ \A f \in DOMAIN F : f # "unsurvived" => F[f] <= G[f]

LEMMA WrittenIs ==
    ASSUME NEW prod, prod = NoRow \/ prod \in ProductionType
    PROVE  /\ prod.present \in BOOLEAN
           /\ \A f \in DOMAIN ProductionFeatures(prod) :
                 f \in WrittenNames /\ ProductionFeatures(prod)[f] \in Score
<1>1. CASE prod = NoRow
  <2>1. prod.present = FALSE
    BY <1>1 DEF NoRow
  <2>2. ProductionFeatures(prod) = [f \in {} |-> Blank]
    BY <2>1 DEF ProductionFeatures
  <2>. QED  BY <2>1, <2>2
<1>2. CASE prod \in ProductionType
  <2>1. /\ prod.present = TRUE /\ prod.alternations \in Nat /\ prod.relations \in Nat
        /\ prod.loops \in Nat /\ prod.controlled \in Nat /\ prod.gatedMotion \in Nat
        /\ prod.calibrated \in Nat /\ prod.specificity \in Score
    BY <1>2 DEF ProductionType, Score
  <2>2. /\ Flag(prod.loops > 0 \/ prod.procedures > 0 \/ prod.variables > 0) \in Nat
        /\ Flag(prod.reused > 0) \in Nat
    BY DEF Flag
  <2>. DEFINE s == Flag(prod.loops > 0 \/ prod.procedures > 0 \/ prod.variables > 0)
              r == Flag(prod.reused > 0)
  <2>3. ProductionFeatures(prod)
          = [prodAlternations |-> prod.alternations, relations |-> prod.relations,
             loops |-> prod.loops, controlled |-> prod.controlled,
             gatedMotion |-> prod.gatedMotion, calibrated |-> prod.calibrated,
             specificity |-> prod.specificity, structures |-> s, reused |-> r]
    BY <2>1 DEF ProductionFeatures
  <2>4. s \in Score /\ r \in Score /\ Nat \subseteq Score
    BY <2>2 DEF Score
  <2>. DEFINE W == ProductionFeatures(prod)
  <2>. HIDE DEF s, r, W
  <2>5. /\ DOMAIN W = WrittenNames
        /\ W["prodAlternations"] = prod.alternations /\ W["relations"] = prod.relations
        /\ W["loops"] = prod.loops /\ W["controlled"] = prod.controlled
        /\ W["gatedMotion"] = prod.gatedMotion /\ W["calibrated"] = prod.calibrated
        /\ W["specificity"] = prod.specificity /\ W["structures"] = s /\ W["reused"] = r
    BY <2>3 DEF W, WrittenNames
  <2>6. \A f \in WrittenNames : W[f] \in Score
    BY <2>1, <2>4, <2>5 DEF WrittenNames
  <2>. QED  BY <2>1, <2>5, <2>6 DEF W
<1>. QED  BY <1>1, <1>2

LEMMA FeaturesUpward ==
    ASSUME NEW rs, RowsCounted(rs), NEW r, Counted(r), NEW stays, NEW more,
           NEW prod, prod = NoRow \/ prod \in ProductionType
    PROVE  LET F == RunFeatures(rs, prod, stays)
               G == RunFeatures(Append(rs, r), prod, more)
           IN  /\ Upward(F, G)
               /\ ShownNames \subseteq DOMAIN F
               /\ F["cycleFamilies"] >= 1 => F["cycles"] >= 1
               /\ F["detectsFail"] = 0 /\ G["detectsFail"] = 0
               /\ \A f \in ShownNames : /\ F[f] = BatteryFeatures(rs, stays)[f]
                                        /\ G[f] = BatteryFeatures(Append(rs, r), more)[f]
<1>. DEFINE A == BatteryFeatures(rs, stays)
            B == BatteryFeatures(Append(rs, r), more)
            W == ProductionFeatures(prod)
            F == RunFeatures(rs, prod, stays)
            G == RunFeatures(Append(rs, r), prod, more)
<1>1. /\ DOMAIN A = ShownNames /\ DOMAIN B = ShownNames
      /\ \A f \in ShownNames : A[f] \in Nat /\ B[f] \in Nat
      /\ \A f \in ShownNames \ {"unsurvived"} : A[f] <= B[f]
      /\ A["cycleFamilies"] >= 1 => A["cycles"] >= 1
      /\ A["detectsFail"] = 0 /\ B["detectsFail"] = 0
  BY ShownGrow
<1>2. \A f \in DOMAIN W : f \in WrittenNames /\ W[f] \in Score
  BY WrittenIs
<1>3. /\ F = [f \in DOMAIN A \cup DOMAIN W |-> IF f \in DOMAIN A THEN A[f] ELSE W[f]]
      /\ G = [f \in DOMAIN B \cup DOMAIN W |-> IF f \in DOMAIN B THEN B[f] ELSE W[f]]
  BY DEF RunFeatures
<1>. HIDE DEF A, B, W, F, G
<1>4. /\ DOMAIN F = ShownNames \cup DOMAIN W /\ DOMAIN G = ShownNames \cup DOMAIN W
      /\ \A f \in ShownNames : F[f] = A[f] /\ G[f] = B[f]
      /\ \A f \in DOMAIN W : f \notin ShownNames => F[f] = W[f] /\ G[f] = W[f]
  BY <1>1, <1>3
<1>5. Nat \subseteq Score /\ \A v \in Score : v <= v
  BY DEF Score, Blank
<1>6. \A f \in DOMAIN F : F[f] \in Score /\ G[f] \in Score
  BY <1>1, <1>2, <1>4, <1>5
<1>7. \A f \in DOMAIN F : f # "unsurvived" => F[f] <= G[f]
  BY <1>1, <1>2, <1>4, <1>5
<1>8. Upward(F, G)
  BY <1>4, <1>6, <1>7 DEF Upward
<1>9. "cycleFamilies" \in ShownNames /\ "cycles" \in ShownNames /\ "detectsFail" \in ShownNames
  BY DEF ShownNames
<1>10. /\ F["cycleFamilies"] >= 1 => F["cycles"] >= 1
       /\ F["detectsFail"] = 0 /\ G["detectsFail"] = 0
  BY <1>1, <1>4, <1>9
<1>. QED  BY <1>4, <1>8, <1>10 DEF F, G, A, B

-----------------------------------------------------------------------------
(***************************************************************************)
(* The claims.  One that asks for at least so much keeps holding.          *)
(***************************************************************************)
Positive(c) == c.op = "ge" /\ c.of # "unsurvived" /\ c.value \in Nat

LEMMA FeatureUp ==
    ASSUME NEW F, NEW G, Upward(F, G), NEW f, f # "unsurvived"
    PROVE  /\ Feature(F, f) \in Score /\ Feature(G, f) \in Score
           /\ Feature(F, f) <= Feature(G, f)
<1>1. Blank \in Score /\ Blank <= Blank
  BY DEF Blank, Score
<1>. QED  BY <1>1 DEF Upward, Feature

LEMMA AtLeast ==
    ASSUME NEW F, NEW c, c.op = "ge"
    PROVE  ClaimHolds(F, c) <=> OrZero(Feature(F, c.of)) >= c.value
<1>1. c.op # "le" /\ c.op # "known"
  OBVIOUS
<1>. QED  BY <1>1, Zenon DEF ClaimHolds

LEMMA ClaimKept ==
    ASSUME NEW F, NEW G, Upward(F, G), NEW c, Positive(c), ClaimHolds(F, c)
    PROVE  ClaimHolds(G, c)
<1>1. OrZero(Feature(F, c.of)) >= c.value /\ c.value \in Nat
  BY AtLeast DEF Positive
<1>2. /\ Feature(F, c.of) \in Score /\ Feature(G, c.of) \in Score
      /\ Feature(F, c.of) <= Feature(G, c.of)
  BY FeatureUp DEF Positive
<1>3. OrZero(Feature(F, c.of)) <= OrZero(Feature(G, c.of))
      /\ OrZero(Feature(F, c.of)) \in Nat /\ OrZero(Feature(G, c.of)) \in Nat
  BY <1>2 DEF OrZero, Score, Blank
<1>4. OrZero(Feature(G, c.of)) >= c.value
  BY <1>1, <1>3
<1>. QED  BY <1>4, AtLeast DEF Positive


\* What the claims card has in common at every level of every dimension: only a claim that
\* asks for at least so much carries weight, and so does every claim against a level.
Regular(lspec) ==
    /\ IsFiniteSet(lspec.floors) /\ IsFiniteSet(lspec.negatives)
    /\ \A c \in lspec.floors : c.weight \in {Primary, Supporting, Constraint}
    /\ \A c \in lspec.floors : c.weight # Constraint => Positive(c)
    /\ \A c \in lspec.negatives : Positive(c)

LEMMA FewOf ==
    ASSUME NEW a, NEW b, NEW c
    PROVE  IsFiniteSet({}) /\ IsFiniteSet({a}) /\ IsFiniteSet({a, b}) /\ IsFiniteSet({a, b, c})
<1>1. IsFiniteSet({}) /\ IsFiniteSet({a})
  BY FS_EmptySet, FS_Singleton
<1>2. {a, b} = {a} \cup {b} /\ {a, b, c} = {a, b} \cup {c}
  OBVIOUS
<1>3. IsFiniteSet({a, b})
  BY <1>1, <1>2, FS_AddElement
<1>4. IsFiniteSet({a, b, c})
  BY <1>2, <1>3, FS_AddElement
<1>. QED  BY <1>1, <1>3, <1>4

LEMMA ClaimIs ==
    ASSUME NEW f, f # "unsurvived", NEW n \in Nat, NEW w \in {Primary, Supporting}
    PROVE  /\ Positive(Claim(f, n, w)) /\ Claim(f, n, w).weight = w
           /\ Claim(f, n, w).of = f /\ Claim(f, n, w).value = n
           /\ Positive(Required(f, n)) /\ Required(f, n).weight = Primary
<1>1. /\ Claim(f, n, w).op = "ge" /\ Claim(f, n, w).of = f /\ Claim(f, n, w).value = n
      /\ Claim(f, n, w).weight = w
  BY DEF Claim
<1>2. /\ Required(f, n).op = "ge" /\ Required(f, n).of = f /\ Required(f, n).value = n
      /\ Required(f, n).weight = Primary
  BY DEF Claim, Required
<1>. QED  BY <1>1, <1>2 DEF Positive

LEMMA FloorsAre ==
    ASSUME NEW fs
    PROVE  Floors(fs).floors = fs /\ Floors(fs).negatives = {}
BY DEF Floors

LEMMA AgainstIs ==
    ASSUME NEW fs, NEW ns
    PROVE  Against(fs, ns).floors = fs /\ Against(fs, ns).negatives = ns
BY DEF Against

\* A claims card that is written without AtMost.
Plainly(l) == Regular(l) /\ \A c \in l.floors : Positive(c)

LEMMA FeedbackCard ==
    LET ls == EnvironmentalFeedback.levels
    IN  /\ DOMAIN ls = 1..2 /\ \A lvl \in 1..2 : Plainly(ls[lvl])
        /\ \A lvl \in 1..2 : \A c \in ls[lvl].negatives : c.of = "detectsFail" /\ c.value = 2
<1>. DEFINE ls == EnvironmentalFeedback.levels
            a1 == Claim("alternations", 1, Primary)
            a2 == Claim("prodAlternations", 1, Primary)
            a3 == Claim("responds", 1, Supporting)
            n1 == Claim("detectsFail", 2, Primary)
            b1 == Claim("alternations", 2, Primary)
            b2 == Claim("prodAlternations", 2, Primary)
            b3 == Claim("entries", 2, Supporting)
<1>1. ls = <<Against({a1, a2, a3}, {n1}), Floors({b1, b2, b3})>>
  BY DEF EnvironmentalFeedback
<1>2. \A c \in {a1, a2, a3, n1, b1, b2, b3} : Positive(c) /\ c.weight \in {Primary, Supporting}
  BY ClaimIs
<1>3. n1.of = "detectsFail" /\ n1.value = 2
  BY ClaimIs
<1>. HIDE DEF ls, a1, a2, a3, n1, b1, b2, b3
<1>4. /\ DOMAIN ls = 1..2
      /\ ls[1].floors = {a1, a2, a3} /\ ls[1].negatives = {n1}
      /\ ls[2].floors = {b1, b2, b3} /\ ls[2].negatives = {}
  <2>1. DOMAIN ls = 1..2
    BY <1>1
  <2>2. ls[1] = Against({a1, a2, a3}, {n1})
    BY <1>1
  <2>3. ls[2] = Floors({b1, b2, b3})
    BY <1>1
  <2>. QED  BY <2>1, <2>2, <2>3, FloorsAre, AgainstIs
<1>5. /\ IsFiniteSet({a1, a2, a3})
      /\ IsFiniteSet({b1, b2, b3})
      /\ IsFiniteSet({n1})
      /\ IsFiniteSet({})
  BY FewOf
<1>6. Plainly(ls[1])
  BY <1>2, <1>4, <1>5 DEF Plainly, Regular
<1>7. Plainly(ls[2])
  BY <1>2, <1>4, <1>5 DEF Plainly, Regular
<1>. QED  BY <1>3, <1>4, <1>6, <1>7 DEF ls

LEMMA StructureCard ==
    LET ls == ControlStructure.levels
    IN  /\ DOMAIN ls = 1..3 /\ \A lvl \in 1..3 : Plainly(ls[lvl])
        /\ \A lvl \in 1..3 : ls[lvl].negatives = {}
<1>. DEFINE ls == ControlStructure.levels
            a1 == Claim("loops", 1, Primary)
            b1 == Claim("relations", 1, Primary)
            b2 == Claim("controlled", 1, Primary)
            c1 == Claim("relations", 2, Primary)
<1>1. ls = <<Floors({a1}), Floors({b1, b2}), Floors({c1})>>
  BY DEF ControlStructure
<1>2. \A c \in {a1, b1, b2, c1} : Positive(c) /\ c.weight \in {Primary, Supporting}
  BY ClaimIs
<1>. HIDE DEF ls, a1, b1, b2, c1
<1>4. /\ DOMAIN ls = 1..3
      /\ ls[1].floors = {a1} /\ ls[1].negatives = {}
      /\ ls[2].floors = {b1, b2} /\ ls[2].negatives = {}
      /\ ls[3].floors = {c1} /\ ls[3].negatives = {}
  <2>1. DOMAIN ls = 1..3
    BY <1>1
  <2>2. ls[1] = Floors({a1})
    BY <1>1
  <2>3. ls[2] = Floors({b1, b2})
    BY <1>1
  <2>4. ls[3] = Floors({c1})
    BY <1>1
  <2>. QED  BY <2>1, <2>2, <2>3, <2>4, FloorsAre
<1>5. /\ IsFiniteSet({a1})
      /\ IsFiniteSet({b1, b2})
      /\ IsFiniteSet({c1})
      /\ IsFiniteSet({})
  BY FewOf
<1>6. Plainly(ls[1])
  BY <1>2, <1>4, <1>5 DEF Plainly, Regular
<1>7. Plainly(ls[2])
  BY <1>2, <1>4, <1>5 DEF Plainly, Regular
<1>8. Plainly(ls[3])
  BY <1>2, <1>4, <1>5 DEF Plainly, Regular
<1>. QED  BY <1>4, <1>6, <1>7, <1>8 DEF ls

LEMMA MotionCard ==
    LET ls == SpatialMotion.levels
    IN  /\ DOMAIN ls = 1..2 /\ \A lvl \in 1..2 : Plainly(ls[lvl])
        /\ \A lvl \in 1..2 : ls[lvl].negatives = {}
<1>. DEFINE ls == SpatialMotion.levels
            a1 == Claim("calibrated", 1, Primary)
            a2 == Claim("specificity", 1, Primary)
            b1 == Claim("gatedMotion", 1, Primary)
            b2 == Claim("terminations", 2, Primary)
<1>1. ls = <<Floors({a1, a2}), Floors({b1, b2})>>
  BY DEF SpatialMotion
<1>2. \A c \in {a1, a2, b1, b2} : Positive(c) /\ c.weight \in {Primary, Supporting}
  BY ClaimIs
<1>. HIDE DEF ls, a1, a2, b1, b2
<1>4. /\ DOMAIN ls = 1..2
      /\ ls[1].floors = {a1, a2} /\ ls[1].negatives = {}
      /\ ls[2].floors = {b1, b2} /\ ls[2].negatives = {}
  <2>1. DOMAIN ls = 1..2
    BY <1>1
  <2>2. ls[1] = Floors({a1, a2})
    BY <1>1
  <2>3. ls[2] = Floors({b1, b2})
    BY <1>1
  <2>. QED  BY <2>1, <2>2, <2>3, FloorsAre
<1>5. /\ IsFiniteSet({a1, a2})
      /\ IsFiniteSet({b1, b2})
      /\ IsFiniteSet({})
  BY FewOf
<1>6. Plainly(ls[1])
  BY <1>2, <1>4, <1>5 DEF Plainly, Regular
<1>7. Plainly(ls[2])
  BY <1>2, <1>4, <1>5 DEF Plainly, Regular
<1>. QED  BY <1>4, <1>6, <1>7 DEF ls

LEMMA RepresentationCard ==
    LET ls == Representation.levels
    IN  /\ DOMAIN ls = 1..2 /\ \A lvl \in 1..2 : Plainly(ls[lvl])
        /\ \A lvl \in 1..2 : ls[lvl].negatives = {}
<1>. DEFINE ls == Representation.levels
            a1 == Claim("structures", 1, Primary)
            b1 == Claim("reused", 1, Primary)
<1>1. ls = <<Floors({a1}), Floors({b1})>>
  BY DEF Representation
<1>2. \A c \in {a1, b1} : Positive(c) /\ c.weight \in {Primary, Supporting}
  BY ClaimIs
<1>. HIDE DEF ls, a1, b1
<1>4. /\ DOMAIN ls = 1..2
      /\ ls[1].floors = {a1} /\ ls[1].negatives = {}
      /\ ls[2].floors = {b1} /\ ls[2].negatives = {}
  <2>1. DOMAIN ls = 1..2
    BY <1>1
  <2>2. ls[1] = Floors({a1})
    BY <1>1
  <2>3. ls[2] = Floors({b1})
    BY <1>1
  <2>. QED  BY <2>1, <2>2, <2>3, FloorsAre
<1>5. /\ IsFiniteSet({a1})
      /\ IsFiniteSet({b1})
      /\ IsFiniteSet({})
  BY FewOf
<1>6. Plainly(ls[1])
  BY <1>2, <1>4, <1>5 DEF Plainly, Regular
<1>7. Plainly(ls[2])
  BY <1>2, <1>4, <1>5 DEF Plainly, Regular
<1>. QED  BY <1>4, <1>6, <1>7 DEF ls

LEMMA RegulationCard ==
    LET ls == TaskStateRegulation.levels
    IN  /\ DOMAIN ls = 1..2 /\ \A lvl \in 1..2 : Plainly(ls[lvl])
        /\ \A lvl \in 1..2 : \A c \in ls[lvl].negatives : c.of = "unchanged"
<1>. DEFINE ls == TaskStateRegulation.levels
            a1 == Claim("transitions", 1, Primary)
            a2 == Claim("completion", 1, Primary)
            n1 == Claim("unchanged", 2, Primary)
            b1 == Required("transitionTests", 2)
            b2 == Required("returns", 1)
<1>1. ls = <<Against({a1, a2}, {n1}), Floors({b1, b2})>>
  BY DEF TaskStateRegulation
<1>2. \A c \in {a1, a2, n1, b1, b2} : Positive(c) /\ c.weight \in {Primary, Supporting}
  BY ClaimIs
<1>3. n1.of = "unchanged"
  BY ClaimIs
<1>. HIDE DEF ls, a1, a2, n1, b1, b2
<1>4. /\ DOMAIN ls = 1..2
      /\ ls[1].floors = {a1, a2} /\ ls[1].negatives = {n1}
      /\ ls[2].floors = {b1, b2} /\ ls[2].negatives = {}
  <2>1. DOMAIN ls = 1..2
    BY <1>1
  <2>2. ls[1] = Against({a1, a2}, {n1})
    BY <1>1
  <2>3. ls[2] = Floors({b1, b2})
    BY <1>1
  <2>. QED  BY <2>1, <2>2, <2>3, FloorsAre, AgainstIs
<1>5. /\ IsFiniteSet({a1, a2})
      /\ IsFiniteSet({b1, b2})
      /\ IsFiniteSet({n1})
      /\ IsFiniteSet({})
  BY FewOf
<1>6. Plainly(ls[1])
  BY <1>2, <1>4, <1>5 DEF Plainly, Regular
<1>7. Plainly(ls[2])
  BY <1>2, <1>4, <1>5 DEF Plainly, Regular
<1>. QED  BY <1>3, <1>4, <1>6, <1>7 DEF ls

LEMMA RecoveryCard ==
    LET ls == Recovery.levels
    IN  /\ DOMAIN ls = 1..2 /\ Plainly(ls[1]) /\ Regular(ls[2])
        /\ ls[1].negatives = {} /\ ls[2].negatives = {}
        /\ ls[1].floors = {Claim("cycles", 1, Primary)}
        /\ ls[2].floors = {Claim("cycleFamilies", 2, Primary), AtMost("unsurvived", 1)}
        /\ \A c \in ls[2].floors : Positive(c) \/ (c.op = "le" /\ c.of = "unsurvived" /\ c.value = 1)
<1>. DEFINE ls == Recovery.levels
            a1 == Claim("cycles", 1, Primary)
            b1 == Claim("cycleFamilies", 2, Primary)
            b2 == AtMost("unsurvived", 1)
<1>1. ls = <<Floors({a1}), Floors({b1, b2})>>
  BY DEF Recovery
<1>2. \A c \in {a1, b1} : Positive(c) /\ c.weight = Primary
  BY ClaimIs
<1>3. b2.weight = Constraint /\ b2.op = "le" /\ b2.of = "unsurvived" /\ b2.value = 1
  BY DEF AtMost, Claim
<1>. HIDE DEF ls, a1, b1, b2
<1>4. /\ DOMAIN ls = 1..2
      /\ ls[1].floors = {a1} /\ ls[1].negatives = {}
      /\ ls[2].floors = {b1, b2} /\ ls[2].negatives = {}
  BY <1>1, FloorsAre
<1>5. IsFiniteSet({a1}) /\ IsFiniteSet({b1, b2}) /\ IsFiniteSet({})
  BY FewOf
<1>6. Plainly(ls[1])
  BY <1>2, <1>4, <1>5 DEF Plainly, Regular
<1>7. Regular(ls[2])
  BY <1>2, <1>3, <1>4, <1>5 DEF Regular
<1>8. \A c \in ls[2].floors : Positive(c) \/ (c.op = "le" /\ c.of = "unsurvived" /\ c.value = 1)
  BY <1>2, <1>3, <1>4
<1>. QED  BY <1>4, <1>6, <1>7, <1>8 DEF ls, a1, b1, b2


-----------------------------------------------------------------------------
(***************************************************************************)
(* The vote.                                                               *)
(***************************************************************************)
LEMMA SupportGrows ==
    ASSUME NEW F, NEW G, Upward(F, G), NEW l, Regular(l)
    PROVE  /\ Support(F, l) \in Nat /\ Support(G, l) \in Nat /\ Support(F, l) <= Support(G, l)
           /\ NegativeWeight(F, l) \in Nat /\ NegativeWeight(G, l) \in Nat
           /\ Support(F, l) >= SupportMin => \E c \in l.floors : c.weight > 0 /\ ClaimHolds(F, c)
           /\ Support(G, l) >= SupportMin => \E c \in l.floors : c.weight > 0 /\ ClaimHolds(G, c)
<1>1. Primary = 2 /\ Supporting = 1 /\ Constraint = 0 /\ SupportMin = 2
  BY DEF Primary, Supporting, Constraint, SupportMin
<1>2. ASSUME NEW w \in {Primary, Supporting}
      PROVE  /\ Cardinality(Holding(F, l, w)) \in Nat /\ Cardinality(Holding(G, l, w)) \in Nat
             /\ Cardinality(Holding(F, l, w)) <= Cardinality(Holding(G, l, w))
  <2>1. Holding(G, l, w) \in SUBSET l.floors /\ IsFiniteSet(l.floors)
    BY DEF Holding, Regular
  <2>2. IsFiniteSet(Holding(G, l, w))
    BY <2>1, FS_Subset
  <2>3. Holding(F, l, w) \in SUBSET Holding(G, l, w)
    <3>1. ASSUME NEW c \in l.floors, c.weight = w, ClaimHolds(F, c) PROVE ClaimHolds(G, c)
      <4>1. Positive(c)
        BY <1>1, <3>1 DEF Regular
      <4>. QED  BY <3>1, <4>1, ClaimKept
    <3>. QED  BY <3>1 DEF Holding
  <2>4. IsFiniteSet(Holding(F, l, w)) /\ Cardinality(Holding(F, l, w)) <= Cardinality(Holding(G, l, w))
    BY <2>2, <2>3, FS_Subset
  <2>. QED  BY <2>2, <2>4, FS_CardinalityType
<1>3. ASSUME NEW H, NEW w \in {Primary, Supporting}, Cardinality(Holding(H, l, w)) # 0
      PROVE  \E c \in l.floors : c.weight > 0 /\ ClaimHolds(H, c)
  <2>1. Holding(H, l, w) # {}
    BY <1>3, FS_EmptySet
  <2>2. PICK c \in l.floors : c.weight = w /\ ClaimHolds(H, c)
    BY <2>1 DEF Holding
  <2>. QED  BY <1>1, <2>2
<1>4. ASSUME NEW H PROVE NegativeWeight(H, l) \in Nat
  <2>. DEFINE N == {c \in l.negatives : ClaimHolds(H, c)}
  <2>1. N \in SUBSET l.negatives /\ IsFiniteSet(l.negatives)
    BY DEF Regular
  <2>2. NegativeWeight(H, l) = 2 * Cardinality(N)
    BY DEF NegativeWeight
  <2>. HIDE DEF N
  <2>3. Cardinality(N) \in Nat
    BY <2>1, FS_Subset, FS_CardinalityType
  <2>. QED  BY <2>2, <2>3
<1>. DEFINE p == Cardinality(Holding(F, l, Primary))
            s == Cardinality(Holding(F, l, Supporting))
            q == Cardinality(Holding(G, l, Primary))
            t == Cardinality(Holding(G, l, Supporting))
<1>5. Support(F, l) = 2 * p + s /\ Support(G, l) = 2 * q + t
  <2>1. Support(F, l) = Primary * p + Supporting * s /\ Support(G, l) = Primary * q + Supporting * t
    BY DEF Support
  <2>2. p \in Nat /\ s \in Nat /\ q \in Nat /\ t \in Nat
    BY <1>2
  <2>. HIDE DEF p, q, s, t
  <2>. QED  BY <1>1, <2>1, <2>2
<1>6. /\ p \in Nat /\ s \in Nat /\ q \in Nat /\ t \in Nat /\ p <= q /\ s <= t
  BY <1>2
<1>7. /\ p # 0 \/ s # 0 => \E c \in l.floors : c.weight > 0 /\ ClaimHolds(F, c)
      /\ q # 0 \/ t # 0 => \E c \in l.floors : c.weight > 0 /\ ClaimHolds(G, c)
  BY <1>3
<1>. HIDE DEF p, q, s, t
<1>8. /\ Support(F, l) \in Nat /\ Support(G, l) \in Nat /\ Support(F, l) <= Support(G, l)
      /\ Support(F, l) >= SupportMin => p # 0 \/ s # 0
      /\ Support(G, l) >= SupportMin => q # 0 \/ t # 0
  BY <1>1, <1>5, <1>6
<1>. QED  BY <1>4, <1>7, <1>8

\* The conjuncts that held hold, and nothing speaks against the level that did not.
NothingAgainst(F, G, l) ==
    /\ \A c \in l.floors : c.conjunct /\ ClaimHolds(F, c) => ClaimHolds(G, c)
    /\ \A c \in l.negatives : ClaimHolds(G, c) => ClaimHolds(F, c)

LEMMA AwardedKept ==
    ASSUME NEW F, NEW G, Upward(F, G), NEW dim, NEW cap, NEW lvl \in Awarded(F, dim, cap),
           Regular(ClaimsOf(dim).levels[lvl]), NothingAgainst(F, G, ClaimsOf(dim).levels[lvl])
    PROVE  lvl \in Awarded(G, dim, cap)
<1>. DEFINE l == ClaimsOf(dim).levels[lvl]
<1>1. /\ lvl \in DOMAIN ClaimsOf(dim).levels /\ lvl <= cap
      /\ ConjunctsHold(F, l) /\ Net(F, l) >= SupportMin
  BY DEF Awarded
<1>2. Regular(l) /\ NothingAgainst(F, G, l)
  OBVIOUS
<1>3. lvl \in Awarded(G, dim, cap) <=> ConjunctsHold(G, l) /\ Net(G, l) >= SupportMin
  BY <1>1 DEF Awarded
<1>. HIDE DEF l
<1>4. ConjunctsHold(G, l)
  BY <1>1, <1>2 DEF ConjunctsHold, NothingAgainst
<1>5. /\ Support(F, l) \in Nat /\ Support(G, l) \in Nat /\ Support(F, l) <= Support(G, l)
      /\ NegativeWeight(F, l) \in Nat /\ NegativeWeight(G, l) \in Nat
  BY <1>2, SupportGrows
<1>6. NegativeWeight(G, l) <= NegativeWeight(F, l)
  <2>. DEFINE M == {c \in l.negatives : ClaimHolds(F, c)}
              N == {c \in l.negatives : ClaimHolds(G, c)}
  <2>1. N \in SUBSET M /\ M \in SUBSET l.negatives /\ IsFiniteSet(l.negatives)
    BY <1>2 DEF NothingAgainst, Regular
  <2>2. NegativeWeight(F, l) = 2 * Cardinality(M) /\ NegativeWeight(G, l) = 2 * Cardinality(N)
    BY DEF NegativeWeight
  <2>. HIDE DEF M, N
  <2>3. IsFiniteSet(M)
    BY <2>1, FS_Subset
  <2>4. IsFiniteSet(N) /\ Cardinality(N) <= Cardinality(M)
    BY <2>1, <2>3, FS_Subset
  <2>5. Cardinality(N) \in Nat /\ Cardinality(M) \in Nat
    BY <2>3, <2>4, FS_CardinalityType
  <2>. QED  BY <2>2, <2>4, <2>5
<1>7. Net(G, l) >= SupportMin
  <2>1. Net(F, l) = Support(F, l) - NegativeWeight(F, l) /\ Net(G, l) = Support(G, l) - NegativeWeight(G, l)
    BY DEF Net
  <2>. QED  BY <1>1, <1>5, <1>6, <2>1 DEF SupportMin
<1>. QED  BY <1>3, <1>4, <1>7

\* What was said of a dimension does not become silence.
LEMMA InformativeKept ==
    ASSUME NEW F, NEW G, Upward(F, G), NEW dim, NEW cap,
           \A lvl \in DOMAIN ClaimsOf(dim).levels : Regular(ClaimsOf(dim).levels[lvl]),
           Informative(F, dim, cap)
    PROVE  Informative(G, dim, cap)
<1>. DEFINE ls == ClaimsOf(dim).levels
<1>1. PICK lvl \in DOMAIN ls :
           \/ \E c \in ls[lvl].floors : c.weight > 0 /\ ClaimHolds(F, c)
           \/ \E c \in ls[lvl].negatives : ClaimHolds(F, c)
  BY DEF Informative
<1>2. Regular(ls[lvl])
  OBVIOUS
<1>3. \/ \E c \in ls[lvl].floors : c.weight > 0 /\ ClaimHolds(G, c)
      \/ lvl \notin Awarded(G, dim, cap) /\ \E c \in ls[lvl].negatives : ClaimHolds(G, c)
      => Informative(G, dim, cap)
  BY DEF Informative
<1>4. lvl \in Awarded(G, dim, cap) => Net(G, ls[lvl]) >= SupportMin
  BY DEF Awarded
<1>. DEFINE l == ls[lvl]
<1>. HIDE DEF ls, l
<1>5. CASE \E c \in l.floors : c.weight > 0 /\ ClaimHolds(F, c)
  <2>1. PICK c \in l.floors : c.weight > 0 /\ ClaimHolds(F, c)
    BY <1>5
  <2>2. Positive(c)
    BY <1>2, <2>1 DEF Regular, Constraint, l
  <2>3. ClaimHolds(G, c)
    BY <2>1, <2>2, ClaimKept
  <2>. QED  BY <1>3, <2>1, <2>3 DEF l
<1>6. CASE \E c \in l.negatives : ClaimHolds(F, c)
  <2>1. PICK c \in l.negatives : ClaimHolds(F, c)
    BY <1>6
  <2>2. Positive(c)
    BY <1>2, <2>1 DEF Regular, l
  <2>3. ClaimHolds(G, c)
    BY <2>1, <2>2, ClaimKept
  <2>4. CASE lvl \notin Awarded(G, dim, cap)
    BY <1>3, <2>1, <2>3, <2>4 DEF l
  <2>5. CASE lvl \in Awarded(G, dim, cap)
    <3>1. Support(G, l) \in Nat /\ NegativeWeight(G, l) \in Nat
          /\ (Support(G, l) >= SupportMin => \E x \in l.floors : x.weight > 0 /\ ClaimHolds(G, x))
      BY <1>2, SupportGrows DEF l
    <3>2. Support(G, l) - NegativeWeight(G, l) >= SupportMin
      BY <1>4, <2>5 DEF Net, l
    <3>3. Support(G, l) >= SupportMin
      BY <3>1, <3>2 DEF SupportMin
    <3>. QED  BY <1>3, <3>1, <3>3 DEF l
  <2>. QED  BY <2>4, <2>5
<1>. QED  BY <1>1, <1>5, <1>6 DEF l

LEMMA TopIs ==
    ASSUME NEW A, A \subseteq 1..3
    PROVE  /\ Max(A \cup {0}) \in 0..3
           /\ Max(A \cup {0}) = 0 <=> A = {}
           /\ \A i \in A : i <= Max(A \cup {0})
           /\ A # {} => Max(A \cup {0}) \in A
<1>1. A \cup {0} \subseteq 0..3 /\ A \cup {0} # {} /\ 3 \in Nat
  OBVIOUS
<1>2. Max(A \cup {0}) \in A \cup {0} /\ \A i \in A \cup {0} : i <= Max(A \cup {0})
  BY <1>1, GreatestUpTo
<1>. DEFINE m == Max(A \cup {0})
<1>. HIDE DEF m
<1>3. m \in A \cup {0} /\ \A i \in A : i <= m
  BY <1>2 DEF m
<1>4. \A i \in A : i \in 1..3
  OBVIOUS
<1>5. (m = 0 <=> A = {}) /\ (A # {} => m \in A) /\ m \in 0..3
  <2>1. CASE A = {}
    BY <1>3, <2>1
  <2>2. CASE A # {}
    <3>1. PICK i \in A : i \in 1..3 /\ i <= m
      BY <1>3, <1>4, <2>2
    <3>2. m # 0
      <4>1. ~(i <= 0)
        BY <3>1
      <4>. QED  BY <3>1, <4>1
    <3>3. m \in A
      BY <1>3, <3>2
    <3>4. m \in 0..3
      BY <1>4, <3>3
    <3>. QED  BY <2>2, <3>2, <3>3, <3>4
  <2>. QED  BY <2>1, <2>2
<1>. QED  BY <1>3, <1>5 DEF m

\* How a dimension's value comes from its highest awarded level, its gate and its ceiling.
Says(some, gated, gate, informative, cap, level, value) ==
    /\ ~some => value = U
    /\ some /\ gated /\ ~gate /\ level = 0 /\ cap # 0 => value = U
    /\ some /\ gated /\ (gate \/ level # 0 \/ cap = 0) => value = level
    /\ some /\ ~gated /\ (informative \/ cap = 0) => value = level
    /\ some /\ ~gated /\ ~informative /\ cap # 0 => value = U

LEMMA LevelIs ==
    ASSUME NEW rs, NEW prod, NEW caps, NEW stays, NEW dim
    PROVE  Says(rs # <<>> \/ prod.present, ClaimsOf(dim).evaluability.gated,
                GateHolds(RunFeatures(rs, prod, stays), dim),
                Informative(RunFeatures(rs, prod, stays), dim, caps[dim]), caps[dim],
                Max(Awarded(RunFeatures(rs, prod, stays), dim, caps[dim]) \cup {0}),
                Level(rs, prod, caps, stays, dim))
<1>. DEFINE F == RunFeatures(rs, prod, stays)
            cap == caps[dim]
            level == Max(Awarded(F, dim, cap) \cup {0})
            gated == ClaimsOf(dim).evaluability.gated
            inf == Informative(F, dim, cap)
            gate == GateHolds(F, dim)
            is == IF gated /\ ~gate /\ level = 0 /\ cap # 0 THEN U
                  ELSE IF inf \/ cap = 0 \/ gated THEN level ELSE U
            value == Level(rs, prod, caps, stays, dim)
            some == rs # <<>> \/ prod.present
<1>1. value = CASE rs = <<>> /\ ~prod.present -> U [] some -> is
  BY DEF Level
<1>. HIDE DEF F, level, gated, inf, gate, value, is
<1>2. rs = <<>> /\ ~prod.present => value = U
  BY <1>1, Zenon
<1>3. some => value = is
  BY <1>1, Zenon
<1>4. ~some <=> rs = <<>> /\ ~prod.present
  BY Zenon
<1>. HIDE DEF some
<1>5. Says(some, gated, gate, inf, cap, level, value)
  BY <1>2, <1>3, <1>4 DEF is, Says
<1>. QED  BY <1>5 DEF F, level, gated, inf, gate, value, cap, some


LEMMA CardOf ==
    /\ ClaimsOf("environmental_feedback") = EnvironmentalFeedback
    /\ ClaimsOf("control_structure") = ControlStructure
    /\ ClaimsOf("spatial_motion") = SpatialMotion
    /\ ClaimsOf("representation") = Representation
    /\ ClaimsOf("task_state_regulation") = TaskStateRegulation
    /\ ClaimsOf("recovery") = Recovery
<1>1. ClaimsOf("environmental_feedback") = EnvironmentalFeedback
  BY Zenon DEF ClaimsOf
<1>2. ClaimsOf("control_structure") = ControlStructure
  BY Zenon DEF ClaimsOf
<1>3. ClaimsOf("spatial_motion") = SpatialMotion
  BY Zenon DEF ClaimsOf
<1>4. ClaimsOf("representation") = Representation
  BY Zenon DEF ClaimsOf
<1>5. ClaimsOf("task_state_regulation") = TaskStateRegulation
  BY Zenon DEF ClaimsOf
<1>6. ClaimsOf("recovery") = Recovery
  BY Zenon DEF ClaimsOf
<1>. QED  BY <1>1, <1>2, <1>3, <1>4, <1>5, <1>6

LEMMA GateOf ==
    /\ EnvironmentalFeedback.evaluability.gated = FALSE
    /\ ControlStructure.evaluability.gated = FALSE
    /\ Representation.evaluability.gated = FALSE
    /\ TaskStateRegulation.evaluability.gated = FALSE
    /\ SpatialMotion.evaluability = Gated(Known("specificity"))
    /\ Recovery.evaluability = Gated(Claim("correctives", 2, Constraint))
<1>1. Ungated.gated = FALSE
  BY DEF Ungated
<1>2. /\ EnvironmentalFeedback.evaluability = Ungated
      /\ ControlStructure.evaluability = Ungated
      /\ Representation.evaluability = Ungated
      /\ TaskStateRegulation.evaluability = Ungated
      /\ SpatialMotion.evaluability = Gated(Known("specificity"))
      /\ Recovery.evaluability = Gated(Claim("correctives", 2, Constraint))
  BY DEF EnvironmentalFeedback, ControlStructure, Representation, TaskStateRegulation, SpatialMotion, Recovery
<1>. QED  BY <1>1, <1>2

\* The levels before and after a row, when the gate that was open stays open.
LEMMA LevelsMove ==
    ASSUME NEW rs, NEW ss, ss # <<>>, NEW prod, NEW caps, NEW stays, NEW more, NEW dim,
           caps[dim] \in Nat,
           DOMAIN ClaimsOf(dim).levels \subseteq 1..3,
           \A lvl \in DOMAIN ClaimsOf(dim).levels : Regular(ClaimsOf(dim).levels[lvl]),
           Upward(RunFeatures(rs, prod, stays), RunFeatures(ss, prod, more)),
           ClaimsOf(dim).evaluability.gated /\ GateHolds(RunFeatures(rs, prod, stays), dim)
              => GateHolds(RunFeatures(ss, prod, more), dim)
    PROVE  LET A == Awarded(RunFeatures(rs, prod, stays), dim, caps[dim])
               B == Awarded(RunFeatures(ss, prod, more), dim, caps[dim])
               was == Level(rs, prod, caps, stays, dim)
               now == Level(ss, prod, caps, more, dim)
           IN  /\ A \subseteq B => ~(now < was)
               /\ ~ClaimsOf(dim).evaluability.gated \/ (A # {} => B # {}) =>
                     (now < was => now # U)
<1>. DEFINE F == RunFeatures(rs, prod, stays)
            G == RunFeatures(ss, prod, more)
            cap == caps[dim]
            A == Awarded(F, dim, cap)
            B == Awarded(G, dim, cap)
            a == Max(A \cup {0})
            b == Max(B \cup {0})
            gated == ClaimsOf(dim).evaluability.gated
            was == Level(rs, prod, caps, stays, dim)
            now == Level(ss, prod, caps, more, dim)
<1>1. A \subseteq 1..3 /\ B \subseteq 1..3
  BY DEF Awarded
<1>2. /\ a \in 0..3 /\ b \in 0..3 /\ (a = 0 <=> A = {}) /\ (b = 0 <=> B = {})
      /\ A # {} => a \in A
      /\ \A i \in B : i <= b
  BY <1>1, TopIs
<1>. DEFINE some == rs # <<>> \/ prod.present
            full == ss # <<>> \/ prod.present
            iF == Informative(F, dim, cap)
            iG == Informative(G, dim, cap)
            gF == GateHolds(F, dim)
            gG == GateHolds(G, dim)
<1>3. iF => iG
  BY InformativeKept
<1>4. Says(some, gated, gF, iF, cap, a, was) /\ Says(full, gated, gG, iG, cap, b, now)
  BY LevelIs
<1>5. full
  BY Zenon
<1>6. gated /\ gF => gG
  OBVIOUS
<1>. HIDE DEF F, G, A, B, a, b, gated, was, now, some, full, cap, iF, iG, gF, gG
<1>7. (now = U \/ now = b) /\ (was = U \/ was = a) /\ U = -1
  BY <1>4, <1>5 DEF U, Says
<1>8. was # U => was = a
  BY <1>7
<1>9. ~gated \/ (A # {} => B # {}) => (was # U => now = b)
  <2>1. ASSUME was # U, ~gated PROVE now = b
    BY <1>3, <1>4, <1>5, <2>1 DEF Says
  <2>2. ASSUME was # U, gated, A # {} => B # {} PROVE now = b
    <3>1. gF \/ a # 0 \/ cap = 0
      BY <1>4, <2>2 DEF Says
    <3>2. gG \/ b # 0 \/ cap = 0
      BY <1>2, <1>6, <2>2, <3>1
    <3>. QED  BY <1>4, <1>5, <2>2, <3>2 DEF Says
  <2>. QED  BY <2>1, <2>2
<1>10. A \subseteq B => a <= b
  BY <1>1, <1>2
<1>11. A \subseteq B => ~(now < was)
  <2>1. SUFFICES ASSUME A \subseteq B PROVE ~(now < was)
    OBVIOUS
  <2>2. was # U => now = b
    BY <1>9, <2>1
  <2>. QED  BY <1>2, <1>7, <1>10, <2>1, <2>2
<1>12. ~gated \/ (A # {} => B # {}) => (now < was => now # U)
  BY <1>2, <1>7, <1>9
<1>. QED  BY <1>11, <1>12 DEF F, G, A, B, gated, was, now, cap

\* What was awarded on claims that only ask for more stays awarded.
LEMMA PlainlyKept ==
    ASSUME NEW F, NEW G, Upward(F, G), NEW dim, NEW cap,
           \A lvl \in DOMAIN ClaimsOf(dim).levels :
              /\ Plainly(ClaimsOf(dim).levels[lvl])
              /\ \A c \in ClaimsOf(dim).levels[lvl].negatives : ClaimHolds(G, c) => ClaimHolds(F, c)
    PROVE  Awarded(F, dim, cap) \subseteq Awarded(G, dim, cap)
<1>1. SUFFICES ASSUME NEW lvl \in Awarded(F, dim, cap) PROVE lvl \in Awarded(G, dim, cap)
  OBVIOUS
<1>2. lvl \in DOMAIN ClaimsOf(dim).levels
  BY DEF Awarded
<1>3. /\ Plainly(ClaimsOf(dim).levels[lvl])
      /\ \A c \in ClaimsOf(dim).levels[lvl].negatives : ClaimHolds(G, c) => ClaimHolds(F, c)
  BY <1>2
<1>. DEFINE l == ClaimsOf(dim).levels[lvl]
<1>4. Regular(l) /\ NothingAgainst(F, G, l)
  <2>. HIDE DEF l
  <2>1. Regular(l) /\ \A c \in l.floors : Positive(c)
    BY <1>3 DEF Plainly, l
  <2>2. \A c \in l.floors : ClaimHolds(F, c) => ClaimHolds(G, c)
    BY <2>1, ClaimKept
  <2>. QED  BY <1>3, <2>1, <2>2 DEF NothingAgainst, l
<1>. QED  BY <1>4, AwardedKept

\* Two claims' words that are not at least: known, and at most.
LEMMA KnownIs ==
    ASSUME NEW F, NEW f
    PROVE  ClaimHolds(F, Known(f)) <=> Feature(F, f) # Blank
<1>1. Known(f).op = "known" /\ Known(f).of = f
  BY DEF Known
<1>2. Known(f).op # "le" /\ Known(f).op # "ge"
  BY <1>1
<1>. QED  BY <1>1, <1>2, Zenon DEF ClaimHolds

LEMMA AtMostIs ==
    ASSUME NEW F, NEW c, c.op = "le"
    PROVE  ClaimHolds(F, c) <=> OrZero(Feature(F, c.of)) <= c.value
<1>1. c.op # "ge" /\ c.op # "known"
  OBVIOUS
<1>. QED  BY <1>1, Zenon DEF ClaimHolds


\* A dimension whose claims only ask for more, or speak against a level that was spoken
\* against before.
LEMMA PlainDimension ==
    ASSUME NEW rs, NEW ss, ss # <<>>, NEW prod, NEW caps, NEW stays, NEW more, NEW dim,
           caps[dim] \in Nat,
           Upward(RunFeatures(rs, prod, stays), RunFeatures(ss, prod, more)),
           ClaimsOf(dim).evaluability.gated /\ GateHolds(RunFeatures(rs, prod, stays), dim)
              => GateHolds(RunFeatures(ss, prod, more), dim),
           DOMAIN ClaimsOf(dim).levels \subseteq 1..3,
           \A lvl \in DOMAIN ClaimsOf(dim).levels :
              /\ Plainly(ClaimsOf(dim).levels[lvl])
              /\ \A c \in ClaimsOf(dim).levels[lvl].negatives :
                    ClaimHolds(RunFeatures(ss, prod, more), c)
                       => ClaimHolds(RunFeatures(rs, prod, stays), c)
    PROVE  ~(Level(ss, prod, caps, more, dim) < Level(rs, prod, caps, stays, dim))
<1>1. Awarded(RunFeatures(rs, prod, stays), dim, caps[dim])
        \subseteq Awarded(RunFeatures(ss, prod, more), dim, caps[dim])
  BY PlainlyKept
<1>2. \A lvl \in DOMAIN ClaimsOf(dim).levels : Regular(ClaimsOf(dim).levels[lvl])
  BY DEF Plainly
<1>. QED  BY <1>1, <1>2, LevelsMove

\* A claim is resolved alike against two features that are alike.
LEMMA SameFeature ==
    ASSUME NEW F, NEW G, NEW c, c.op = "ge", Feature(F, c.of) = Feature(G, c.of)
    PROVE  ClaimHolds(F, c) <=> ClaimHolds(G, c)
<1>1. ClaimHolds(F, c) <=> OrZero(Feature(F, c.of)) >= c.value
  BY AtLeast
<1>2. ClaimHolds(G, c) <=> OrZero(Feature(G, c.of)) >= c.value
  BY AtLeast
<1>. QED  BY <1>1, <1>2

\* Recovery's second level rests on its first.
LEMMA SecondAfterFirst ==
    ASSUME NEW F, NEW cap \in Nat, 2 \in Awarded(F, "recovery", cap),
           NEW G, Upward(F, G),
           {"cycles", "cycleFamilies"} \subseteq DOMAIN F,
           F["cycleFamilies"] >= 1 => F["cycles"] >= 1
    PROVE  1 \in Awarded(F, "recovery", cap)
<1>. DEFINE ls == Recovery.levels
            one == Claim("cycles", 1, Primary)
            two == Claim("cycleFamilies", 2, Primary)
            few == AtMost("unsurvived", 1)
<1>1. /\ DOMAIN ls = 1..2 /\ Plainly(ls[1]) /\ Regular(ls[2])
      /\ ls[1].negatives = {} /\ ls[2].negatives = {}
      /\ ls[1].floors = {one} /\ ls[2].floors = {two, few}
  BY RecoveryCard
<1>2. ClaimsOf("recovery").levels = ls
  BY CardOf
<1>3. ASSUME NEW lvl
      PROVE  lvl \in Awarded(F, "recovery", cap) <=>
                /\ lvl \in 1..2 /\ ConjunctsHold(F, ls[lvl])
                /\ Net(F, ls[lvl]) >= SupportMin /\ lvl <= cap
  BY <1>1, <1>2 DEF Awarded
<1>4. /\ Positive(one) /\ one.weight = Primary /\ one.of = "cycles" /\ one.value = 1
      /\ two.of = "cycleFamilies" /\ two.value = 2 /\ two.op = "ge" /\ one.op = "ge"
  BY ClaimIs DEF Positive
<1>5. few.weight = 0
  BY DEF AtMost, Constraint
<1>. HIDE DEF ls, one, two, few
<1>6. ASSUME NEW l, l.negatives = {} PROVE NegativeWeight(F, l) = 0
  <2>. DEFINE N == {c \in l.negatives : ClaimHolds(F, c)}
  <2>1. N = {}
    BY <1>6
  <2>2. NegativeWeight(F, l) = 2 * Cardinality(N)
    BY DEF NegativeWeight
  <2>. QED  BY <2>1, <2>2, FS_EmptySet
<1>7. Support(F, ls[2]) >= SupportMin
  <2>1. Net(F, ls[2]) >= SupportMin
    BY <1>3
  <2>2. Support(F, ls[2]) \in Nat
    BY <1>1, SupportGrows
  <2>. QED  BY <1>1, <1>6, <2>1, <2>2 DEF Net
<1>8. ClaimHolds(F, two)
  <2>1. PICK c \in ls[2].floors : c.weight > 0 /\ ClaimHolds(F, c)
    BY <1>1, <1>7, SupportGrows
  <2>2. c # few
    BY <1>5, <2>1
  <2>. QED  BY <1>1, <2>1, <2>2
<1>9. F["cycleFamilies"] >= 2
  <2>1. OrZero(Feature(F, "cycleFamilies")) >= 2
    BY <1>4, <1>8, AtLeast
  <2>2. Feature(F, "cycleFamilies") = F["cycleFamilies"] /\ F["cycleFamilies"] \in Score
    BY DEF Feature, Upward
  <2>. QED  BY <2>1, <2>2 DEF OrZero, Score, Blank
<1>10. F["cycles"] >= 1
  <2>1. F["cycleFamilies"] \in Score
    BY DEF Upward
  <2>. QED  BY <1>9, <2>1 DEF Score, Blank
<1>11. ClaimHolds(F, one)
  <2>1. Feature(F, "cycles") = F["cycles"] /\ F["cycles"] \in Score
    BY DEF Feature, Upward
  <2>2. OrZero(Feature(F, "cycles")) >= 1
    BY <1>10, <2>1 DEF OrZero, Score, Blank
  <2>. QED  BY <1>4, <2>2, AtLeast
<1>12. ConjunctsHold(F, ls[1])
  BY <1>1, <1>11 DEF ConjunctsHold
<1>13. Net(F, ls[1]) >= SupportMin
  <2>1. Holding(F, ls[1], Primary) = {one}
    BY <1>1, <1>4, <1>11 DEF Holding
  <2>2. Cardinality(Holding(F, ls[1], Primary)) = 1
    BY <2>1, FS_Singleton
  <2>. DEFINE S == Holding(F, ls[1], Supporting)
  <2>3. Cardinality(S) \in Nat
    <3>1. S \in SUBSET ls[1].floors /\ IsFiniteSet(ls[1].floors)
      BY <1>1 DEF Holding, Plainly, Regular
    <3>. QED  BY <3>1, FS_Subset, FS_CardinalityType
  <2>4. Support(F, ls[1]) = Primary * 1 + Supporting * Cardinality(S)
    BY <2>2 DEF Support
  <2>. HIDE DEF S
  <2>5. Support(F, ls[1]) \in Nat /\ Support(F, ls[1]) >= 2
    BY <2>3, <2>4 DEF Primary, Supporting
  <2>6. NegativeWeight(F, ls[1]) = 0
    BY <1>1, <1>6
  <2>. QED  BY <2>5, <2>6 DEF Net, SupportMin
<1>14. 1 <= cap
  <2>1. 2 <= cap
    BY <1>3
  <2>. QED  BY <2>1
<1>. QED  BY <1>3, <1>12, <1>13, <1>14


\* One more scenario, dimension by dimension.
LEMMA OneMoreScenario ==
    ASSUME NEW rs, RowsCounted(rs), NEW r, Counted(r), NEW stays, NEW more,
           NEW prod, prod = NoRow \/ prod \in ProductionType,
           NEW caps \in [Dimensions -> Nat], NEW dim \in Dimensions,
           Level(Append(rs, r), prod, caps, more, dim) < Level(rs, prod, caps, stays, dim)
    PROVE  /\ Level(Append(rs, r), prod, caps, more, dim) # U
           /\ \/ /\ dim = "task_state_regulation"
                 /\ BatteryFeatures(Append(rs, r), more)["unchanged"] > BatteryFeatures(rs, stays)["unchanged"]
              \/ /\ dim = "recovery"
                 /\ BatteryFeatures(Append(rs, r), more)["unsurvived"] > BatteryFeatures(rs, stays)["unsurvived"]
<1>. DEFINE ss == Append(rs, r)
            F == RunFeatures(rs, prod, stays)
            G == RunFeatures(ss, prod, more)
            was == Level(rs, prod, caps, stays, dim)
            now == Level(ss, prod, caps, more, dim)
            grew(f) == BatteryFeatures(ss, more)[f] > BatteryFeatures(rs, stays)[f]
<1>1. ss # <<>>
  <2>1. PICK S : rs \in Seq(S)
    BY DEF RowsCounted
  <2>2. Len(rs) \in Nat /\ Len(rs) + 1 # 0
    BY <2>1
  <2>3. Len(ss) = Len(rs) + 1
    BY <2>1
  <2>. QED  BY <2>2, <2>3
<1>2. /\ Upward(F, G) /\ ShownNames \subseteq DOMAIN F
      /\ F["cycleFamilies"] >= 1 => F["cycles"] >= 1
      /\ F["detectsFail"] = 0 /\ G["detectsFail"] = 0
      /\ \A f \in ShownNames : /\ F[f] = BatteryFeatures(rs, stays)[f]
                               /\ G[f] = BatteryFeatures(ss, more)[f]
  BY FeaturesUpward
<1>3. caps[dim] \in Nat
  OBVIOUS
<1>4. \A f \in ShownNames : grew(f) <=> G[f] > F[f]
  BY <1>2
<1>5. /\ {"detectsFail", "unchanged", "unsurvived", "cycles", "cycleFamilies", "correctives"}
            \subseteq DOMAIN F
      /\ "unchanged" \in ShownNames /\ "unsurvived" \in ShownNames
  BY <1>2 DEF ShownNames
<1>6. ASSUME NEW f \in DOMAIN F
      PROVE  Feature(F, f) = F[f] /\ Feature(G, f) = G[f] /\ F[f] \in Score /\ G[f] \in Score
  BY <1>2 DEF Feature, Upward
<1>. HIDE DEF ss, F, G, grew
<1>7. CASE dim = "environmental_feedback"
  <2>. DEFINE ls == EnvironmentalFeedback.levels
  <2>1. /\ DOMAIN ls = 1..2 /\ \A lvl \in 1..2 : Plainly(ls[lvl])
        /\ \A lvl \in 1..2 : \A c \in ls[lvl].negatives : c.of = "detectsFail" /\ c.value = 2
    BY FeedbackCard
  <2>2. ClaimsOf(dim) = EnvironmentalFeedback /\ ~EnvironmentalFeedback.evaluability.gated
    BY <1>7, CardOf, GateOf
  <2>3. ASSUME NEW lvl \in 1..2, NEW c \in ls[lvl].negatives PROVE ~ClaimHolds(G, c)
    <3>1. c.op = "ge" /\ c.of = "detectsFail" /\ c.value = 2
      BY <2>1, <2>3 DEF Plainly, Regular, Positive
    <3>2. Feature(G, "detectsFail") = 0
      BY <1>2, <1>5, <1>6
    <3>3. ~(OrZero(0) >= 2)
      BY DEF OrZero, Blank
    <3>. QED  BY <3>1, <3>2, <3>3, AtLeast
  <2>4. DOMAIN ls \subseteq 1..3
    BY <2>1
  <2>. HIDE DEF ls
  <2>5. ~(now < was)
    BY <1>1, <1>2, <1>3, <2>1, <2>2, <2>3, <2>4, PlainDimension DEF F, G, ls
  <2>. QED  BY <2>5 DEF ss
<1>8. CASE dim = "control_structure"
  <2>. DEFINE ls == ControlStructure.levels
  <2>1. /\ DOMAIN ls = 1..3 /\ \A lvl \in 1..3 : Plainly(ls[lvl])
        /\ \A lvl \in 1..3 : ls[lvl].negatives = {}
    BY StructureCard
  <2>2. ClaimsOf(dim) = ControlStructure /\ ~ControlStructure.evaluability.gated
    BY <1>8, CardOf, GateOf
  <2>4. DOMAIN ls \subseteq 1..3
    BY <2>1
  <2>. HIDE DEF ls
  <2>5. ~(now < was)
    BY <1>1, <1>2, <1>3, <2>1, <2>2, <2>4, PlainDimension DEF F, G, ls
  <2>. QED  BY <2>5 DEF ss
<1>9. CASE dim = "representation"
  <2>. DEFINE ls == Representation.levels
  <2>1. /\ DOMAIN ls = 1..2 /\ \A lvl \in 1..2 : Plainly(ls[lvl])
        /\ \A lvl \in 1..2 : ls[lvl].negatives = {}
    BY RepresentationCard
  <2>2. ClaimsOf(dim) = Representation /\ ~Representation.evaluability.gated
    BY <1>9, CardOf, GateOf
  <2>4. DOMAIN ls \subseteq 1..3
    BY <2>1
  <2>. HIDE DEF ls
  <2>5. ~(now < was)
    BY <1>1, <1>2, <1>3, <2>1, <2>2, <2>4, PlainDimension DEF F, G, ls
  <2>. QED  BY <2>5 DEF ss
<1>10. CASE dim = "spatial_motion"
  <2>. DEFINE ls == SpatialMotion.levels
  <2>1. /\ DOMAIN ls = 1..2 /\ \A lvl \in 1..2 : Plainly(ls[lvl])
        /\ \A lvl \in 1..2 : ls[lvl].negatives = {}
    BY MotionCard
  <2>2. ClaimsOf(dim) = SpatialMotion /\ SpatialMotion.evaluability.gate = Known("specificity")
    BY <1>10, CardOf, GateOf DEF Gated
  <2>3. GateHolds(F, dim) => GateHolds(G, dim)
    <3>1. /\ GateHolds(F, dim) <=> Feature(F, "specificity") # Blank
          /\ GateHolds(G, dim) <=> Feature(G, "specificity") # Blank
      BY <2>2, KnownIs DEF GateHolds
    <3>2. "specificity" # "unsurvived"
      OBVIOUS
    <3>3. /\ Feature(F, "specificity") \in Score /\ Feature(G, "specificity") \in Score
          /\ Feature(F, "specificity") <= Feature(G, "specificity")
      BY <1>2, <3>2, FeatureUp
    <3>. QED  BY <3>1, <3>3 DEF Score, Blank
  <2>4. DOMAIN ls \subseteq 1..3
    BY <2>1
  <2>. HIDE DEF ls
  <2>5. ~(now < was)
    BY <1>1, <1>2, <1>3, <2>1, <2>2, <2>3, <2>4, PlainDimension DEF F, G, ls
  <2>. QED  BY <2>5 DEF ss
<1>11. CASE dim = "task_state_regulation"
  <2>. DEFINE ls == TaskStateRegulation.levels
  <2>1. /\ DOMAIN ls = 1..2 /\ \A lvl \in 1..2 : Plainly(ls[lvl])
        /\ \A lvl \in 1..2 : \A c \in ls[lvl].negatives : c.of = "unchanged"
    BY RegulationCard
  <2>2. ClaimsOf(dim) = TaskStateRegulation /\ ~TaskStateRegulation.evaluability.gated
    BY <1>11, CardOf, GateOf
  <2>3. DOMAIN ls \subseteq 1..3 /\ \A lvl \in DOMAIN ls : Regular(ls[lvl])
    BY <2>1 DEF Plainly
  <2>. HIDE DEF ls
  <2>4. now # U
    BY <1>1, <1>2, <1>3, <2>2, <2>3, LevelsMove DEF F, G, ls, ss
  <2>5. CASE grew("unchanged")
    BY <1>11, <2>4, <2>5 DEF grew, ss
  <2>6. CASE ~grew("unchanged")
    <3>1. F["unchanged"] = G["unchanged"]
      <4>1. /\ F["unchanged"] \in Score /\ G["unchanged"] \in Score /\ F["unchanged"] <= G["unchanged"]
        BY <1>2, <1>5 DEF Upward
      <4>. QED  BY <1>4, <1>5, <2>6, <4>1 DEF Score, Blank
    <3>2. ASSUME NEW lvl \in 1..2, NEW c \in ls[lvl].negatives PROVE ClaimHolds(G, c) => ClaimHolds(F, c)
      <4>1. c.op = "ge" /\ c.of = "unchanged"
        BY <2>1, <3>2 DEF Plainly, Regular, Positive
      <4>2. Feature(F, c.of) = Feature(G, c.of)
        BY <1>5, <1>6, <3>1, <4>1
      <4>. QED  BY <4>1, <4>2, SameFeature
    <3>3. ~(now < was)
      BY <1>1, <1>2, <1>3, <2>1, <2>2, <2>3, <3>2, PlainDimension DEF F, G, ls
    <3>. QED  BY <3>3 DEF ss
  <2>. QED  BY <2>5, <2>6
<1>12. CASE dim = "recovery"
  <2>. DEFINE ls == Recovery.levels
              one == Claim("cycles", 1, Primary)
              A == Awarded(F, dim, caps[dim])
              B == Awarded(G, dim, caps[dim])
  <2>1. /\ DOMAIN ls = 1..2 /\ Plainly(ls[1]) /\ Regular(ls[2])
        /\ ls[1].negatives = {} /\ ls[2].negatives = {}
        /\ \A c \in ls[2].floors : Positive(c) \/ (c.op = "le" /\ c.of = "unsurvived" /\ c.value = 1)
    BY RecoveryCard
  <2>2. /\ ClaimsOf(dim) = Recovery
        /\ Recovery.evaluability.gate = Claim("correctives", 2, Constraint)
    BY <1>12, CardOf, GateOf DEF Gated
  <2>3. GateHolds(F, dim) => GateHolds(G, dim)
    <3>1. Positive(Claim("correctives", 2, Constraint))
      BY DEF Positive, Claim
    <3>. QED  BY <1>2, <2>2, <3>1, ClaimKept DEF GateHolds
  <2>4. DOMAIN ls \subseteq 1..3 /\ \A lvl \in DOMAIN ls : Regular(ls[lvl])
    BY <2>1 DEF Plainly
  <2>5. A \subseteq {1, 2}
    BY <2>1, <2>2 DEF Awarded
  <2>. HIDE DEF ls, A, B
  <2>6. /\ A \subseteq B => ~(now < was)
        /\ (A # {} => B # {}) => (now < was => now # U)
    BY <1>1, <1>2, <1>3, <2>2, <2>3, <2>4, LevelsMove DEF F, G, ls, A, B
  <2>7. 1 \in A => 1 \in B
    <3>1. \A c \in ls[1].floors : Positive(c)
      BY <2>1 DEF Plainly
    <3>2. NothingAgainst(F, G, ls[1])
      BY <1>2, <2>1, <3>1, ClaimKept DEF NothingAgainst
    <3>3. Regular(ls[1])
      BY <2>1 DEF Plainly
    <3>. QED  BY <1>2, <2>2, <3>2, <3>3, AwardedKept DEF A, B, ls
  <2>8. 2 \in A => 1 \in A
    BY <1>2, <1>3, <1>5, <1>12, SecondAfterFirst DEF A
  <2>9. now # U
    BY <2>5, <2>6, <2>7, <2>8 DEF ss
  <2>10. CASE grew("unsurvived")
    BY <1>12, <2>9, <2>10 DEF grew, ss
  <2>11. CASE ~grew("unsurvived")
    <3>1. G["unsurvived"] <= F["unsurvived"] /\ F["unsurvived"] \in Score /\ G["unsurvived"] \in Score
      <4>1. F["unsurvived"] \in Score /\ G["unsurvived"] \in Score
        BY <1>5, <1>6
      <4>. QED  BY <1>4, <1>5, <2>11, <4>1 DEF Score, Blank
    <3>2. ASSUME NEW c \in ls[2].floors, ClaimHolds(F, c) PROVE ClaimHolds(G, c)
      <4>1. CASE Positive(c)
        BY <1>2, <3>2, <4>1, ClaimKept
      <4>2. CASE c.op = "le" /\ c.of = "unsurvived" /\ c.value = 1
        <5>1. OrZero(F["unsurvived"]) <= 1
          BY <1>5, <1>6, <3>2, <4>2, AtMostIs
        <5>2. OrZero(G["unsurvived"]) <= 1
          BY <3>1, <5>1 DEF OrZero, Score, Blank
        <5>. QED  BY <1>5, <1>6, <4>2, <5>2, AtMostIs
      <4>. QED  BY <2>1, <4>1, <4>2
    <3>3. NothingAgainst(F, G, ls[2])
      BY <2>1, <3>2 DEF NothingAgainst
    <3>4. 2 \in A => 2 \in B
      BY <1>2, <2>1, <2>2, <3>3, AwardedKept DEF A, B, ls
    <3>5. A \subseteq B
      BY <2>5, <2>7, <3>4
    <3>. QED  BY <2>6, <3>5 DEF ss
  <2>. QED  BY <2>10, <2>11
<1>. QED  BY <1>7, <1>8, <1>9, <1>10, <1>11, <1>12 DEF Dimensions


-----------------------------------------------------------------------------
\* The battery is one of Batteries, and its rows are counted.
RowsInvariant == Typed /\ battery \in Batteries /\ RowsCounted(rows)

LEMMA RowsInit == Init => RowsInvariant
<1>1. Init => Typed /\ battery \in Batteries
  BY TypedInit DEF Init
<1>2. Init => RowsCounted(rows)
  <2>1. <<>> \in Seq({}) /\ \A r \in {} : Counted(r)
    OBVIOUS
  <2>. QED  BY <2>1 DEF Init, RowsCounted
<1>. QED  BY <1>1, <1>2 DEF RowsInvariant

LEMMA MoreCounted ==
    ASSUME NEW rs, RowsCounted(rs), NEW r, Counted(r)
    PROVE  RowsCounted(Append(rs, r))
<1>1. PICK S : rs \in Seq(S) /\ \A x \in S : Counted(x)
  BY DEF RowsCounted
<1>. DEFINE T == S \cup {r}
<1>2. Append(rs, r) \in Seq(T)
  BY <1>1
<1>3. \A x \in T : Counted(x)
  BY <1>1
<1>. HIDE DEF T
<1>. QED  BY <1>2, <1>3 DEF RowsCounted

LEMMA RowsStep == RowsInvariant /\ [Next]_vars => RowsInvariant'
<1>. SUFFICES ASSUME RowsInvariant, [Next]_vars PROVE RowsInvariant'
  OBVIOUS
<1>1. Typed'
  BY TypedStep DEF RowsInvariant
<1>2. /\ battery' = battery
      /\ rows' # rows => \E r : Counted(r) /\ rows' = Append(rows, r)
  BY RowsGrow DEF RowsInvariant
<1>3. RowsCounted(rows')
  BY <1>2, MoreCounted DEF RowsInvariant
<1>. QED  BY <1>1, <1>2, <1>3 DEF RowsInvariant, RowsCounted

\* For every battery, program, census and setting of the rules: one more scenario never takes
\* a level of the rubric away, except with counter-evidence (a cue that was not used, a
\* condition family that was not survived), and never turns a level into silence.
THEOREM LevelsAreKept == Spec => LevelsFallOnlyOnCounterEvidence
<1>1. Init => RowsInvariant
  BY RowsInit
<1>2. RowsInvariant /\ [Next]_vars => RowsInvariant'
  BY RowsStep
<1>. DEFINE Kept ==
         LET grew(f) == BatteryFeatures(rows', survived')[f] > BatteryFeatures(rows, survived)[f]
             was == Levels(rows, survived)
             now == Levels(rows', survived')
         IN  \A dim \in Dimensions :
                now[dim] < was[dim] =>
                   /\ now[dim] # U
                   /\ \/ dim = "task_state_regulation" /\ grew("unchanged")
                      \/ dim = "recovery" /\ grew("unsurvived")
<1>3. RowsInvariant /\ [Next]_vars => [rows' # rows => Kept]_vars
  <2>. SUFFICES ASSUME RowsInvariant, [Next]_vars, rows' # rows, NEW dim \in Dimensions,
                       Levels(rows', survived')[dim] < Levels(rows, survived)[dim]
                PROVE  /\ Levels(rows', survived')[dim] # U
                       /\ \/ /\ dim = "task_state_regulation"
                             /\ BatteryFeatures(rows', survived')["unchanged"]
                                  > BatteryFeatures(rows, survived)["unchanged"]
                          \/ /\ dim = "recovery"
                             /\ BatteryFeatures(rows', survived')["unsurvived"]
                                  > BatteryFeatures(rows, survived)["unsurvived"]
    OBVIOUS
  <2>1. PICK r : Counted(r) /\ rows' = Append(rows, r)
    BY RowsGrow DEF RowsInvariant
  <2>2. /\ battery.row = NoRow \/ battery.row \in ProductionType
        /\ battery.caps \in [Dimensions -> Nat]
    BY BatteryAssumption DEF RowsInvariant
  <2>3. /\ Levels(rows', survived')[dim] = Level(rows', battery.row, battery.caps, survived', dim)
        /\ Levels(rows, survived)[dim] = Level(rows, battery.row, battery.caps, survived, dim)
    BY DEF Levels
  <2>4. RowsCounted(rows) /\ Counted(r)
    BY <2>1 DEF RowsInvariant
  <2>. DEFINE prod == battery.row
              caps == battery.caps
              was == Level(rows, prod, caps, survived, dim)
              now == Level(Append(rows, r), prod, caps, survived', dim)
  <2>5. now < was
    BY <2>1, <2>3
  <2>6. /\ now # U
        /\ \/ /\ dim = "task_state_regulation"
              /\ BatteryFeatures(Append(rows, r), survived')["unchanged"]
                   > BatteryFeatures(rows, survived)["unchanged"]
           \/ /\ dim = "recovery"
              /\ BatteryFeatures(Append(rows, r), survived')["unsurvived"]
                   > BatteryFeatures(rows, survived)["unsurvived"]
    BY <2>2, <2>4, <2>5, OneMoreScenario
  <2>. QED  BY <2>1, <2>3, <2>6
<1>. QED  BY <1>1, <1>2, <1>3, PTL DEF Spec, LevelsFallOnlyOnCounterEvidence
-----------------------------------------------------------------------------
(***************************************************************************)
(* The one piece of a world: cleared once and for all, and touched before. *)
(***************************************************************************)
\* A piece is on its way with at most one event, and then there is none yet.
PieceToCome(w) ==
    \A i \in 1..Len(w.waiting) : w.waiting[i].piece # Nowhere =>
        /\ w.piece = "none"
        /\ \A j \in 1..Len(w.waiting) : w.waiting[j].piece # Nowhere => j = i
ClearedForGood(w) == w.cleared # Never => w.piece = "cleared" /\ w.contact # Never

LEMMA FiringKeeps ==
    ASSUME NEW w \in WorldType, NEW e \in EventType
    PROVE  LET v == FireEvent(w, e) IN
           /\ v.step = w.step /\ v.contact = w.contact /\ v.cleared = w.cleared
           /\ v.piece = IF e.piece = Nowhere THEN w.piece ELSE "live"
<1>. DEFINE island == IF e.ahead = Nowhere THEN w ELSE PlaceBoundary(w, e.ahead)
            x == w.pos + w.hd * e.piece
            pieces == IF e.piece = Nowhere THEN island ELSE MaterializedAt(island, x)
            p == IF e.ahead = Nowhere THEN [id |-> e.id, edge |-> Nowhere, near |-> 0]
                 ELSE [id |-> e.id, edge |-> island.edge, near |-> e.ahead]
<1>1. /\ island.step = w.step /\ island.contact = w.contact /\ island.cleared = w.cleared
      /\ island.piece = w.piece /\ "piece" \in DOMAIN island /\ DOMAIN island = DOMAIN w
  BY DEF PlaceBoundary, WorldType
<1>. HIDE DEF island, x
<1>2. /\ pieces.step = w.step /\ pieces.contact = w.contact /\ pieces.cleared = w.cleared
      /\ pieces.piece = (IF e.piece = Nowhere THEN w.piece ELSE "live")
      /\ DOMAIN pieces = DOMAIN w
  BY <1>1 DEF MaterializedAt
<1>3. FireEvent(w, e) = [pieces EXCEPT !.placed = Append(@, p)]
  BY DEF FireEvent, pieces, p, island, x
<1>. HIDE DEF pieces, p
<1>. QED  BY <1>2, <1>3 DEF WorldType

\* After the first i of the events that wait.
Meanwhile(w, v, i) ==
    /\ v \in WorldType /\ v.step = w.step /\ v.contact = w.contact /\ v.cleared = w.cleared
    /\ Len(w.placed) <= Len(v.placed)
    /\ Len(v.placed) = Len(w.placed) => v.lo = w.lo /\ v.hi = w.hi
    /\ PieceToCome(v) /\ ClearedForGood(v)
    /\ \A k \in 1..Len(v.waiting) : v.waiting[k].piece # Nowhere =>
          \E j \in 1..i : w.waiting[j].piece # Nowhere
    /\ v.piece # w.piece => \E j \in 1..i : w.waiting[j].piece # Nowhere

LEMMA MeanwhileInit ==
    ASSUME NEW w \in WorldType, PieceToCome(w), ClearedForGood(w)
    PROVE  Meanwhile(w, [Approached(w) EXCEPT !.waiting = <<>>], 0)
<1>. DEFINE v == [Approached(w) EXCEPT !.waiting = <<>>]
            q == [i \in DOMAIN w.placed |-> Closer(w.placed[i], w.pos)]
<1>1. v \in WorldType /\ Len(w.placed) <= Len(v.placed)
  BY ApproachedIs DEF SoFar
<1>2. w.placed \in Seq(PlacedType) /\ Len(w.placed) \in Nat
  BY WorldIs
<1>3. v = [w EXCEPT !.placed = q, !.waiting = <<>>]
  <2>1. Approached(w) = [w EXCEPT !.placed = q]
    BY DEF Approached
  <2>. HIDE DEF q
  <2>. QED  BY <2>1 DEF WorldType
<1>. HIDE DEF q, v
<1>4. /\ v.step = w.step /\ v.contact = w.contact /\ v.cleared = w.cleared /\ v.piece = w.piece
      /\ v.lo = w.lo /\ v.hi = w.hi /\ v.waiting = <<>>
  BY <1>3 DEF WorldType
<1>5. \A k \in 1..Len(v.waiting) : FALSE
  BY <1>4
<1>6. PieceToCome(v) /\ ClearedForGood(v)
  BY <1>4, <1>5 DEF PieceToCome, ClearedForGood
<1>7. Meanwhile(w, v, 0)
  BY <1>1, <1>4, <1>5, <1>6 DEF Meanwhile
<1>. QED  BY <1>7 DEF v

LEMMA MeanwhileWaits ==
    ASSUME NEW w \in WorldType, NEW v, NEW i \in 1..Len(w.waiting), PieceToCome(w),
           Meanwhile(w, v, i - 1)
    PROVE  Meanwhile(w, [v EXCEPT !.waiting = Append(@, w.waiting[i])], i)
<1>. DEFINE e == w.waiting[i]
            q == Append(v.waiting, e)
            u == [v EXCEPT !.waiting = q]
<1>1. /\ v \in WorldType /\ v.waiting \in Seq(EventType) /\ w.waiting \in Seq(EventType)
      /\ Len(w.waiting) \in Nat /\ Len(v.waiting) \in Nat /\ i \in Nat
  <2>1. v \in WorldType
    BY DEF Meanwhile
  <2>2. i \in Nat /\ Len(w.waiting) \in Nat
    BY WorldIs
  <2>. QED  BY <2>1, <2>2, WorldIs
<1>2. e \in EventType
  BY <1>1
<1>3. /\ q \in Seq(EventType) /\ Len(q) = Len(v.waiting) + 1 /\ q[Len(v.waiting) + 1] = e
      /\ \A k \in 1..Len(v.waiting) : q[k] = v.waiting[k]
  BY <1>1, <1>2
<1>. HIDE DEF q
<1>4. /\ u \in WorldType /\ u.step = v.step /\ u.contact = v.contact /\ u.cleared = v.cleared
      /\ u.piece = v.piece /\ u.lo = v.lo /\ u.hi = v.hi /\ u.waiting = q /\ u.placed = v.placed
  BY <1>1, <1>3 DEF WorldType
<1>5. u = [v EXCEPT !.waiting = Append(@, w.waiting[i])]
  BY DEF q
<1>. HIDE DEF u
<1>6. \A j \in 1..(i - 1) : j \in 1..i /\ j \in 1..Len(w.waiting) /\ j # i
  BY <1>1
<1>7. e.piece # Nowhere => \A j \in 1..(i - 1) : w.waiting[j].piece = Nowhere
  BY <1>6 DEF PieceToCome
<1>8. e.piece # Nowhere => v.piece = "none" /\ \A k \in 1..Len(v.waiting) : v.waiting[k].piece = Nowhere
  <2>. SUFFICES ASSUME e.piece # Nowhere
                PROVE  v.piece = "none" /\ \A k \in 1..Len(v.waiting) : v.waiting[k].piece = Nowhere
    OBVIOUS
  <2>1. w.piece = "none"
    BY DEF PieceToCome
  <2>. QED  BY <1>7, <2>1 DEF Meanwhile
<1>9. \A k \in 1..Len(q) : k \in 1..Len(v.waiting) \/ k = Len(v.waiting) + 1
  BY <1>1, <1>3
<1>. HIDE DEF e
<1>10. \A k \in 1..Len(q) : q[k].piece # Nowhere =>
          \/ k \in 1..Len(v.waiting) /\ v.waiting[k].piece # Nowhere /\ e.piece = Nowhere
          \/ k = Len(v.waiting) + 1 /\ e.piece # Nowhere
  BY <1>3, <1>8, <1>9
<1>11. PieceToCome(u)
  <2>1. ASSUME NEW k \in 1..Len(q), q[k].piece # Nowhere, NEW l \in 1..Len(q), q[l].piece # Nowhere
        PROVE  l = k /\ v.piece = "none"
    <3>1. CASE e.piece = Nowhere
      <4>1. /\ k \in 1..Len(v.waiting) /\ v.waiting[k].piece # Nowhere
            /\ l \in 1..Len(v.waiting) /\ v.waiting[l].piece # Nowhere
        BY <1>10, <2>1, <3>1
      <4>2. PieceToCome(v)
        BY DEF Meanwhile
      <4>. QED  BY <4>1, <4>2 DEF PieceToCome
    <3>2. CASE e.piece # Nowhere
      BY <1>8, <1>10, <2>1, <3>2
    <3>. QED  BY <3>1, <3>2
  <2>. QED  BY <1>4, <2>1 DEF PieceToCome
<1>12. ClearedForGood(u)
  BY <1>4 DEF Meanwhile, ClearedForGood
<1>13. \A k \in 1..Len(u.waiting) : u.waiting[k].piece # Nowhere =>
          \E j \in 1..i : w.waiting[j].piece # Nowhere
  <2>. SUFFICES ASSUME NEW k \in 1..Len(q), q[k].piece # Nowhere
                PROVE  \E j \in 1..i : w.waiting[j].piece # Nowhere
    BY <1>4
  <2>1. CASE e.piece # Nowhere
    BY <1>1, <2>1 DEF e
  <2>2. CASE e.piece = Nowhere
    <3>1. k \in 1..Len(v.waiting) /\ v.waiting[k].piece # Nowhere
      BY <1>10, <2>2
    <3>. QED  BY <1>6, <3>1 DEF Meanwhile
  <2>. QED  BY <2>1, <2>2
<1>14. u.piece # w.piece => \E j \in 1..i : w.waiting[j].piece # Nowhere
  BY <1>4, <1>6 DEF Meanwhile
<1>15. /\ u.step = w.step /\ u.contact = w.contact /\ u.cleared = w.cleared
       /\ Len(w.placed) <= Len(u.placed)
       /\ Len(u.placed) = Len(w.placed) => u.lo = w.lo /\ u.hi = w.hi
  BY <1>4 DEF Meanwhile
<1>16. Meanwhile(w, u, i)
  BY <1>4, <1>11, <1>12, <1>13, <1>14, <1>15 DEF Meanwhile
<1>. QED  BY <1>5, <1>16

LEMMA MeanwhileFires ==
    ASSUME NEW w \in WorldType, NEW v, NEW i \in 1..Len(w.waiting), PieceToCome(w),
           Meanwhile(w, v, i - 1)
    PROVE  Meanwhile(w, FireEvent(v, w.waiting[i]), i)
<1>. DEFINE e == w.waiting[i]
            u == FireEvent(v, e)
<1>1. /\ v \in WorldType /\ w.waiting \in Seq(EventType) /\ Len(w.waiting) \in Nat /\ i \in Nat
      /\ Len(w.placed) \in Nat /\ v.placed \in Seq(PlacedType) /\ Len(v.placed) \in Nat
  <2>1. v \in WorldType
    BY DEF Meanwhile
  <2>2. i \in Nat /\ Len(w.waiting) \in Nat
    BY WorldIs
  <2>. QED  BY <2>1, <2>2, WorldIs
<1>2. e \in EventType
  BY <1>1
<1>. HIDE DEF e
<1>3. /\ u \in WorldType /\ u.waiting = v.waiting
      /\ \E p \in PlacedType : u.placed = Append(v.placed, p)
  BY <1>1, <1>2, FireEventIs
<1>4. /\ u.step = v.step /\ u.contact = v.contact /\ u.cleared = v.cleared
      /\ u.piece = IF e.piece = Nowhere THEN v.piece ELSE "live"
  BY <1>1, <1>2, FiringKeeps
<1>. HIDE DEF u
<1>5. Len(u.placed) = Len(v.placed) + 1
  BY <1>1, <1>3
<1>6. \A j \in 1..(i - 1) : j \in 1..i /\ j \in 1..Len(w.waiting) /\ j # i
  BY <1>1
<1>7. e.piece # Nowhere => \A j \in 1..(i - 1) : w.waiting[j].piece = Nowhere
  BY <1>6 DEF PieceToCome, e
<1>8. e.piece # Nowhere => v.piece = "none" /\ \A k \in 1..Len(v.waiting) : v.waiting[k].piece = Nowhere
  <2>. SUFFICES ASSUME e.piece # Nowhere
                PROVE  v.piece = "none" /\ \A k \in 1..Len(v.waiting) : v.waiting[k].piece = Nowhere
    OBVIOUS
  <2>1. w.piece = "none"
    BY DEF PieceToCome, e
  <2>. QED  BY <1>7, <2>1 DEF Meanwhile
<1>9. PieceToCome(v) /\ ClearedForGood(v) /\ Len(w.placed) <= Len(v.placed)
  BY DEF Meanwhile
<1>10. PieceToCome(u)
  <2>1. CASE e.piece = Nowhere
    BY <1>3, <1>4, <1>9, <2>1 DEF PieceToCome
  <2>2. CASE e.piece # Nowhere
    BY <1>3, <1>8, <2>2 DEF PieceToCome
  <2>. QED  BY <2>1, <2>2
<1>11. ClearedForGood(u)
  BY <1>4, <1>8, <1>9 DEF ClearedForGood
<1>12. \A k \in 1..Len(u.waiting) : u.waiting[k].piece # Nowhere =>
          \E j \in 1..i : w.waiting[j].piece # Nowhere
  BY <1>3, <1>6 DEF Meanwhile
<1>13. u.piece # w.piece => \E j \in 1..i : w.waiting[j].piece # Nowhere
  <2>1. CASE e.piece = Nowhere
    BY <1>4, <1>6, <2>1 DEF Meanwhile
  <2>2. CASE e.piece # Nowhere
    BY <1>1, <2>2 DEF e
  <2>. QED  BY <2>1, <2>2
<1>14. Len(w.placed) <= Len(u.placed) /\ Len(u.placed) # Len(w.placed)
  BY <1>1, <1>5, <1>9
<1>15. u.step = w.step /\ u.contact = w.contact /\ u.cleared = w.cleared
  BY <1>4 DEF Meanwhile
<1>16. Meanwhile(w, u, i)
  BY <1>3, <1>10, <1>11, <1>12, <1>13, <1>14, <1>15 DEF Meanwhile
<1>. QED  BY <1>16 DEF u, e

LEMMA MeanwhileAlways ==
    ASSUME NEW w \in WorldType, NEW f, FiredUpTo(w, f, Len(w.waiting)), PieceToCome(w), ClearedForGood(w)
    PROVE  \A i \in 0..Len(w.waiting) : Meanwhile(w, f[i], i)
<1>. DEFINE n == Len(w.waiting)
            G == {i \in 0..n : Meanwhile(w, f[i], i)}
<1>1. n \in Nat
  BY WorldIs
<1>2. ASSUME NEW i \in 0..n PROVE f[i] = FiredStep(w, f, i)
  BY DEF FiredUpTo
<1>. HIDE DEF n
<1>3. 0 \in G
  <2>1. 0 \in 0..n
    BY <1>1
  <2>. QED  BY <1>2, <2>1, MeanwhileInit DEF FiredStep
<1>4. ASSUME NEW i \in 1..n, i - 1 \in G PROVE i \in G
  <2>1. i \in 0..n /\ i # 0 /\ Meanwhile(w, f[i - 1], i - 1)
    BY <1>1, <1>4
  <2>2. f[i] = FireOrWait(f[i - 1], w.waiting[i])
    BY <1>2, <2>1 DEF FiredStep
  <2>3. Meanwhile(w, f[i], i)
    BY <2>1, <2>2, MeanwhileWaits, MeanwhileFires DEF FireOrWait, n
  <2>. QED  BY <2>1, <2>3
<1>. HIDE DEF G
<1>5. G \in SUBSET (0..n)
  BY DEF G
<1>6. G = 0..n
  BY <1>1, <1>3, <1>4, <1>5, HandedOn
<1>. QED  BY <1>6 DEF G, n

\* Between two blocks the piece may come, and an island with an event.
LEMMA AdvanceKeeps ==
    ASSUME NEW c, c.at \in Int, NEW w \in WorldType, PieceToCome(w), ClearedForGood(w)
    PROVE  LET v == AdvanceWorld(c, w) IN
           /\ v.step = w.step /\ v.contact = w.contact /\ v.cleared = w.cleared
           /\ Len(v.placed) = Len(w.placed) => v.lo = w.lo /\ v.hi = w.hi
           /\ PieceToCome(v) /\ ClearedForGood(v)
<1>. DEFINE u == ActivatePieces(c, w)
            v == AdvanceWorld(c, w)
<1>1. u \in WorldType /\ u.waiting = w.waiting /\ u.placed = w.placed
  BY PiecesActivate
<1>2. /\ u.step = w.step /\ u.contact = w.contact /\ u.cleared = w.cleared
      /\ u.lo = w.lo /\ u.hi = w.hi
      /\ u.piece = w.piece \/ w.piece = "pending"
  BY DEF ActivatePieces, MaterializedAt, WorldType
<1>3. v = IF u.waiting = <<>> THEN u ELSE FireEvents(u)
  BY DEF AdvanceWorld
<1>. HIDE DEF u, v
<1>4. PieceToCome(u) /\ ClearedForGood(u)
  BY <1>1, <1>2 DEF PieceToCome, ClearedForGood
<1>5. CASE u.waiting = <<>>
  BY <1>2, <1>3, <1>4, <1>5 DEF v
<1>6. CASE u.waiting # <<>>
  <2>1. Len(u.waiting) \in Nat
    BY <1>1, WorldIs
  <2>2. PICK f : FiredUpTo(u, f, Len(u.waiting)) /\ FireEvents(u) = f[Len(u.waiting)]
    BY <2>1, FireEventsIs
  <2>3. Meanwhile(u, v, Len(u.waiting))
    <3>1. Len(u.waiting) \in 0..Len(u.waiting)
      BY <2>1
    <3>2. \A i \in 0..Len(u.waiting) : Meanwhile(u, f[i], i)
      BY <1>1, <1>4, <2>2, MeanwhileAlways
    <3>. QED  BY <1>3, <1>6, <2>2, <3>1, <3>2
  <2>. QED  BY <1>1, <1>2, <2>3 DEF Meanwhile, v
<1>. QED  BY <1>5, <1>6

LEMMA DrivingKeeps ==
    ASSUME NEW c, NEW w \in WorldType, NEW d \in Int, w.step # Never, PieceToCome(w), ClearedForGood(w)
    PROVE  LET v == Driven(c, w, d) IN
           /\ v.step = w.step + 1 /\ v.lo = w.lo /\ v.hi = w.hi
           /\ v.contact = w.contact \/ (w.contact = Never /\ v.contact = w.step)
           /\ v.cleared = w.cleared \/ (w.cleared = Never /\ v.cleared = w.step)
           /\ PieceToCome(v) /\ ClearedForGood(v)
<1>. DEFINE moved == [w EXCEPT !.pos = @ + w.hd * d]
            left == [moved EXCEPT !.exits = @ \/ Outside(w, moved.pos) > 0]
            pushed == Push(c, left, w.pos, Sign(d))
            after == Contact(c, pushed, w.pos)
            Same(u) == /\ DOMAIN u = DOMAIN w /\ u.step = w.step /\ u.lo = w.lo /\ u.hi = w.hi
                       /\ u.waiting = w.waiting
<1>1. Same(left) /\ left.contact = w.contact /\ left.cleared = w.cleared /\ left.piece = w.piece
  BY DEF WorldType
<1>2. Driven(c, w, d) = [after EXCEPT !.step = @ + 1]
  BY DEF Driven
<1>. HIDE DEF left
<1>3. /\ Same(pushed)
      /\ \/ pushed.contact = w.contact /\ pushed.cleared = w.cleared /\ pushed.piece = w.piece
         \/ /\ w.piece = "live"
            /\ pushed.contact = (IF w.contact = Never THEN w.step ELSE w.contact)
            /\ \/ pushed.piece = "cleared" /\ pushed.cleared = w.step
               \/ pushed.piece = "live" /\ pushed.cleared = w.cleared
  <2>1. CASE ~Pushes(c, left, w.pos)
    BY <1>1, <2>1 DEF Push
  <2>2. CASE Pushes(c, left, w.pos)
    <3>. DEFINE x == PinnedAt(left, Sign(d))
                t == IF left.contact = Never THEN left.step ELSE left.contact
                k == IF IsCleared(c, left, x) THEN "cleared" ELSE left.piece
                m == IF IsCleared(c, left, x) THEN left.step ELSE left.cleared
    <3>1. pushed = [left EXCEPT !.px = x, !.contact = t, !.piece = k, !.cleared = m]
      BY <2>2 DEF Push
    <3>2. w.piece = "live"
      BY <1>1, <2>2 DEF Pushes
    <3>3. t = (IF w.contact = Never THEN w.step ELSE w.contact)
      BY <1>1
    <3>4. (k = "cleared" /\ m = w.step) \/ (k = "live" /\ m = w.cleared)
      BY <1>1, <3>2
    <3>. HIDE DEF x, t, k, m, pushed
    <3>5. Same(pushed) /\ pushed.contact = t /\ pushed.piece = k /\ pushed.cleared = m
      BY <1>1, <3>1 DEF WorldType
    <3>. QED  BY <3>2, <3>3, <3>4, <3>5
  <2>. QED  BY <2>1, <2>2
<1>. HIDE DEF pushed
<1>4. /\ Same(after) /\ after.cleared = pushed.cleared /\ after.piece = pushed.piece
      /\ after.contact = pushed.contact \/ (pushed.contact = Never /\ after.contact = w.step)
  BY <1>3 DEF Contact, WorldType
<1>. HIDE DEF after
<1>5. /\ Driven(c, w, d).step = w.step + 1 /\ Driven(c, w, d).lo = w.lo /\ Driven(c, w, d).hi = w.hi
      /\ Driven(c, w, d).waiting = w.waiting /\ Driven(c, w, d).piece = after.piece
      /\ Driven(c, w, d).contact = after.contact /\ Driven(c, w, d).cleared = after.cleared
  BY <1>2, <1>4 DEF WorldType
<1>6. w.piece = "live" => w.cleared = Never
  BY DEF ClearedForGood
<1>7. after.contact = w.contact \/ (w.contact = Never /\ after.contact = w.step)
  BY <1>3, <1>4
<1>8. after.cleared = w.cleared \/ (w.cleared = Never /\ after.cleared = w.step)
  BY <1>3, <1>4, <1>6
<1>9. PieceToCome(Driven(c, w, d))
  <2>1. after.piece = w.piece \/ w.piece = "live"
    BY <1>3, <1>4
  <2>. QED  BY <1>5, <2>1 DEF PieceToCome
<1>10. ClearedForGood(Driven(c, w, d))
  <2>1. after.cleared # Never => after.piece = "cleared" /\ after.contact # Never
    BY <1>3, <1>4, <1>6, <1>7 DEF ClearedForGood
  <2>. QED  BY <1>5, <2>1 DEF ClearedForGood
<1>. QED  BY <1>5, <1>7, <1>8, <1>9, <1>10
-----------------------------------------------------------------------------
(***************************************************************************)
(* A walk that goes on begins with the walk before.                        *)
(***************************************************************************)
LEMMA FlattenMore ==
    ASSUME NEW S, NEW ss \in Seq(Seq(S)), NEW t \in Seq(S)
    PROVE  FlattenSeq(Append(ss, t)) = FlattenSeq(ss) \o t
<1>. DEFINE n == Len(ss)
            tt == Append(ss, t)
            T == Seq(S)
<1>0. ss \in Seq(T) /\ t \in T
  OBVIOUS
<1>1. /\ n \in Nat /\ tt \in Seq(T) /\ Len(tt) = n + 1 /\ tt # <<>> /\ tt[n + 1] = t
      /\ \A i \in 1..n : tt[i] = ss[i] /\ i \in 1..(n + 1)
  <2>. HIDE DEF T
  <2>1. n \in Nat /\ tt \in Seq(T) /\ Len(tt) = n + 1 /\ tt[n + 1] = t /\ \A i \in 1..n : tt[i] = ss[i]
    BY <1>0
  <2>. HIDE DEF tt, n
  <2>. QED  BY <2>1
<1>. HIDE DEF tt
<1>2. PICK f : /\ FlattenSeq(tt) = f[n + 1]
               /\ \A i \in 1..(n + 1) : f[i] \in Seq(S) /\ f[i] = IF i = 1 THEN tt[i] ELSE f[i - 1] \o tt[i]
  <2>1. PICK f : /\ FlattenSeq(tt) = f[Len(tt)]
                 /\ \A i \in 1..Len(tt) : /\ f[i] \in Seq(S)
                                          /\ f[i] = IF i = 1 THEN tt[i] ELSE f[i - 1] \o tt[i]
    <3>1. tt \in Seq(Seq(S)) /\ tt # <<>>
      BY <1>1
    <3>. HIDE DEF T
    <3>. QED  BY <3>1, FlattenCourse
  <2>. QED  BY <1>1, <2>1
<1>3. n + 1 \in 1..(n + 1) /\ (n + 1) - 1 = n
  BY <1>1
<1>4. f[n + 1] = IF n + 1 = 1 THEN t ELSE f[n] \o t
  BY <1>1, <1>2, <1>3
<1>5. CASE n = 0
  <2>1. ss = <<>> /\ FlattenSeq(ss) = <<>>
    BY <1>5 DEF FlattenSeq
  <2>2. f[n + 1] = t
    BY <1>4, <1>5
  <2>3. <<>> \o t = t
    OBVIOUS
  <2>. QED  BY <1>2, <2>1, <2>2, <2>3 DEF tt
<1>6. CASE n # 0
  <2>1. ss # <<>>
    BY <1>6
  <2>2. PICK h : /\ FlattenSeq(ss) = h[n]
                 /\ \A i \in 1..n : h[i] \in Seq(S) /\ h[i] = IF i = 1 THEN ss[i] ELSE h[i - 1] \o ss[i]
    BY <2>1, FlattenCourse
  <2>. DEFINE G == {i \in 0..n : i # 0 => f[i] = h[i]}
  <2>. HIDE DEF n
  <2>3. 0 \in G
    BY <1>1
  <2>4. ASSUME NEW i \in 1..n, i - 1 \in G PROVE i \in G
    <3>1. i \in 0..n /\ i \in 1..(n + 1) /\ tt[i] = ss[i]
      BY <1>1
    <3>2. f[i] = IF i = 1 THEN tt[i] ELSE f[i - 1] \o tt[i]
      BY <1>2, <3>1
    <3>3. h[i] = IF i = 1 THEN ss[i] ELSE h[i - 1] \o ss[i]
      BY <2>2
    <3>4. i # 1 => i - 1 # 0
      BY <1>1
    <3>. QED  BY <2>4, <3>1, <3>2, <3>3, <3>4
  <2>. HIDE DEF G
  <2>5. G \in SUBSET (0..n)
    BY DEF G
  <2>6. G = 0..n
    BY <1>1, <2>3, <2>4, <2>5, HandedOn
  <2>7. n \in 0..n
    BY <1>1
  <2>8. f[n] = h[n]
    BY <1>6, <2>6, <2>7 DEF G
  <2>9. f[n + 1] = f[n] \o t
    BY <1>1, <1>4, <1>6
  <2>. QED  BY <1>2, <2>2, <2>8, <2>9 DEF tt
<1>. QED  BY <1>5, <1>6

LEMMA SegmentStarts ==
    ASSUME NEW a \in Spot, NEW b \in Spot
    PROVE  /\ Len(Segment(a, b)) \in Nat /\ Len(Segment(a, b)) >= 1
           /\ Segment(a, b)[1] = a
           /\ \A k \in 1..Len(Segment(a, b)) : Segment(a, b)[k].step = a.step
<1>. DEFINE n == Max({1, Apart(a.x, b.x)})
            s == Sign(b.x - a.x)
            at(k) == [step |-> a.step, x |-> a.x + s * (k - 1)]
            seg == Segment(a, b)
<1>1. a.x \in Int /\ b.x \in Int /\ a.step \in Int /\ b.x - a.x \in Int
  BY DEF Spot
<1>2. n \in Nat /\ n >= 1
  <2>1. Apart(a.x, b.x) \in Nat
    BY <1>1, ApartIs
  <2>. QED  BY <2>1, PairMax
<1>3. s \in {-1, 1}
  BY <1>1, SignIs
<1>4. seg = [k \in 1..n |-> at(k)]
  BY DEF Segment
<1>. HIDE DEF n, s
<1>5. at(1) = a
  <2>1. s * (1 - 1) = 0
    BY <1>3
  <2>2. a.x + s * (1 - 1) = a.x
    BY <1>1, <2>1
  <2>. QED  BY <2>2 DEF Spot
<1>6. \A k : at(k).step = a.step
  OBVIOUS
<1>. HIDE DEF at
<1>7. Len(seg) = n /\ \A k \in 1..n : seg[k] = at(k)
  BY <1>2, <1>4
<1>. HIDE DEF seg
<1>8. 1 \in 1..n
  BY <1>2
<1>. QED  BY <1>2, <1>5, <1>6, <1>7, <1>8 DEF seg

\* q goes on from p, with steps of s or t only.
GoesOn(p, q, s, t) ==
    /\ Len(p) <= Len(q)
    /\ \A i \in 1..Len(p) : q[i] = p[i]
    /\ \A i \in 1..Len(q) : i > Len(p) => q[i].step = s \/ q[i].step = t

LEMMA WalkMore ==
    ASSUME NEW points \in Seq(Spot), points # <<>>, NEW b \in Spot
    PROVE  GoesOn(WalkFrom(points), WalkFrom(Append(points, b)), points[Len(points)].step, b.step)
<1>. DEFINE n == Len(points) - 1
            leg(i) == Segment(points[i], points[i + 1])
            legs == [i \in 1..n |-> leg(i)]
            more == Append(points, b)
            leg2(i) == Segment(more[i], more[i + 1])
            legs2 == [i \in 1..(n + 1) |-> leg2(i)]
            a == points[Len(points)]
            seg == Segment(a, b)
            p == WalkFrom(points)
            q == WalkFrom(more)
<1>1. n \in Nat /\ Len(points) = n + 1 /\ a \in Spot /\ a = points[n + 1]
  OBVIOUS
<1>2. /\ more \in Seq(Spot) /\ Len(more) = n + 2 /\ more[n + 2] = b /\ more[n + 1] = a
      /\ \A i \in 1..n : more[i] = points[i] /\ more[i + 1] = points[i + 1]
  OBVIOUS
<1>3. ASSUME NEW i \in 1..n PROVE leg(i) \in Seq(Spot) /\ leg2(i) = leg(i)
  <2>1. points[i] \in Spot /\ points[i + 1] \in Spot
    OBVIOUS
  <2>2. more[i] = points[i] /\ more[i + 1] = points[i + 1]
    BY <1>2
  <2>. HIDE DEF more
  <2>. QED  BY <2>1, <2>2, SegmentIs
<1>4. p = FlattenSeq(legs) \o <<a>>
  BY DEF WalkFrom
<1>5. q = FlattenSeq(legs2) \o <<b>>
  <2>. HIDE DEF more, n
  <2>1. Len(more) - 1 = n + 1 /\ more[Len(more)] = b
    BY <1>1, <1>2
  <2>. QED  BY <2>1 DEF WalkFrom
<1>6. leg2(n + 1) = seg
  <2>. HIDE DEF more, n, a
  <2>1. (n + 1) + 1 = n + 2
    BY <1>1
  <2>. QED  BY <1>2, <2>1
<1>. HIDE DEF p, q, leg, leg2, a, more, n
<1>7. legs \in Seq(Seq(Spot)) /\ Len(legs) = n /\ \A i \in 1..n : legs[i] = leg(i)
  <2>1. legs \in [1..n -> Seq(Spot)]
    BY <1>3
  <2>. QED  BY <1>1, <2>1
<1>8. seg \in Seq(Spot)
  BY <1>1, SegmentIs
<1>. HIDE DEF seg
<1>9. legs2 = Append(legs, seg)
  <2>. DEFINE r == Append(legs, seg)
  <2>. HIDE DEF legs
  <2>1. /\ r \in Seq(Seq(Spot)) /\ Len(r) = n + 1 /\ r[n + 1] = seg
        /\ \A i \in 1..n : r[i] = legs[i]
    BY <1>1, <1>7, <1>8
  <2>2. ASSUME NEW i \in 1..(n + 1) PROVE r[i] = leg2(i)
    <3>1. i \in 1..n \/ i = n + 1
      BY <1>1
    <3>. HIDE DEF r
    <3>. QED  BY <1>3, <1>6, <1>7, <2>1, <3>1
  <2>. HIDE DEF r
  <2>3. r = [i \in 1..(n + 1) |-> r[i]]
    <3>. DEFINE T == Seq(Spot)
    <3>1. r \in Seq(T) /\ Len(r) = n + 1
      BY <2>1
    <3>. HIDE DEF T
    <3>. QED  BY <3>1
  <2>4. r = legs2
    BY <2>2, <2>3
  <2>. QED  BY <2>4 DEF r
<1>. HIDE DEF legs, legs2
<1>10. FlattenSeq(legs2) = FlattenSeq(legs) \o seg /\ FlattenSeq(legs) \in Seq(Spot)
  BY <1>7, <1>8, <1>9, FlattenMore, FlattenIs
<1>. DEFINE F == FlattenSeq(legs)
<1>11. p = F \o <<a>> /\ q = (F \o seg) \o <<b>> /\ F \in Seq(Spot)
  BY <1>4, <1>5, <1>10
<1>. HIDE DEF F
<1>12. /\ Len(seg) \in Nat /\ Len(seg) >= 1 /\ seg[1] = a
       /\ \A k \in 1..Len(seg) : seg[k].step = a.step
  BY <1>1, SegmentStarts DEF seg
<1>13. /\ Len(F) \in Nat /\ Len(p) = Len(F) + 1 /\ Len(q) = Len(F) + Len(seg) + 1
       /\ p[Len(F) + 1] = a /\ \A i \in 1..Len(F) : p[i] = F[i] /\ q[i] = F[i]
       /\ \A k \in 1..Len(seg) : q[Len(F) + k] = seg[k]
       /\ q[Len(F) + Len(seg) + 1] = b
  <2>1. /\ Len(F) \in Nat /\ Len(p) = Len(F) + 1 /\ p[Len(F) + 1] = a
        /\ \A i \in 1..Len(F) : p[i] = F[i]
    BY <1>1, <1>11
  <2>. DEFINE r == F \o seg
  <2>2. /\ r \in Seq(Spot) /\ Len(r) = Len(F) + Len(seg) /\ \A i \in 1..Len(F) : r[i] = F[i]
        /\ \A k \in 1..Len(seg) : r[Len(F) + k] = seg[k]
    BY <1>8, <1>11
  <2>3. q = r \o <<b>>
    BY <1>11
  <2>. HIDE DEF r
  <2>4. Len(q) = Len(r) + 1 /\ q[Len(r) + 1] = b /\ \A i \in 1..Len(r) : q[i] = r[i]
    BY <2>2, <2>3
  <2>5. \A i \in 1..Len(F) : i \in 1..Len(r)
    BY <1>12, <2>1, <2>2
  <2>6. \A k \in 1..Len(seg) : Len(F) + k \in 1..Len(r)
    BY <1>12, <2>1, <2>2
  <2>. QED  BY <2>1, <2>2, <2>4, <2>5, <2>6
<1>14. \A i \in 1..Len(p) : q[i] = p[i]
  <2>. TAKE i \in 1..Len(p)
  <2>1. i \in 1..Len(F) \/ i = Len(F) + 1
    BY <1>13
  <2>2. 1 \in 1..Len(seg)
    BY <1>12
  <2>. QED  BY <1>12, <1>13, <2>1, <2>2
<1>15. \A i \in 1..Len(q) : i > Len(p) => q[i].step = a.step \/ q[i].step = b.step
  <2>. SUFFICES ASSUME NEW i \in 1..Len(q), i > Len(p) PROVE q[i].step = a.step \/ q[i].step = b.step
    OBVIOUS
  <2>1. i = Len(F) + Len(seg) + 1 \/ i - Len(F) \in 1..Len(seg)
    <3>1. /\ Len(F) \in Nat /\ Len(seg) \in Nat /\ i \in Int
          /\ i <= Len(F) + Len(seg) + 1 /\ i > Len(F) + 1
      BY <1>12, <1>13
    <3>. QED  BY <3>1
  <2>2. CASE i = Len(F) + Len(seg) + 1
    BY <1>13, <2>2
  <2>3. CASE i - Len(F) \in 1..Len(seg)
    <3>1. Len(F) + (i - Len(F)) = i
      BY <1>13
    <3>2. q[i] = seg[i - Len(F)]
      BY <1>13, <2>3, <3>1
    <3>. QED  BY <1>12, <2>3, <3>2
  <2>. QED  BY <2>1, <2>2, <2>3
<1>16. Len(p) <= Len(q)
  BY <1>12, <1>13
<1>. QED  BY <1>14, <1>15, <1>16 DEF GoesOn, p, q, a, more

\* One more row.
LEMMA DenseMore ==
    ASSUME NEW run \in RunType, NEW run2, NEW row \in RowType, run.path # <<>>,
           run2.path = Append(run.path, row)
    PROVE  GoesOn(DenseSamples(run), DenseSamples(run2), run.path[Len(run.path)].step, row.step)
<1>. DEFINE o == [step |-> 0, x |-> 0]
            spot(p) == [step |-> p.step, x |-> p.x]
            rest == [i \in DOMAIN run.path |-> spot(run.path[i])]
            rest2 == [i \in DOMAIN run2.path |-> spot(run2.path[i])]
            n == Len(run.path)
<1>1. run.path \in Seq(RowType) /\ n \in Nat /\ n >= 1 /\ DOMAIN run.path = 1..n
      /\ \A i \in 1..n : run.path[i] \in RowType
  BY DEF RunType
<1>2. /\ DOMAIN run2.path = 1..(n + 1) /\ run2.path[n + 1] = row
      /\ \A i \in 1..n : run2.path[i] = run.path[i]
  BY <1>1
<1>3. o \in Spot
  BY DEF Spot
<1>4. ASSUME NEW p \in RowType PROVE spot(p) \in Spot /\ spot(p).step = p.step
  BY DEF RowType, Spot
<1>5. /\ DenseSamples(run) = WalkFrom(<<o>> \o rest)
      /\ DenseSamples(run2) = WalkFrom(<<o>> \o rest2)
  BY DEF DenseSamples
<1>. HIDE DEF spot, o, n
<1>6. rest \in Seq(Spot) /\ Len(rest) = n /\ rest[n] = spot(run.path[n])
  <2>1. rest \in [1..n -> Spot] /\ n \in 1..n
    BY <1>1, <1>4
  <2>. QED  BY <1>1, <2>1
<1>7. rest2 = Append(rest, spot(row))
  <2>. DEFINE r == Append(rest, spot(row))
  <2>1. /\ r \in Seq(Spot) /\ Len(r) = n + 1 /\ r[n + 1] = spot(row)
        /\ \A i \in 1..n : r[i] = rest[i]
    BY <1>1, <1>4, <1>6
  <2>2. ASSUME NEW i \in 1..(n + 1) PROVE r[i] = spot(run2.path[i])
    <3>1. i \in 1..n \/ i = n + 1
      BY <1>1
    <3>2. i \in 1..n => rest[i] = spot(run.path[i])
      BY <1>1
    <3>. HIDE DEF r, rest
    <3>. QED  BY <1>2, <2>1, <3>1, <3>2
  <2>3. r = [i \in 1..(n + 1) |-> r[i]]
    BY <2>1
  <2>. HIDE DEF r, rest
  <2>4. r = rest2
    BY <1>2, <2>2, <2>3
  <2>. QED  BY <2>4 DEF r
<1>. HIDE DEF rest, rest2
<1>. DEFINE points == <<o>> \o rest
<1>8. /\ points \in Seq(Spot) /\ points # <<>> /\ points[Len(points)] = rest[n]
      /\ <<o>> \o Append(rest, spot(row)) = Append(points, spot(row))
  <2>1. <<o>> \in Seq(Spot) /\ Len(<<o>>) = 1
    BY <1>3
  <2>2. spot(row) \in Spot
    BY <1>4
  <2>3. /\ points \in Seq(Spot) /\ Len(points) = n + 1 /\ points[n + 1] = rest[n]
    BY <1>1, <1>6, <2>1
  <2>4. points # <<>>
    BY <1>1, <2>3
  <2>5. <<o>> \o Append(rest, spot(row)) = Append(points, spot(row))
    BY <1>6, <2>1, <2>2
  <2>. QED  BY <2>3, <2>4, <2>5
<1>. HIDE DEF points
<1>9. spot(row) \in Spot /\ spot(row).step = row.step /\ rest[n].step = run.path[n].step
  BY <1>1, <1>4, <1>6
<1>10. DenseSamples(run) = WalkFrom(points) /\ DenseSamples(run2) = WalkFrom(Append(points, spot(row)))
  BY <1>5, <1>7, <1>8 DEF points
<1>. QED  BY <1>8, <1>9, <1>10, WalkMore DEF n
-----------------------------------------------------------------------------
(***************************************************************************)
(* The scans of a run that has failed do not see what comes after.         *)
(***************************************************************************)
\* The same world, and a longer walk.
Longer(run, run2, s, t) ==
    /\ run2.log = run.log /\ run2.shown = run.shown
    /\ run2.w.lo = run.w.lo /\ run2.w.hi = run.w.hi
    /\ GoesOn(DenseSamples(run), DenseSamples(run2), s, t)
    /\ run.path # <<>> /\ run2.path # <<>>

LEMMA ExitIs ==
    ASSUME NEW run \in RunType, ExitStep(run) # Never
    PROVE  LET walk == DenseSamples(run) IN
           /\ run.path # <<>>
           /\ \E m \in 1..Len(walk) :
                 /\ ExitStep(run) = walk[m].step
                 /\ Outside(run.w, walk[m].x) > Grace
                 /\ \A i \in 1..Len(walk) : Outside(run.w, walk[i].x) > Grace => m <= i
<1>. DEFINE walk == DenseSamples(run)
            out == {i \in DOMAIN walk : Outside(run.w, walk[i].x) > Grace}
<1>1. DOMAIN walk = 1..Len(walk) /\ Len(walk) \in Nat
  BY DenseIs
<1>2. run.path # <<>> /\ out # {} /\ ExitStep(run) = walk[Min(out)].step
  BY DEF ExitStep
<1>. HIDE DEF walk
<1>3. out \in SUBSET Nat
  BY <1>1
<1>4. Min(out) \in out /\ \A i \in out : Min(out) <= i
  <2>. HIDE DEF out
  <2>. QED  BY <1>2, <1>3, MinIs
<1>5. Min(out) \in 1..Len(walk) /\ Outside(run.w, walk[Min(out)].x) > Grace
  BY <1>1, <1>4
<1>6. \A i \in 1..Len(walk) : Outside(run.w, walk[i].x) > Grace => Min(out) <= i
  BY <1>1, <1>4
<1>. HIDE DEF out
<1>. QED  BY <1>2, <1>5, <1>6 DEF walk

LEMMA ExitSame ==
    ASSUME NEW run \in RunType, NEW run2 \in RunType, NEW s, NEW t, Longer(run, run2, s, t),
           ExitStep(run) # Never
    PROVE  ExitStep(run2) = ExitStep(run)
<1>. DEFINE walk == DenseSamples(run)
            walk2 == DenseSamples(run2)
            out == {i \in DOMAIN walk2 : Outside(run2.w, walk2[i].x) > Grace}
<1>1. /\ DOMAIN walk2 = 1..Len(walk2) /\ Len(walk2) \in Nat /\ Len(walk) \in Nat
  BY DenseIs
<1>2. ExitStep(run2) = IF out = {} THEN Never ELSE walk2[Min(out)].step
  BY DEF ExitStep, Longer
<1>3. PICK m \in 1..Len(walk) :
         /\ ExitStep(run) = walk[m].step
         /\ Outside(run.w, walk[m].x) > Grace
         /\ \A i \in 1..Len(walk) : Outside(run.w, walk[i].x) > Grace => m <= i
  BY ExitIs
<1>4. \A x : Outside(run2.w, x) = Outside(run.w, x)
  BY DEF Longer, Outside
<1>. HIDE DEF walk, walk2
<1>5. Len(walk) <= Len(walk2) /\ \A i \in 1..Len(walk) : walk2[i] = walk[i]
  BY DEF Longer, GoesOn, walk, walk2
<1>6. m \in out
  BY <1>1, <1>3, <1>4, <1>5
<1>7. \A i \in out : m <= i
  <2>. SUFFICES ASSUME NEW i \in out PROVE m <= i
    OBVIOUS
  <2>1. i \in 1..Len(walk2) /\ Outside(run.w, walk2[i].x) > Grace
    BY <1>1, <1>4
  <2>2. CASE i \in 1..Len(walk)
    BY <1>3, <1>5, <2>1, <2>2
  <2>3. CASE i \notin 1..Len(walk)
    BY <1>1, <1>3, <2>1, <2>3
  <2>. QED  BY <2>2, <2>3
<1>8. out \in SUBSET Nat /\ m \in Nat
  BY <1>1
<1>. HIDE DEF out
<1>9. Min(out) \in out /\ Min(out) <= m
  BY <1>6, <1>8, MinIs
<1>10. Min(out) = m
  <2>. DEFINE k == Min(out)
  <2>1. k \in Nat /\ m <= k /\ k <= m
    BY <1>7, <1>8, <1>9
  <2>. HIDE DEF k
  <2>2. k = m
    BY <1>8, <2>1
  <2>. QED  BY <2>2 DEF k
<1>. QED  BY <1>2, <1>3, <1>5, <1>6, <1>10

LEMMA OnsetSame ==
    ASSUME NEW run, NEW run2, NEW s, NEW t, Longer(run, run2, s, t)
    PROVE  Onset(run2) = Onset(run)
BY DEF Longer, Onset

LEMMA MeasuredMore ==
    ASSUME NEW run \in RunType, NEW run2 \in RunType, NEW s, NEW t, Longer(run, run2, s, t)
    PROVE  GoesOn(Measured(run, DenseSamples(run)), Measured(run2, DenseSamples(run2)), s, t)
<1>. DEFINE edges == Edges(run)
            walk == DenseSamples(run)
            walk2 == DenseSamples(run2)
            nearest(x) == CHOOSE e \in edges : \A f \in edges : Apart(x, e) <= Apart(x, f)
            sample(p) == [step |-> p.step, d |-> Apart(p.x, nearest(p.x)), inside |-> Outside(run.w, p.x) = 0]
            p == Measured(run, walk)
            q == Measured(run2, walk2)
<1>1. DOMAIN walk = 1..Len(walk) /\ DOMAIN walk2 = 1..Len(walk2) /\ Len(walk) \in Nat /\ Len(walk2) \in Nat
  BY DenseIs
<1>2. Edges(run2) = edges /\ \A x : Outside(run2.w, x) = Outside(run.w, x)
  BY DEF Longer, Edges, Outside
<1>3. p = [i \in DOMAIN walk |-> sample(walk[i])]
  BY DEF Measured
<1>4. q = [i \in DOMAIN walk2 |-> sample(walk2[i])]
  <2>. DEFINE r(z) == [step |-> z.step,
                       d |-> Apart(z.x, CHOOSE e \in Edges(run2) :
                                           \A f \in Edges(run2) : Apart(z.x, e) <= Apart(z.x, f)),
                       inside |-> Outside(run2.w, z.x) = 0]
  <2>1. q = [i \in DOMAIN walk2 |-> r(walk2[i])]
    BY DEF Measured
  <2>2. \A z : r(z) = sample(z)
    BY <1>2
  <2>. HIDE DEF r, sample, walk2, q
  <2>. QED  BY <2>1, <2>2
<1>5. \A z : sample(z).step = z.step
  OBVIOUS
<1>. HIDE DEF sample, p, q, walk, walk2
<1>6. /\ Len(p) = Len(walk) /\ \A i \in 1..Len(walk) : p[i] = sample(walk[i])
      /\ Len(q) = Len(walk2) /\ \A i \in 1..Len(walk2) : q[i] = sample(walk2[i])
  BY <1>1, <1>3, <1>4
<1>7. /\ Len(walk) <= Len(walk2) /\ \A i \in 1..Len(walk) : walk2[i] = walk[i]
      /\ \A i \in 1..Len(walk2) : i > Len(walk) => walk2[i].step = s \/ walk2[i].step = t
  BY DEF Longer, GoesOn, walk, walk2
<1>8. \A i \in 1..Len(walk) : i \in 1..Len(walk2)
  BY <1>1, <1>7
<1>9. GoesOn(p, q, s, t)
  BY <1>5, <1>6, <1>7, <1>8 DEF GoesOn
<1>. QED  BY <1>9 DEF p, q, walk, walk2

LEMMA WatchedSame ==
    ASSUME NEW run \in RunType, NEW run2 \in RunType, NEW s, NEW t, Longer(run, run2, s, t),
           ExitStep(run) # Never, ~(s <= ExitStep(run)), ~(t <= ExitStep(run))
    PROVE  Watched(run2) = Watched(run)
<1>. DEFINE p == Measured(run, DenseSamples(run))
            q == Measured(run2, DenseSamples(run2))
            n == Len(p)
            m == Len(q)
<1>1. n \in Nat /\ m \in Nat
  BY MeasuredIs
<1>2. n <= m /\ (\A i \in 1..n : q[i] = p[i])
      /\ \A i \in 1..m : i > n => q[i].step = s \/ q[i].step = t
  BY MeasuredMore DEF GoesOn
<1>3. run.path # <<>> /\ run2.path # <<>>
  BY DEF Longer
<1>4. PICK F : /\ Watched(run) = F[n] /\ F[0] = <<>>
               /\ \A i \in 1..n : F[i] = KeepStep(run, F[i - 1], p[i])
  BY <1>3, WatchedCourse
<1>5. PICK H : /\ Watched(run2) = H[m] /\ H[0] = <<>>
               /\ \A i \in 1..m : H[i] = KeepStep(run2, H[i - 1], q[i])
  BY <1>3, WatchedCourse
<1>6. \A z : Counts(run2, z) <=> Counts(run, z)
  BY ExitSame, OnsetSame DEF Counts
<1>7. \A z, k : KeepStep(run2, k, z) = KeepStep(run, k, z)
  BY <1>6 DEF KeepStep
<1>8. \A z, k : z.step = s \/ z.step = t => KeepStep(run, k, z) = k
  BY DEF KeepStep, Counts
<1>. HIDE DEF p, q, n, m
<1>. DEFINE G == {i \in 0..m : H[i] = F[IF i <= n THEN i ELSE n]}
<1>9. 0 \in G
  BY <1>1, <1>4, <1>5
<1>10. ASSUME NEW i \in 1..m, i - 1 \in G PROVE i \in G
  <2>1. i \in 0..m /\ i \in Nat /\ H[i] = KeepStep(run, H[i - 1], q[i])
    BY <1>1, <1>5, <1>7
  <2>2. CASE i <= n
    <3>1. i \in 1..n /\ i - 1 <= n
      BY <1>1, <2>1, <2>2
    <3>2. H[i - 1] = F[i - 1]
      BY <1>10, <3>1
    <3>3. H[i] = F[i]
      BY <1>2, <1>4, <2>1, <3>1, <3>2
    <3>. QED  BY <2>1, <2>2, <3>3
  <2>3. CASE ~(i <= n)
    <3>1. i > n /\ (i - 1 <= n => i - 1 = n)
      BY <1>1, <2>1, <2>3
    <3>2. H[i - 1] = F[n]
      BY <1>10, <3>1
    <3>3. H[i] = H[i - 1]
      BY <1>2, <1>8, <2>1, <3>1
    <3>. QED  BY <2>1, <2>3, <3>2, <3>3
  <2>. QED  BY <2>2, <2>3
<1>. HIDE DEF G
<1>11. G \in SUBSET (0..m)
  BY DEF G
<1>12. G = 0..m
  BY <1>1, <1>9, <1>10, <1>11, HandedOn
<1>13. m \in 0..m /\ (m <= n => m = n)
  BY <1>1, <1>2
<1>14. H[m] = F[IF m <= n THEN m ELSE n]
  BY <1>12, <1>13 DEF G
<1>. QED  BY <1>4, <1>5, <1>13, <1>14

\* What the scans of the samples say.
LEMMA ScansSame ==
    ASSUME NEW run, NEW run2, Watched(run2) = Watched(run)
    PROVE  /\ Entries(run2) = Entries(run) /\ Corrective(run2) = Corrective(run)
           /\ EdgeSeams(run2) = EdgeSeams(run)
<1>1. EntryScan(run2) = EntryScan(run)
  BY DEF EntryScan
<1>. QED  BY <1>1 DEF Entries, Corrective, EdgeSeams
-----------------------------------------------------------------------------
(***************************************************************************)
(* One more step of a run that has failed.                                 *)
(***************************************************************************)
\* A row for each step.
Paced(run) ==
    run.w.step = Len(run.path) /\ \A i \in 1..Len(run.path) : run.path[i].step = i - 1

\* What was never before is now.
NowOrAsBefore(old, new, now) == new = old \/ (old = Never /\ new = now)

Onward(run, run2) ==
    /\ run2.log = run.log /\ run2.shown = run.shown
    /\ run2.w.lo = run.w.lo /\ run2.w.hi = run.w.hi
    /\ \/ run2.path = run.path
       \/ \E row \in RowType : row.step = Len(run.path) /\ run2.path = Append(run.path, row)
    /\ NowOrAsBefore(run.w.contact, run2.w.contact, Len(run.path))
    /\ NowOrAsBefore(run.w.cleared, run2.w.cleared, Len(run.path))
    /\ NowOrAsBefore(run.detect, run2.detect, Len(run.path))
    /\ run.w.cleared # Never => run.w.contact # Never

\* The robot failed before the last row.
Failed(run) ==
    /\ run \in RunType /\ Paced(run) /\ run.path # <<>>
    /\ ExitStep(run) # Never /\ run.path[Len(run.path)].step > ExitStep(run)

LEMMA FailedIs ==
    ASSUME NEW run, Failed(run)
    PROVE  /\ Len(run.path) \in Nat /\ Len(run.path) >= 1 /\ run.path \in Seq(RowType)
           /\ ExitStep(run) \in Int /\ ExitStep(run) < Len(run.path) - 1
           /\ \A k \in Int : InWindow(run, k) <=> k <= ExitStep(run)
           /\ ~InWindow(run, Len(run.path))
<1>1. run \in RunType /\ run.path # <<>> /\ ExitStep(run) # Never
  BY DEF Failed
<1>2. run.path \in Seq(RowType) /\ Len(run.path) \in Nat /\ Len(run.path) >= 1
  <2>1. run.path \in Seq(RowType)
    BY <1>1 DEF RunType
  <2>. QED  BY <1>1, <2>1
<1>3. ExitStep(run) \in Int
  <2>1. DenseSamples(run) \in Seq(Spot)
    BY <1>1, DenseIs
  <2>2. PICK m \in 1..Len(DenseSamples(run)) : ExitStep(run) = DenseSamples(run)[m].step
    BY <1>1, ExitIs
  <2>3. DenseSamples(run)[m] \in Spot
    BY <2>1
  <2>. QED  BY <2>2, <2>3 DEF Spot
<1>4. ExitStep(run) < Len(run.path) - 1
  <2>1. Len(run.path) \in 1..Len(run.path)
    BY <1>2
  <2>2. run.path[Len(run.path)].step = Len(run.path) - 1
    BY <2>1 DEF Failed, Paced
  <2>. QED  BY <1>2, <1>3, <2>2 DEF Failed
<1>5. \A k \in Int : InWindow(run, k) <=> k <= ExitStep(run)
  BY <1>1 DEF InWindow
<1>6. ~(Len(run.path) <= ExitStep(run))
  BY <1>2, <1>3, <1>4
<1>. QED  BY <1>2, <1>3, <1>4, <1>5, <1>6

LEMMA FailedGoesOn ==
    ASSUME NEW run, NEW run2 \in RunType, Failed(run), Onward(run, run2)
    PROVE  /\ ExitStep(run2) = ExitStep(run) /\ Onset(run2) = Onset(run)
           /\ Watched(run2) = Watched(run)
<1>. DEFINE n == Len(run.path)
            s == n - 1
<1>1. run \in RunType /\ run.path # <<>> /\ ExitStep(run) # Never
  BY DEF Failed
<1>2. n \in Nat /\ n >= 1 /\ run.path \in Seq(RowType) /\ ExitStep(run) \in Int /\ ExitStep(run) < n - 1
  BY FailedIs
<1>3. run.path[n].step = s
  <2>1. n \in 1..n
    BY <1>2
  <2>. QED  BY <2>1 DEF Failed, Paced
<1>4. ~(s <= ExitStep(run)) /\ ~(n <= ExitStep(run))
  BY <1>2
<1>5. GoesOn(DenseSamples(run), DenseSamples(run2), s, n) /\ run2.path # <<>>
  <2>1. CASE run2.path = run.path
    <3>1. DenseSamples(run2) = DenseSamples(run)
      BY <2>1 DEF DenseSamples
    <3>2. Len(DenseSamples(run)) \in Nat
      BY <1>1, DenseIs
    <3>3. \A i \in 1..Len(DenseSamples(run)) : ~(i > Len(DenseSamples(run)))
      BY <3>2
    <3>. QED  BY <1>1, <2>1, <3>1, <3>2, <3>3 DEF GoesOn
  <2>2. CASE \E row \in RowType : row.step = n /\ run2.path = Append(run.path, row)
    <3>1. PICK row \in RowType : row.step = n /\ run2.path = Append(run.path, row)
      BY <2>2
    <3>2. GoesOn(DenseSamples(run), DenseSamples(run2), run.path[n].step, row.step)
      BY <1>1, <3>1, DenseMore
    <3>3. run2.path # <<>>
      <4>1. Len(run2.path) = n + 1
        BY <1>2, <3>1
      <4>. QED  BY <1>2, <4>1
    <3>. QED  BY <1>3, <3>1, <3>2, <3>3
  <2>. QED  BY <2>1, <2>2 DEF Onward
<1>. HIDE DEF s, n
<1>6. Longer(run, run2, s, n)
  BY <1>1, <1>5 DEF Onward, Longer
<1>. QED  BY <1>1, <1>4, <1>6, ExitSame, OnsetSame, WatchedSame

-----------------------------------------------------------------------------
\* The seams.
LEMMA SeamsSame ==
    ASSUME NEW run, NEW run2 \in RunType, Failed(run), Onward(run, run2)
    PROVE  Seams(run2) = Seams(run)
<1>. DEFINE n == Len(run.path)
<1>1. ExitStep(run2) = ExitStep(run) /\ Onset(run2) = Onset(run) /\ EdgeSeams(run2) = EdgeSeams(run)
  BY FailedGoesOn, ScansSame
<1>2. ~InWindow(run, n) /\ n \in Nat /\ n >= 1 /\ run.path \in Seq(RowType)
  BY FailedIs
<1>3. \A k : InWindow(run2, k) <=> InWindow(run, k)
  BY <1>1 DEF InWindow
<1>4. \A kind, k : Seam(run2, kind, k) = Seam(run, kind, k)
  BY <1>3 DEF Seam
<1>5. \A kind : Seam(run, kind, n) = <<>> /\ Seam(run, kind, Never) = <<>>
  BY <1>2 DEF Seam
<1>6. \A kind, k : SinceOnset(run2, kind, k) = SinceOnset(run, kind, k)
  BY <1>1, <1>4 DEF SinceOnset
<1>7. \A kind : SinceOnset(run, kind, n) = <<>> /\ SinceOnset(run, kind, Never) = <<>>
  BY <1>5 DEF SinceOnset
<1>8. SinceOnset(run2, "acquire", run2.detect) = SinceOnset(run, "acquire", run.detect)
  BY <1>6, <1>7 DEF Onward, NowOrAsBefore
<1>9. SinceOnset(run2, "engage", run2.w.contact) = SinceOnset(run, "engage", run.w.contact)
  BY <1>6, <1>7 DEF Onward, NowOrAsBefore
<1>10. \A kind : Seam(run2, kind, run2.w.cleared) = Seam(run, kind, run.w.cleared)
  BY <1>4, <1>5 DEF Onward, NowOrAsBefore
<1>11. (IF run2.w.contact # Never THEN Seam(run2, "loss", run2.w.cleared) ELSE <<>>)
         = (IF run.w.contact # Never THEN Seam(run, "loss", run.w.cleared) ELSE <<>>)
  <2>1. CASE run2.w.contact = run.w.contact
    BY <1>10, <2>1
  <2>2. CASE run2.w.contact # run.w.contact
    <3>1. run.w.contact = Never /\ run.w.cleared = Never
      BY <2>2 DEF Onward, NowOrAsBefore
    <3>2. Seam(run2, "loss", run2.w.cleared) = <<>>
      BY <1>5, <1>10, <3>1
    <3>. QED  BY <3>1, <3>2
  <2>. QED  BY <2>1, <2>2
<1>12. RecoverySeams(run2) = RecoverySeams(run)
  <2>. DEFINE at(i) == IF run.log[i].edge = Nowhere THEN Seam(run, "recovery", run.log[i].step) ELSE <<>>
              at2(i) == IF run2.log[i].edge = Nowhere THEN Seam(run2, "recovery", run2.log[i].step) ELSE <<>>
  <2>1. run2.log = run.log
    BY DEF Onward
  <2>2. \A i : at2(i) = at(i)
    BY <1>4, <2>1
  <2>3. /\ RecoverySeams(run) = FlattenSeq([i \in DOMAIN run.log |-> at(i)])
        /\ RecoverySeams(run2) = FlattenSeq([i \in DOMAIN run2.log |-> at2(i)])
    BY DEF RecoverySeams
  <2>. HIDE DEF at, at2
  <2>4. [i \in DOMAIN run.log |-> at(i)] = [i \in DOMAIN run2.log |-> at2(i)]
    BY <2>1, <2>2
  <2>. QED  BY <2>3, <2>4
<1>13. run.path # <<>> /\ run2.path # <<>>
  <2>1. run.path # <<>>
    BY DEF Failed
  <2>2. ASSUME NEW row \in RowType, run2.path = Append(run.path, row) PROVE run2.path # <<>>
    <3>1. Len(run2.path) = n + 1
      BY <1>2, <2>2
    <3>. QED  BY <1>2, <3>1
  <2>. QED  BY <2>1, <2>2 DEF Onward
<1>. QED  BY <1>1, <1>8, <1>9, <1>10, <1>11, <1>12, <1>13 DEF Seams

-----------------------------------------------------------------------------
(***************************************************************************)
(* What was done after the piece was cleared.                              *)
(***************************************************************************)
LEMMA LeastSame ==
    ASSUME NEW A \in SUBSET Nat, NEW B \in SUBSET Nat, A # {}, A \subseteq B,
           \A b \in B : b \in A \/ \E a \in A : a <= b
    PROVE  Min(B) = Min(A)
<1>1. Min(A) \in A /\ \A a \in A : Min(A) <= a
  BY MinIs
<1>2. Min(B) \in B /\ \A b \in B : Min(B) <= b
  BY MinIs
<1>. DEFINE x == Min(A)
            y == Min(B)
<1>3. x \in Nat /\ y \in Nat /\ y <= x
  BY <1>1, <1>2
<1>4. x <= y
  <2>1. CASE y \in A
    BY <1>1, <2>1
  <2>2. CASE y \notin A
    <3>1. PICK a \in A : a <= y
      BY <1>2, <2>2
    <3>2. x <= a /\ a \in Nat
      BY <1>1
    <3>. HIDE DEF x, y
    <3>. QED  BY <1>3, <3>1, <3>2
  <2>. QED  BY <2>1, <2>2
<1>. HIDE DEF x, y
<1>5. x = y
  BY <1>3, <1>4
<1>. QED  BY <1>5 DEF x, y

\* The travel along the rows, summed up one by one.
LEMMA TravelCourse ==
    ASSUME NEW path, NEW from \in Nat, NEW to \in Nat, from <= to,
           \A i \in from..to : path[i].x \in Int
    PROVE  \E F : /\ Travel(path, from, to) = F[to - from] /\ F[0] = 0
                  /\ \A i \in 1..(to - from) :
                        F[i] = F[i - 1] + Apart(path[from + i].x, path[from + i - 1].x)
<1>. DEFINE seq == [k \in 1..(to - from) |-> from + k]
            n == Len(seq)
            add(i) == Apart(path[i].x, path[i - 1].x)
            At(f, i) == IF i = 0 THEN 0 ELSE f[i - 1] + add(seq[i])
            F == CHOOSE f : f = [i \in 0..n |-> At(f, i)]
<1>1. to - from \in Nat
  OBVIOUS
<1>2. n = to - from /\ \A i \in 1..n : seq[i] = from + i
  BY <1>1
<1>3. Travel(path, from, to) = F[n]
  BY DEF Travel, Scan
<1>4. ASSUME NEW i \in 1..n PROVE add(seq[i]) \in Int
  <2>1. from + i \in from..to /\ from + i - 1 \in from..to /\ seq[i] = from + i
    BY <1>1, <1>2
  <2>2. path[from + i].x \in Int /\ path[from + i - 1].x \in Int
    BY <2>1
  <2>. HIDE DEF seq
  <2>3. \A a \in Int, b \in Int : Apart(a, b) \in Int
    BY ApartIs
  <2>4. Apart(path[from + i].x, path[from + i - 1].x) \in Int
    BY <2>2, <2>3
  <2>. QED  BY <2>1, <2>4
<1>. DEFINE g == [p \in Int \X (1..n) |-> p[1] + add(seq[p[2]])]
<1>. HIDE DEF seq, n
<1>5. n \in Nat
  BY <1>1, <1>2
<1>6. StepsIn(Int, n, g) /\ \A q \in Int, i \in 1..n : g[<<q, i>>] = q + add(seq[i])
  <2>. HIDE DEF add
  <2>1. g \in [Int \X (1..n) -> Int]
    BY <1>4
  <2>. QED  BY <2>1 DEF StepsIn
<1>. HIDE DEF g, add
<1>7. PICK f : Course(Int, 0, n, g, f)
  <2>1. 0 \in Int
    OBVIOUS
  <2>. QED  BY <1>5, <1>6, <2>1, Iterates
<1>8. ASSUME NEW i \in 0..n PROVE f[i] = At(f, i)
  <2>1. CASE i = 0
    BY <1>7, <2>1 DEF Course
  <2>2. CASE i # 0
    <3>1. i \in 1..n /\ i - 1 \in 0..n
      BY <1>5, <2>2
    <3>2. f[i] = g[<<f[i - 1], i>>] /\ f[i - 1] \in Int
      BY <1>7, <3>1 DEF Course
    <3>. QED  BY <1>6, <2>2, <3>1, <3>2
  <2>. QED  BY <2>1, <2>2
<1>9. \E x : x = [i \in 0..n |-> At(x, i)]
  <2>1. f = [i \in 0..n |-> f[i]]
    BY <1>7 DEF Course
  <2>. HIDE DEF At
  <2>2. f = [i \in 0..n |-> At(f, i)]
    BY <1>8, <2>1
  <2>. QED  BY <2>2
<1>10. F = [i \in 0..n |-> At(F, i)]
  <2>. HIDE DEF At
  <2>. QED  BY <1>9
<1>. HIDE DEF F
<1>11. \A i \in 0..n : F[i] = At(F, i)
  <2>. DEFINE N(i) == At(F, i)
  <2>1. F = [i \in 0..n |-> N(i)]
    BY <1>10
  <2>. HIDE DEF N, At
  <2>2. \A i \in 0..n : F[i] = N(i)
    BY <2>1
  <2>. QED  BY <2>2 DEF N
<1>12. 0 \in 0..n /\ \A i \in 1..n : i \in 0..n /\ i # 0
  BY <1>5
<1>13. F[0] = 0 /\ \A i \in 1..n : F[i] = F[i - 1] + add(from + i)
  BY <1>2, <1>11, <1>12
<1>. QED  BY <1>2, <1>3, <1>13 DEF add

LEMMA TravelSame ==
    ASSUME NEW path, NEW path2, NEW from \in Nat, NEW to \in Nat, from <= to,
           \A i \in from..to : path[i].x \in Int /\ path2[i] = path[i]
    PROVE  Travel(path2, from, to) = Travel(path, from, to)
<1>. DEFINE n == to - from
            add(i) == Apart(path[from + i].x, path[from + i - 1].x)
            add2(i) == Apart(path2[from + i].x, path2[from + i - 1].x)
<1>1. n \in Nat
  OBVIOUS
<1>2. PICK F : /\ Travel(path, from, to) = F[n] /\ F[0] = 0
               /\ \A i \in 1..n : F[i] = F[i - 1] + add(i)
  BY TravelCourse
<1>3. PICK H : /\ Travel(path2, from, to) = H[n] /\ H[0] = 0
               /\ \A i \in 1..n : H[i] = H[i - 1] + add2(i)
  <2>1. \A i \in from..to : path2[i].x \in Int
    OBVIOUS
  <2>. QED  BY <2>1, TravelCourse
<1>4. ASSUME NEW i \in 1..n PROVE add2(i) = add(i)
  <2>1. from + i \in from..to /\ from + i - 1 \in from..to
    OBVIOUS
  <2>2. path2[from + i] = path[from + i] /\ path2[from + i - 1] = path[from + i - 1]
    BY <2>1
  <2>. QED  BY <2>2
<1>. DEFINE G == {i \in 0..n : H[i] = F[i]}
<1>. HIDE DEF n, add, add2
<1>5. 0 \in G
  BY <1>1, <1>2, <1>3
<1>6. ASSUME NEW i \in 1..n, i - 1 \in G PROVE i \in G
  <2>1. i \in 0..n /\ H[i - 1] = F[i - 1]
    BY <1>1, <1>6
  <2>. QED  BY <1>2, <1>3, <1>4, <2>1
<1>. HIDE DEF G
<1>7. G \in SUBSET (0..n)
  BY DEF G
<1>8. G = 0..n
  BY <1>1, <1>5, <1>6, <1>7, HandedOn
<1>9. n \in G
  BY <1>1, <1>8
<1>. QED  BY <1>2, <1>3, <1>9 DEF G
-----------------------------------------------------------------------------
\* The rows of a run that goes on.
LEMMA RowsOn ==
    ASSUME NEW run, NEW run2 \in RunType, Failed(run), Onward(run, run2)
    PROVE  LET n == Len(run.path) IN
           /\ DOMAIN run.path = 1..n
           /\ \/ DOMAIN run2.path = 1..n /\ Len(run2.path) = n
              \/ DOMAIN run2.path = 1..(n + 1) /\ Len(run2.path) = n + 1 /\ run2.path[n + 1].step = n
           /\ \A i \in 1..n : /\ run2.path[i] = run.path[i] /\ run.path[i].step = i - 1
                              /\ run.path[i].x \in Int
<1>. DEFINE n == Len(run.path)
<1>1. n \in Nat /\ run.path \in Seq(RowType)
  BY FailedIs
<1>2. DOMAIN run.path = 1..n /\ \A i \in 1..n : run.path[i].step = i - 1 /\ run.path[i].x \in Int
  <2>1. \A i \in 1..n : run.path[i] \in RowType
    BY <1>1
  <2>2. \A r \in RowType : r.x \in Int
    BY DEF RowType
  <2>. QED  BY <1>1, <2>1, <2>2 DEF Failed, Paced
<1>3. CASE run2.path = run.path
  BY <1>2, <1>3
<1>4. ASSUME NEW row \in RowType, row.step = n, run2.path = Append(run.path, row)
      PROVE  /\ DOMAIN run2.path = 1..(n + 1) /\ Len(run2.path) = n + 1 /\ run2.path[n + 1].step = n
             /\ \A i \in 1..n : run2.path[i] = run.path[i]
  <2>1. /\ DOMAIN run2.path = 1..(n + 1) /\ Len(run2.path) = n + 1 /\ run2.path[n + 1] = row
        /\ \A i \in 1..n : run2.path[i] = run.path[i]
    BY <1>1, <1>4
  <2>. QED  BY <1>4, <2>1
<1>. QED  BY <1>2, <1>3, <1>4 DEF Onward

LEMMA WindowSame ==
    ASSUME NEW run, NEW run2 \in RunType, Failed(run), Onward(run, run2)
    PROVE  /\ WindowEnd(run2) = WindowEnd(run) /\ WindowEnd(run) \in Nat
           /\ WindowEnd(run) <= Len(run.path) \/ WindowEnd(run) = 2
<1>. DEFINE n == Len(run.path)
            past == {i \in DOMAIN run.path : ~InWindow(run, run.path[i].step)}
            past2 == {i \in DOMAIN run2.path : ~InWindow(run2, run2.path[i].step)}
<1>1. /\ n \in Nat /\ n >= 1 /\ ExitStep(run) \in Int /\ ExitStep(run) < n - 1
      /\ \A k \in Int : InWindow(run, k) <=> k <= ExitStep(run)
      /\ ~InWindow(run, n)
  BY FailedIs
<1>2. \A k : InWindow(run2, k) <=> InWindow(run, k)
  BY FailedGoesOn DEF InWindow
<1>3. /\ DOMAIN run.path = 1..n
      /\ \/ DOMAIN run2.path = 1..n
         \/ DOMAIN run2.path = 1..(n + 1)
      /\ \A i \in 1..n : run2.path[i] = run.path[i] /\ run.path[i].step = i - 1
  BY RowsOn
<1>. HIDE DEF n
<1>4. n \in past
  <2>1. n \in 1..n /\ run.path[n].step = n - 1
    BY <1>1, <1>3
  <2>2. ~InWindow(run, n - 1)
    BY <1>1
  <2>. QED  BY <1>3, <2>1, <2>2
<1>5. past \in SUBSET Nat /\ past2 \in SUBSET Nat /\ past \subseteq past2
  <2>1. past \in SUBSET Nat /\ past2 \in SUBSET Nat
    BY <1>1, <1>3
  <2>2. ASSUME NEW i \in past PROVE i \in past2
    <3>1. i \in 1..n /\ ~InWindow(run, run.path[i].step)
      BY <1>3
    <3>2. i \in DOMAIN run2.path /\ run2.path[i] = run.path[i]
      BY <1>1, <1>3, <3>1
    <3>. QED  BY <1>2, <3>1, <3>2
  <2>. QED  BY <2>1, <2>2
<1>6. \A b \in past2 : b \in past \/ \E a \in past : a <= b
  <2>. SUFFICES ASSUME NEW b \in past2 PROVE b \in past \/ \E a \in past : a <= b
    OBVIOUS
  <2>1. b \in 1..n \/ b = n + 1
    BY <1>1, <1>3
  <2>2. CASE b \in 1..n
    <3>1. ~InWindow(run2, run2.path[b].step) /\ run2.path[b] = run.path[b]
      BY <1>3, <2>2
    <3>. QED  BY <1>2, <1>3, <2>2, <3>1
  <2>3. CASE b = n + 1
    <3>1. n <= b
      BY <1>1, <2>3
    <3>. HIDE DEF past
    <3>. QED  BY <1>4, <3>1
  <2>. QED  BY <2>1, <2>2, <2>3
<1>7. WindowEnd(run) = IF past = {} THEN Len(run.path) + 1 ELSE Max({2, Min(past)})
  BY DEF WindowEnd
<1>8. WindowEnd(run2) = IF past2 = {} THEN Len(run2.path) + 1 ELSE Max({2, Min(past2)})
  BY DEF WindowEnd
<1>. HIDE DEF past, past2
<1>9. Min(past2) = Min(past) /\ past # {} /\ past2 # {}
  <2>1. past # {} /\ past2 # {}
    BY <1>4, <1>5
  <2>. QED  BY <1>5, <1>6, <2>1, LeastSame
<1>10. Min(past) \in Nat /\ Min(past) <= n
  BY <1>4, <1>5, MinIs
<1>11. Max({2, Min(past)}) = IF 2 <= Min(past) THEN Min(past) ELSE 2
  BY <1>10, PairMax
<1>12. WindowEnd(run) = IF 2 <= Min(past) THEN Min(past) ELSE 2
  BY <1>7, <1>9, <1>11
<1>13. WindowEnd(run2) = WindowEnd(run)
  BY <1>7, <1>8, <1>9
<1>14. WindowEnd(run) \in Nat /\ (WindowEnd(run) <= n \/ WindowEnd(run) = 2)
  BY <1>10, <1>12
<1>. QED  BY <1>13, <1>14 DEF n

LEMMA IndexSame ==
    ASSUME NEW run, NEW run2 \in RunType, Failed(run), Onward(run, run2),
           NEW k \in Int, InWindow(run, k)
    PROVE  /\ IndexAt(run2.path, k) = IndexAt(run.path, k)
           /\ IndexAt(run.path, k) \in 1..Len(run.path)
<1>. DEFINE n == Len(run.path)
            at == {i \in DOMAIN run.path : run.path[i].step >= k}
            at2 == {i \in DOMAIN run2.path : run2.path[i].step >= k}
<1>1. n \in Nat /\ n >= 1 /\ ExitStep(run) \in Int /\ ExitStep(run) < n - 1 /\ k <= ExitStep(run)
  BY FailedIs
<1>2. /\ DOMAIN run.path = 1..n
      /\ \/ DOMAIN run2.path = 1..n
         \/ DOMAIN run2.path = 1..(n + 1)
      /\ \A i \in 1..n : run2.path[i] = run.path[i] /\ run.path[i].step = i - 1
  BY RowsOn
<1>3. IndexAt(run.path, k) = IF at = {} THEN Never ELSE Min(at)
  BY DEF IndexAt
<1>4. IndexAt(run2.path, k) = IF at2 = {} THEN Never ELSE Min(at2)
  BY DEF IndexAt
<1>. HIDE DEF n
<1>5. n \in at
  <2>1. n \in 1..n /\ run.path[n].step = n - 1
    BY <1>1, <1>2
  <2>2. n - 1 >= k
    BY <1>1
  <2>. QED  BY <1>2, <2>1, <2>2
<1>6. at \in SUBSET Nat /\ at2 \in SUBSET Nat /\ at \subseteq at2
  <2>1. at \in SUBSET Nat /\ at2 \in SUBSET Nat
    BY <1>1, <1>2
  <2>2. ASSUME NEW i \in at PROVE i \in at2
    <3>1. i \in 1..n /\ run.path[i].step >= k
      BY <1>2
    <3>2. i \in DOMAIN run2.path /\ run2.path[i] = run.path[i]
      BY <1>1, <1>2, <3>1
    <3>. QED  BY <3>1, <3>2
  <2>. QED  BY <2>1, <2>2
<1>7. \A b \in at2 : b \in at \/ \E a \in at : a <= b
  <2>. SUFFICES ASSUME NEW b \in at2 PROVE b \in at \/ \E a \in at : a <= b
    OBVIOUS
  <2>1. b \in 1..n \/ b = n + 1
    BY <1>1, <1>2
  <2>2. CASE b \in 1..n
    BY <1>2, <2>2
  <2>3. CASE b = n + 1
    <3>1. n <= b
      BY <1>1, <2>3
    <3>. HIDE DEF at
    <3>. QED  BY <1>5, <3>1
  <2>. QED  BY <2>1, <2>2, <2>3
<1>8. at \subseteq 1..n
  BY <1>2
<1>. HIDE DEF at, at2
<1>9. Min(at2) = Min(at) /\ at # {} /\ at2 # {}
  <2>1. at # {} /\ at2 # {}
    BY <1>5, <1>6
  <2>. QED  BY <1>6, <1>7, <2>1, LeastSame
<1>10. Min(at) \in at
  BY <1>6, <1>9, MinIs
<1>. QED  BY <1>3, <1>4, <1>8, <1>9, <1>10 DEF n

LEMMA CompletionSame ==
    ASSUME NEW run, NEW run2 \in RunType, Failed(run), Onward(run, run2)
    PROVE  CompletionTriggered(run2) = CompletionTriggered(run)
<1>. DEFINE n == Len(run.path)
            Start(r) == IF r.w.cleared # Never /\ InWindow(r, r.w.cleared)
                        THEN IndexAt(r.path, r.w.cleared) ELSE Never
            Turns(r) == {i \in Max({Start(r), 2})..WindowEnd(r) - 1 : Changes(r.path, i)}
            Told(r) == IF Start(r) = Never \/ Turns(r) = {} THEN ""
                       ELSE IF Travel(r.path, Start(r), Min(Turns(r))) <= ClearBar THEN "True" ELSE "False"
            from == Start(run)
            turns == Turns(run)
<1>1. \A r : CompletionTriggered(r) = Told(r)
  BY DEF CompletionTriggered
<1>2. /\ n \in Nat /\ n >= 1 /\ ~InWindow(run, n) /\ ~InWindow(run2, n)
      /\ \A k : InWindow(run2, k) <=> InWindow(run, k)
  <2>1. n \in Nat /\ n >= 1 /\ ~InWindow(run, n)
    BY FailedIs
  <2>2. \A k : InWindow(run2, k) <=> InWindow(run, k)
    BY FailedGoesOn DEF InWindow
  <2>. QED  BY <2>1, <2>2
<1>3. run.w.cleared \in Int
  BY DEF Failed, RunType, WorldType
<1>4. Start(run2) = from /\ (from # Never => from \in 1..n)
  <2>1. CASE run2.w.cleared = run.w.cleared
    <3>1. CASE run.w.cleared # Never /\ InWindow(run, run.w.cleared)
      BY <1>2, <1>3, <2>1, <3>1, IndexSame
    <3>2. CASE ~(run.w.cleared # Never /\ InWindow(run, run.w.cleared))
      BY <1>2, <2>1, <3>2
    <3>. QED  BY <3>1, <3>2
  <2>2. CASE run2.w.cleared # run.w.cleared
    <3>1. run.w.cleared = Never /\ run2.w.cleared = n
      BY <2>2 DEF Onward, NowOrAsBefore
    <3>. QED  BY <1>2, <3>1
  <2>. QED  BY <2>1, <2>2
<1>5. /\ WindowEnd(run2) = WindowEnd(run) /\ WindowEnd(run) \in Nat
      /\ WindowEnd(run) <= n \/ WindowEnd(run) = 2
  BY WindowSame
<1>6. CASE from = Never
  BY <1>1, <1>4, <1>6
<1>7. CASE from # Never
  <2>1. from \in 1..n /\ from \in Nat
    BY <1>2, <1>4, <1>7
  <2>. HIDE DEF Start, Turns, n
  <2>. DEFINE low == Max({from, 2})
  <2>2. low \in Nat /\ low >= 2 /\ low >= from
    <3>1. low = IF from <= 2 THEN 2 ELSE from
      BY <2>1, PairMax
    <3>. HIDE DEF low, from
    <3>. QED  BY <2>1, <3>1
  <2>3. /\ Turns(run) = {i \in low..WindowEnd(run) - 1 : Changes(run.path, i)}
        /\ Turns(run2) = {i \in low..WindowEnd(run) - 1 : Changes(run2.path, i)}
    BY <1>4, <1>5 DEF Turns
  <2>. HIDE DEF low, from
  <2>4. ASSUME NEW i \in low..WindowEnd(run) - 1
        PROVE  i \in Nat /\ i >= 2 /\ i <= n - 1 /\ from <= i /\ (Changes(run2.path, i) <=> Changes(run.path, i))
    <3>1. i \in Nat /\ i >= 2 /\ from <= i /\ i <= WindowEnd(run) - 1
      BY <1>5, <2>1, <2>2
    <3>2. i <= n - 1
      BY <1>2, <1>5, <3>1
    <3>3. i \in 1..n /\ i - 1 \in 1..n /\ i + 1 \in 1..n /\ i < n
      BY <1>2, <3>1, <3>2
    <3>4. /\ run2.path[i] = run.path[i] /\ run2.path[i - 1] = run.path[i - 1]
          /\ run2.path[i + 1] = run.path[i + 1] /\ (Len(run2.path) = n \/ Len(run2.path) = n + 1)
      BY <3>3, RowsOn DEF n
    <3>5. i < Len(run2.path) /\ i < Len(run.path)
      BY <1>2, <3>3, <3>4 DEF n
    <3>6. Changes(run2.path, i) <=> Changes(run.path, i)
      BY <3>4, <3>5 DEF Changes
    <3>. QED  BY <3>1, <3>2, <3>6
  <2>5. Turns(run2) = Turns(run)
    BY <2>3, <2>4
  <2>6. CASE turns = {}
    BY <1>1, <1>4, <2>5, <2>6
  <2>7. CASE turns # {}
    <3>. DEFINE to == Min(turns)
    <3>1. turns \in SUBSET Nat
      BY <2>3, <2>4
    <3>2. to \in turns
      BY <2>7, <3>1, MinIs
    <3>3. to \in Nat /\ from <= to /\ to <= n - 1
      BY <2>3, <2>4, <3>2
    <3>. HIDE DEF to, turns
    <3>4. \A i \in from..to : run.path[i].x \in Int /\ run2.path[i] = run.path[i]
      <4>1. \A i \in from..to : i \in 1..n
        BY <1>2, <2>1, <3>3
      <4>. QED  BY <4>1, RowsOn DEF n
    <3>5. Travel(run2.path, from, to) = Travel(run.path, from, to)
      BY <2>1, <3>3, <3>4, TravelSame
    <3>6. Start(run2) = from /\ Start(run) = from /\ Turns(run) = turns /\ Turns(run2) = turns
      BY <1>4, <2>5 DEF from, turns
    <3>7. Told(run2) = Told(run)
      BY <3>5, <3>6 DEF to
    <3>. QED  BY <1>1, <3>7
  <2>. QED  BY <2>6, <2>7
<1>. QED  BY <1>6, <1>7

\* Nothing it does changes the evidence.
LEMMA EvidenceSame ==
    ASSUME NEW run, NEW run2 \in RunType, Failed(run), Onward(run, run2)
    PROVE  Evidence(run2) = Evidence(run)
<1>1. Watched(run2) = Watched(run)
  BY FailedGoesOn
<1>. QED  BY <1>1, ScansSame, SeamsSame, CompletionSame DEF Evidence
-----------------------------------------------------------------------------
(***************************************************************************)
(* Every run is paced, and its piece cleared at most once.                 *)
(***************************************************************************)
SteadyRun(run) == Paced(run) /\ PieceToCome(run.w) /\ ClearedForGood(run.w)
Steady == Typed /\ SteadyRun(sim) /\ \A i \in 1..Len(todo) : OnePiece(todo[i])

LEMMA StartsSteady ==
    ASSUME NEW c \in CardType, OnePiece(c), NEW step \in Int
    PROVE  SteadyRun(Started(c, step))
<1>. DEFINE new(e) == IF e.after = "" THEN [e EXCEPT !.at = step] ELSE e
            r == Resolved(c, step)
            w == ScenarioWorld(r)
            run == Started(c, step)
            es == [i \in DOMAIN c.events |-> new(c.events[i])]
<1>1. c.events \in Seq(EventType) /\ DOMAIN c.events = 1..Len(c.events) /\ Len(c.events) \in Nat
  BY DEF CardType
<1>2. ASSUME NEW e \in EventType PROVE new(e).piece = e.piece
  BY DEF EventType
<1>3. r = [c EXCEPT !.events = es]
  BY DEF Resolved
<1>. HIDE DEF new, r
<1>4. /\ Len(es) = Len(c.events) /\ \A i \in 1..Len(c.events) : es[i].piece = c.events[i].piece
  <2>1. \A i \in 1..Len(c.events) : es[i] = new(c.events[i]) /\ c.events[i] \in EventType
    BY <1>1
  <2>2. Len(es) = Len(c.events)
    BY <1>1
  <2>. QED  BY <1>2, <2>1, <2>2
<1>. HIDE DEF es
<1>5. r.events = es /\ r.at = c.at /\ r.late = c.late
  BY <1>3 DEF CardType
<1>6. /\ w.step = 0 /\ w.contact = Never /\ w.cleared = Never /\ w.waiting = r.events
      /\ w.piece = IF r.at = Nowhere THEN "none" ELSE IF r.late > 0 THEN "pending" ELSE "live"
  BY DEF ScenarioWorld, NewWorld
<1>7. run.w = w /\ run.path = <<>>
  BY DEF Started, r
<1>. HIDE DEF w, run
<1>8. PieceToCome(w)
  <2>. SUFFICES ASSUME NEW i \in 1..Len(es), es[i].piece # Nowhere
                PROVE  w.piece = "none" /\ \A j \in 1..Len(es) : es[j].piece # Nowhere => j = i
    BY <1>5, <1>6 DEF PieceToCome
  <2>1. i \in DOMAIN c.events /\ c.events[i].piece # Nowhere
    BY <1>1, <1>4
  <2>2. c.at = Nowhere /\ \A j \in DOMAIN c.events : c.events[j].piece # Nowhere => j = i
    BY <2>1 DEF OnePiece
  <2>. QED  BY <1>1, <1>4, <1>5, <1>6, <2>2
<1>9. ClearedForGood(w)
  BY <1>6 DEF ClearedForGood
<1>10. Paced(run)
  <2>1. Len(run.path) = 0
    BY <1>7
  <2>. QED  BY <1>6, <1>7, <2>1 DEF Paced
<1>. QED  BY <1>7, <1>8, <1>9, <1>10 DEF SteadyRun, run

\* The end of a sequence, from the entry after the first n.
LEMMA TailFrom ==
    ASSUME NEW S, NEW s \in Seq(S), NEW n \in Nat, n <= Len(s)
    PROVE  /\ SubSeq(s, n + 1, Len(s)) \in Seq(S)
           /\ Len(SubSeq(s, n + 1, Len(s))) = Len(s) - n
<1>. DEFINE m == Len(s)
<1>1. m \in Nat
  OBVIOUS
<1>2. \A i \in (n + 1)..m : i \in 1..m
  BY <1>1
<1>3. SubSeq(s, n + 1, m) \in Seq(S)
  BY <1>1, <1>2
<1>4. Len(SubSeq(s, n + 1, m)) = IF n + 1 <= m THEN m - (n + 1) + 1 ELSE 0
  BY <1>1
<1>. QED  BY <1>1, <1>3, <1>4

LEMMA AdvancedOn ==
    ASSUME Steady, todo # <<>>
    PROVE  /\ Advanced \in RunType /\ Advanced.path = sim.path /\ Advanced.detect = sim.detect
           /\ SteadyRun(Advanced)
           /\ Advanced.w.contact = sim.w.contact /\ Advanced.w.cleared = sim.w.cleared
           /\ Advanced.log = sim.log => Advanced.w.lo = sim.w.lo /\ Advanced.w.hi = sim.w.hi
<1>. DEFINE v == AdvanceWorld(scenario, sim.w)
            n == Len(sim.w.placed)
            fired == SubSeq(v.placed, n + 1, Len(v.placed))
            new == [i \in DOMAIN fired |-> [step |-> v.step, id |-> fired[i].id, edge |-> fired[i].edge]]
            shown == IF sim.shown = Never /\ v.piece = "live" /\ sim.w.piece # "live"
                     THEN v.step ELSE sim.shown
<1>1. /\ Typed /\ sim \in RunType /\ sim.w \in WorldType /\ sim.log \in Seq(LogType)
      /\ Paced(sim) /\ PieceToCome(sim.w) /\ ClearedForGood(sim.w)
  BY DEF Steady, SteadyRun, Typed, RunType
<1>2. scenario \in CardType /\ scenario.at \in Int
  <2>1. scenario \in CardType
    BY <1>1 DEF Typed, scenario
  <2>. QED  BY <2>1, CardIs
<1>3. Advanced \in RunType /\ Advanced.path = sim.path
  BY <1>1, AdvancedIs
<1>4. /\ v.step = sim.w.step /\ v.contact = sim.w.contact /\ v.cleared = sim.w.cleared
      /\ Len(v.placed) = n => v.lo = sim.w.lo /\ v.hi = sim.w.hi
      /\ PieceToCome(v) /\ ClearedForGood(v)
  BY <1>1, <1>2, AdvanceKeeps
<1>5. v \in WorldType /\ n <= Len(v.placed) /\ n \in Nat
  <2>1. v \in WorldType /\ n <= Len(v.placed)
    BY <1>1, <1>2, WorldAdvances
  <2>. QED  BY <1>1, <2>1, WorldIs
<1>6. Advanced = [sim EXCEPT !.w = v, !.log = @ \o new, !.shown = shown]
  BY DEF Advanced
<1>. HIDE DEF v
<1>7. v.placed \in Seq(PlacedType) /\ Len(v.placed) \in Nat
  BY <1>5 DEF WorldType
<1>8. fired \in Seq(PlacedType) /\ Len(fired) = Len(v.placed) - n
  <2>. HIDE DEF n
  <2>. QED  BY <1>5, <1>7, TailFrom
<1>. HIDE DEF fired
<1>9. Len(new) = Len(fired) /\ new \in Seq(LogType)
  <2>0. fired \in Seq(PlacedType)
    BY <1>8
  <2>1. DOMAIN fired = 1..Len(fired) /\ Len(fired) \in Nat /\ \A i \in 1..Len(fired) : fired[i] \in PlacedType
    BY <2>0
  <2>2. v.step \in Int
    BY <1>5 DEF WorldType
  <2>3. ASSUME NEW p \in PlacedType PROVE [step |-> v.step, id |-> p.id, edge |-> p.edge] \in LogType
    BY <2>2 DEF PlacedType, LogType
  <2>4. new \in [1..Len(fired) -> LogType]
    BY <2>1, <2>3
  <2>. QED  BY <2>1, <2>4
<1>. HIDE DEF new, shown
<1>10. /\ Advanced.w = v /\ Advanced.log = sim.log \o new /\ Advanced.detect = sim.detect
  BY <1>1, <1>6 DEF RunType
<1>11. Advanced.log = sim.log => Len(v.placed) = n
  <2>. SUFFICES ASSUME sim.log \o new = sim.log PROVE Len(v.placed) = n
    BY <1>10
  <2>1. Len(sim.log \o new) = Len(sim.log) + Len(new) /\ Len(sim.log) \in Nat /\ Len(new) \in Nat
    BY <1>1, <1>9
  <2>2. Len(new) = 0
    BY <2>1
  <2>. QED  BY <1>5, <1>7, <1>8, <1>9, <2>2
<1>12. SteadyRun(Advanced)
  BY <1>1, <1>3, <1>4, <1>10 DEF SteadyRun, Paced
<1>. QED  BY <1>3, <1>4, <1>10, <1>11, <1>12

\* A block after the world has advanced.
LEMMA RanOn ==
    ASSUME Steady, todo # <<>>, NEW w \in WorldType, NEW pushed,
           sim' = Ran(Advanced, w, pushed),
           w.step = Advanced.w.step + 1, w.lo = Advanced.w.lo, w.hi = Advanced.w.hi,
           NowOrAsBefore(Advanced.w.contact, w.contact, Advanced.w.step),
           NowOrAsBefore(Advanced.w.cleared, w.cleared, Advanced.w.step),
           PieceToCome(w), ClearedForGood(w)
    PROVE  /\ SteadyRun(sim')
           /\ sim'.log = sim.log /\ sim'.shown = sim.shown => Onward(sim, sim')
<1>. DEFINE run == Advanced
            row == [step |-> run.w.step, x |-> w.pos, hd |-> w.hd]
            n == Len(sim.path)
<1>1. /\ run \in RunType /\ run.path = sim.path /\ run.detect = sim.detect /\ SteadyRun(run)
      /\ run.w.contact = sim.w.contact /\ run.w.cleared = sim.w.cleared
      /\ run.log = sim.log => run.w.lo = sim.w.lo /\ run.w.hi = sim.w.hi
  BY AdvancedOn
<1>2. sim' = [run EXCEPT !.w = w, !.shown = Shown(run, pushed), !.path = Append(@, row)]
  BY DEF Ran
<1>. HIDE DEF run, row
<1>3. run.path \in Seq(RowType) /\ n \in Nat /\ run.w \in WorldType
  BY <1>1 DEF RunType
<1>4. run.w.step = n /\ \A i \in 1..n : sim.path[i].step = i - 1
  BY <1>1 DEF SteadyRun, Paced
<1>5. /\ sim'.w = w /\ sim'.path = Append(sim.path, row) /\ sim'.log = run.log
      /\ sim'.detect = sim.detect
  BY <1>1, <1>2 DEF RunType
<1>6. row \in RowType /\ row.step = n
  <2>1. w.pos \in Int /\ w.hd \in {-1, 1} /\ run.w.step \in Int
    BY <1>3 DEF WorldType
  <2>. QED  BY <1>4, <2>1 DEF row, RowType
<1>7. Paced(sim')
  <2>1. /\ Len(sim'.path) = n + 1 /\ sim'.path[n + 1] = row
        /\ \A i \in 1..n : sim'.path[i] = sim.path[i]
    BY <1>1, <1>3, <1>5, <1>6
  <2>2. w.step = n + 1
    BY <1>4 DEF run
  <2>3. ASSUME NEW i \in 1..(n + 1) PROVE sim'.path[i].step = i - 1
    <3>1. n \in Nat
      BY <1>3
    <3>2. CASE i \in 1..n
      BY <1>4, <2>1, <3>2
    <3>3. CASE i = n + 1
      BY <1>6, <2>1, <3>1, <3>3
    <3>. QED  BY <3>1, <3>2, <3>3
  <2>. QED  BY <1>5, <2>1, <2>2, <2>3 DEF Paced
<1>8. SteadyRun(sim')
  BY <1>5, <1>7 DEF SteadyRun
<1>9. ASSUME sim'.log = sim.log, sim'.shown = sim.shown PROVE Onward(sim, sim')
  <2>1. sim'.w.lo = sim.w.lo /\ sim'.w.hi = sim.w.hi
    BY <1>1, <1>5, <1>9 DEF run
  <2>2. \E r \in RowType : r.step = n /\ sim'.path = Append(sim.path, r)
    BY <1>5, <1>6
  <2>3. /\ NowOrAsBefore(sim.w.contact, sim'.w.contact, n)
        /\ NowOrAsBefore(sim.w.cleared, sim'.w.cleared, n)
    BY <1>1, <1>4, <1>5 DEF run
  <2>4. NowOrAsBefore(sim.detect, sim'.detect, n)
    BY <1>5 DEF NowOrAsBefore
  <2>5. sim.w.cleared # Never => sim.w.contact # Never
    BY <1>1 DEF SteadyRun, ClearedForGood
  <2>. QED  BY <1>9, <2>1, <2>2, <2>3, <2>4, <2>5 DEF Onward
<1>. QED  BY <1>8, <1>9

LEMMA BlocksOn ==
    ASSUME Steady, (\E d \in Lengths : DriveFor(d)) \/ TurnAround \/ Sense
    PROVE  /\ SteadyRun(sim')
           /\ sim'.log = sim.log /\ sim'.shown = sim.shown => Onward(sim, sim')
<1>1. todo # <<>>
  BY DEF DriveFor, TurnAround, Sense, Running
<1>2. /\ Advanced \in RunType /\ Advanced.w \in WorldType /\ SteadyRun(Advanced)
      /\ Advanced.path = sim.path
  <2>1. Advanced \in RunType /\ SteadyRun(Advanced) /\ Advanced.path = sim.path
    BY <1>1, AdvancedOn
  <2>. QED  BY <2>1 DEF RunType
<1>3. /\ PieceToCome(Advanced.w) /\ ClearedForGood(Advanced.w)
      /\ Advanced.w.step \in Nat /\ Advanced.w.step = Len(sim.path)
  <2>1. sim.path \in Seq(RowType)
    BY DEF Steady, Typed, RunType
  <2>2. Len(sim.path) \in Nat
    BY <2>1
  <2>. QED  BY <1>2, <2>2 DEF SteadyRun, Paced
<1>4. ASSUME NEW d \in Lengths, DriveFor(d)
      PROVE  /\ SteadyRun(sim')
             /\ sim'.log = sim.log /\ sim'.shown = sim.shown => Onward(sim, sim')
  <2>. DEFINE u == Advanced.w
              w == Driven(scenario, u, d)
  <2>1. sim' = Ran(Advanced, w, Pushes(scenario, [u EXCEPT !.pos = w.pos], u.pos))
    BY <1>4 DEF DriveFor
  <2>2. d \in Int /\ u.step # Never
    BY <1>3, BatteryAssumption DEF Never
  <2>3. w \in WorldType
    BY <1>2, <2>2, DrivenIs
  <2>4. /\ w.step = u.step + 1 /\ w.lo = u.lo /\ w.hi = u.hi
        /\ w.contact = u.contact \/ (u.contact = Never /\ w.contact = u.step)
        /\ w.cleared = u.cleared \/ (u.cleared = Never /\ w.cleared = u.step)
        /\ PieceToCome(w) /\ ClearedForGood(w)
    BY <1>2, <1>3, <2>2, DrivingKeeps
  <2>. HIDE DEF w
  <2>5. /\ NowOrAsBefore(u.contact, w.contact, u.step)
        /\ NowOrAsBefore(u.cleared, w.cleared, u.step)
    BY <2>4 DEF NowOrAsBefore
  <2>. QED  BY <1>1, <2>1, <2>3, <2>4, <2>5, RanOn
<1>5. CASE TurnAround
  <2>. DEFINE u == Advanced.w
              w == Turned(u)
  <2>1. sim' = Ran(Advanced, w, FALSE)
    BY <1>5 DEF TurnAround
  <2>2. w \in WorldType /\ w.waiting = u.waiting
    BY <1>2, TurnedIs
  <2>3. /\ w.step = u.step + 1 /\ w.lo = u.lo /\ w.hi = u.hi /\ w.contact = u.contact
        /\ w.cleared = u.cleared /\ w.piece = u.piece
    BY <1>2 DEF Turned, WorldType
  <2>. HIDE DEF w
  <2>4. /\ NowOrAsBefore(u.contact, w.contact, u.step)
        /\ NowOrAsBefore(u.cleared, w.cleared, u.step)
    BY <2>3 DEF NowOrAsBefore
  <2>5. PieceToCome(w) /\ ClearedForGood(w)
    BY <1>3, <2>2, <2>3 DEF PieceToCome, ClearedForGood
  <2>. QED  BY <1>1, <2>1, <2>2, <2>3, <2>4, <2>5, RanOn
<1>6. CASE Sense
  <2>. DEFINE r == Advanced
              k == Advanced.w.step
  <2>1. sim' = [r EXCEPT !.detect = k] /\ sim.detect = Never
    BY <1>6 DEF Sense
  <2>2. /\ r.w.contact = sim.w.contact /\ r.w.cleared = sim.w.cleared /\ r.path = sim.path
        /\ r.log = sim.log => r.w.lo = sim.w.lo /\ r.w.hi = sim.w.hi
    BY <1>1, AdvancedOn
  <2>3. k = Len(sim.path)
    BY <1>3
  <2>4. r \in RunType /\ SteadyRun(r)
    BY <1>2
  <2>. HIDE DEF r, k
  <2>5. /\ sim'.w = r.w /\ sim'.path = r.path /\ sim'.log = r.log /\ sim'.shown = r.shown
        /\ sim'.detect = k
    BY <2>1, <2>4 DEF RunType
  <2>6. SteadyRun(sim')
    BY <2>4, <2>5 DEF SteadyRun, Paced
  <2>7. sim.w.cleared # Never => sim.w.contact # Never
    BY DEF Steady, SteadyRun, ClearedForGood
  <2>8. sim'.log = sim.log /\ sim'.shown = sim.shown => Onward(sim, sim')
    BY <2>1, <2>2, <2>3, <2>5, <2>7 DEF Onward, NowOrAsBefore
  <2>. QED  BY <2>6, <2>8
<1>. QED  BY <1>4, <1>5, <1>6

LEMMA SteadyInit ==
    ASSUME Init
    PROVE  Steady
<1>1. Typed
  BY TypedInit
<1>2. battery \in Batteries /\ todo = battery.tests /\ act \in {0, 1, Never} /\ sim = Started(todo[1], act)
  BY DEF Init
<1>3. todo \in Seq(CardType) /\ todo # <<>>
  BY <1>2, BatteryAssumption
<1>4. \A i \in 1..Len(todo) : OnePiece(todo[i])
  <2>1. \A i \in DOMAIN todo : OnePiece(todo[i])
    BY <1>2, OnePieceAssumption
  <2>. QED  BY <1>3, <2>1
<1>5. todo[1] \in CardType /\ act \in Int /\ 1 \in 1..Len(todo)
  BY <1>2, <1>3 DEF Never
<1>6. SteadyRun(sim)
  BY <1>2, <1>4, <1>5, StartsSteady
<1>. QED  BY <1>1, <1>4, <1>6 DEF Steady

LEMMA SteadyStep ==
    ASSUME Steady, [Next]_vars
    PROVE  Steady'
<1>1. Typed'
  BY TypedStep DEF Steady
<1>2. CASE UNCHANGED vars
  <2>1. sim' = sim /\ todo' = todo
    BY <1>2 DEF vars
  <2>. QED  BY <1>1, <2>1 DEF Steady
<1>3. ASSUME (\E d \in Lengths : DriveFor(d)) \/ TurnAround \/ Sense PROVE Steady'
  <2>1. todo' = todo
    BY <1>3 DEF DriveFor, TurnAround, Sense, Keeps
  <2>2. SteadyRun(sim')
    BY <1>3, BlocksOn
  <2>. QED  BY <1>1, <2>1, <2>2 DEF Steady
<1>4. ASSUME NEW code \in Codes, EndScenario(code) PROVE Steady'
  <2>1. todo # <<>> /\ todo' = Tail(todo) /\ todo \in Seq(CardType)
    BY <1>4 DEF EndScenario, Steady, Typed
  <2>2. /\ todo' \in Seq(CardType) /\ Len(todo') = Len(todo) - 1 /\ Len(todo) \in Nat
        /\ \A i \in 1..Len(todo') : todo'[i] = todo[i + 1] /\ i + 1 \in 1..Len(todo)
    <3>1. /\ Tail(todo) \in Seq(CardType) /\ Len(Tail(todo)) = Len(todo) - 1 /\ Len(todo) \in Nat
      BY <2>1
    <3>2. \A i \in 1..(Len(todo) - 1) : Tail(todo)[i] = todo[i + 1] /\ i + 1 \in 1..Len(todo)
      BY <2>1
    <3>. QED  BY <2>1, <3>1, <3>2
  <2>3. \A i \in 1..Len(todo') : OnePiece(todo'[i])
    BY <2>2 DEF Steady
  <2>4. SteadyRun(sim')
    <3>1. CASE todo' = <<>>
      <4>1. sim' = sim
        BY <1>4, <3>1 DEF EndScenario
      <4>. QED  BY <4>1 DEF Steady
    <3>2. CASE todo' # <<>>
      <4>1. act' \in {0, 1, Never} /\ sim' = Started(Head(todo'), act')
        BY <1>4, <3>2 DEF EndScenario, Begins
      <4>2. Head(todo') = todo'[1] /\ 1 \in 1..Len(todo') /\ todo'[1] \in CardType
        BY <2>2, <3>2
      <4>3. act' \in Int
        BY <4>1 DEF Never
      <4>. QED  BY <2>3, <4>1, <4>2, <4>3, StartsSteady
    <3>. QED  BY <3>1, <3>2
  <2>. QED  BY <1>1, <2>3, <2>4 DEF Steady
<1>. QED  BY <1>2, <1>3, <1>4 DEF Next

\* "post-exit events are not creditable behavior" (battery_evidence.py:329): whatever the island,
\* the rules and the cards of one piece, once a block has been run after the one the robot failed
\* in, neither what it does nor what it still meets changes the evidence.
THEOREM NothingCountsAfterFailure == Spec => VoidAfterFailure
<1>. DEFINE Void == (/\ todo' = todo /\ Scored /\ sim'.log = sim.log /\ sim'.shown = sim.shown
                     /\ ExitStep(sim) # Never /\ sim.path[Len(sim.path)].step > ExitStep(sim))
                    => Evidence(sim') = Evidence(sim)
<1>1. Init => Steady
  BY SteadyInit
<1>2. Steady /\ [Next]_vars => Steady'
  BY SteadyStep
<1>3. Steady /\ Steady' /\ [Next]_vars => [Void]_vars
  <2>. SUFFICES ASSUME Steady, Steady', Next,
                       todo' = todo, Scored, sim'.log = sim.log, sim'.shown = sim.shown,
                       ExitStep(sim) # Never, sim.path[Len(sim.path)].step > ExitStep(sim)
                PROVE  Evidence(sim') = Evidence(sim)
    OBVIOUS
  <2>1. Failed(sim)
    BY DEF Failed, Scored, Steady, SteadyRun, Typed
  <2>2. sim' \in RunType
    BY DEF Steady, Typed
  <2>3. ~\E code \in Codes : EndScenario(code)
    <3>1. todo # <<>> /\ todo \in Seq(CardType)
      BY DEF Scored, Steady, Typed
    <3>2. Tail(todo) # todo
      <4>1. Len(Tail(todo)) = Len(todo) - 1 /\ Len(todo) \in Nat
        BY <3>1
      <4>. QED  BY <4>1
    <3>. QED  BY <3>2 DEF EndScenario
  <2>4. Onward(sim, sim')
    BY <2>3, BlocksOn DEF Next
  <2>. QED  BY <2>1, <2>2, <2>4, EvidenceSame
<1>. QED  BY <1>1, <1>2, <1>3, PTL DEF Spec, VoidAfterFailure, Void
-----------------------------------------------------------------------------
(***************************************************************************)
(* The episodes of the check, beside the entries of the evidence.          *)
(***************************************************************************)
EpisodeType == [entry : Int, over : Nat, survived : BOOLEAN]
EpisodeState == [in : BOOLEAN, fresh : BOOLEAN, entry : Int, over : Nat, done : Seq(EpisodeType)]
InOrFresh(st) == st \in EpisodeState /\ (st.fresh <=> ~st.in)
OverBy(s) == IF s.inside THEN 0 ELSE s.d

\* What one sample does to an episode.
LEMMA EpisodeStepIs ==
    ASSUME NEW st, InOrFresh(st), NEW s \in SampleType
    PROVE  LET u == EpisodeStep(st, s) IN
           /\ InOrFresh(u)
           /\ ~st.in /\ ~(s.d <= Band) => u = st
           /\ ~st.in /\ s.d <= Band => u.in /\ u.over = OverBy(s) /\ u.done = st.done
           /\ st.in /\ ~BackInside(s) =>
                 u.in /\ u.over >= st.over /\ u.over >= OverBy(s)
                 /\ u.over \in {st.over, OverBy(s)} /\ u.done = st.done
           /\ st.in /\ BackInside(s) => ~u.in /\ u.done = Append(st.done, Episode(st))
<1>. DEFINE over == OverBy(s)
            u == EpisodeStep(st, s)
            more == IF over > st.over THEN over ELSE st.over
            begun == [st EXCEPT !.in = TRUE, !.fresh = FALSE, !.entry = s.step, !.over = over]
            gone == [st EXCEPT !.over = more]
            ended == [gone EXCEPT !.in = FALSE, !.fresh = TRUE, !.done = Append(@, Episode(gone))]
<1>1. /\ st.in \in BOOLEAN /\ st.fresh \in BOOLEAN /\ st.entry \in Int /\ st.over \in Nat
      /\ st.done \in Seq(EpisodeType) /\ st \in EpisodeState
      /\ s.d \in Nat /\ s.step \in Int /\ s.inside \in BOOLEAN
      /\ Band \in Nat /\ Retreat \in Nat /\ Grace \in Nat /\ Band < Retreat
  BY RulesAssumption DEF InOrFresh, EpisodeState, SampleType
<1>2. over \in Nat /\ more \in Nat /\ more >= st.over /\ more >= over /\ more \in {st.over, over}
  BY <1>1 DEF OverBy
<1>3. BackInside(s) <=> s.inside /\ s.d >= Retreat
  BY DEF BackInside
<1>4. BackInside(s) => more = st.over
  BY <1>1, <1>3 DEF OverBy
<1>5. CASE ~st.in /\ s.d <= Band
  <2>1. Enters(st, s)
    BY <1>5 DEF Enters, InOrFresh
  <2>2. ~(s.inside /\ s.d >= Retreat)
    BY <1>1, <1>5
  <2>3. begun \in EpisodeState /\ begun.in /\ ~begun.fresh /\ begun.over = over /\ begun.done = st.done
    <3>. HIDE DEF over
    <3>. QED  BY <1>1, <1>2 DEF EpisodeState
  <2>4. u = begun
    <3>1. u = IF ~begun.in THEN st
              ELSE IF s.inside /\ s.d >= Retreat
                   THEN [begun EXCEPT !.in = FALSE, !.fresh = TRUE, !.done = Append(@, Episode(begun))]
                   ELSE begun
      BY <2>1 DEF EpisodeStep, OverBy
    <3>. HIDE DEF u, begun
    <3>. QED  BY <2>2, <2>3, <3>1
  <2>. HIDE DEF begun
  <2>. QED  BY <1>5, <2>3, <2>4 DEF InOrFresh, u, over
<1>. DEFINE v == IF ~gone.in THEN st
                 ELSE IF s.inside /\ s.d >= Retreat THEN ended ELSE gone
<1>6. ASSUME ~(~st.in /\ s.d <= Band) PROVE u = v
  <2>1. ~Enters(st, s)
    BY <1>6 DEF Enters
  <2>. QED  BY <2>1 DEF EpisodeStep, OverBy
<1>7. /\ gone \in EpisodeState /\ gone.in = st.in /\ gone.fresh = st.fresh
      /\ gone.over = more /\ gone.done = st.done /\ gone.entry = st.entry
  <2>. HIDE DEF more
  <2>. QED  BY <1>1, <1>2 DEF EpisodeState
<1>8. CASE ~st.in /\ ~(s.d <= Band)
  <2>1. u = st
    <3>. HIDE DEF gone, u, ended
    <3>. QED  BY <1>6, <1>7, <1>8
  <2>. QED  BY <1>8, <2>1
<1>9. CASE st.in /\ ~BackInside(s)
  <2>1. u = gone
    <3>. HIDE DEF gone, u, ended
    <3>. QED  BY <1>3, <1>6, <1>7, <1>9
  <2>. HIDE DEF gone, more
  <2>. QED  BY <1>2, <1>7, <1>9, <2>1 DEF InOrFresh, u, over
<1>10. CASE st.in /\ BackInside(s)
  <2>1. u = ended
    <3>. HIDE DEF gone, u, ended
    <3>. QED  BY <1>3, <1>6, <1>7, <1>10
  <2>2. Episode(gone) = Episode(st) /\ Episode(st) \in EpisodeType
    <3>. HIDE DEF gone, more
    <3>1. gone.over = st.over /\ gone.entry = st.entry
      BY <1>4, <1>7, <1>10
    <3>. QED  BY <1>1, <3>1 DEF Episode, EpisodeType
  <2>3. Append(st.done, Episode(st)) \in Seq(EpisodeType)
    BY <1>1, <2>2
  <2>4. /\ ended \in EpisodeState /\ ~ended.in /\ ended.fresh
        /\ ended.done = Append(st.done, Episode(st))
    <3>. HIDE DEF gone
    <3>. QED  BY <1>7, <2>2, <2>3 DEF EpisodeState
  <2>. HIDE DEF ended
  <2>. QED  BY <1>10, <2>1, <2>4 DEF InOrFresh, u
<1>. QED  BY <1>1, <1>5, <1>8, <1>9, <1>10

LEMMA NoEpisodeIs == InOrFresh(NoEpisode) /\ ~NoEpisode.in /\ NoEpisode.done = <<>>
BY DEF NoEpisode, InOrFresh, EpisodeState, Never

\* The check, sample by sample.
LEMMA EpisodeScanIs ==
    ASSUME NEW seq \in Seq(SampleType)
    PROVE  \E F : /\ Scan(EpisodeStep, NoEpisode, seq) = F[Len(seq)]
                  /\ F[0] = NoEpisode
                  /\ \A i \in 1..Len(seq) : F[i] = EpisodeStep(F[i - 1], seq[i])
<1>. DEFINE n == Len(seq)
            At(f, i) == IF i = 0 THEN NoEpisode ELSE EpisodeStep(f[i - 1], seq[i])
            F == CHOOSE f : f = [i \in 0..n |-> At(f, i)]
            T == {st \in EpisodeState : InOrFresh(st)}
            g == [p \in T \X (1..n) |-> EpisodeStep(p[1], seq[p[2]])]
<1>1. Scan(EpisodeStep, NoEpisode, seq) = F[n]
  BY DEF Scan
<1>2. n \in Nat /\ \A i \in 1..n : seq[i] \in SampleType
  OBVIOUS
<1>. HIDE DEF n
<1>3. \A q \in T, i \in 1..n : EpisodeStep(q, seq[i]) \in T
  <2>. TAKE q \in T, i \in 1..n
  <2>1. InOrFresh(EpisodeStep(q, seq[i]))
    BY <1>2, EpisodeStepIs
  <2>. QED  BY <2>1 DEF InOrFresh
<1>4. NoEpisode \in T
  BY NoEpisodeIs DEF InOrFresh
<1>. HIDE DEF T
<1>5. StepsIn(T, n, g) /\ \A q \in T, i \in 1..n : g[<<q, i>>] = EpisodeStep(q, seq[i])
  <2>1. g \in [T \X (1..n) -> T]
    BY <1>3
  <2>. QED  BY <2>1 DEF StepsIn
<1>. HIDE DEF g
<1>6. PICK f : Course(T, NoEpisode, n, g, f)
  BY <1>2, <1>4, <1>5, Iterates
<1>7. ASSUME NEW i \in 0..n PROVE f[i] = At(f, i)
  <2>1. CASE i = 0
    BY <1>6, <2>1 DEF Course
  <2>2. CASE i # 0
    <3>1. i \in 1..n /\ i - 1 \in 0..n
      BY <1>2, <2>2
    <3>2. f[i - 1] \in T /\ f[i] = g[<<f[i - 1], i>>]
      BY <1>6, <3>1 DEF Course
    <3>. QED  BY <1>5, <2>2, <3>1, <3>2
  <2>. QED  BY <2>1, <2>2
<1>8. \E x : x = [i \in 0..n |-> At(x, i)]
  <2>1. f = [i \in 0..n |-> f[i]]
    BY <1>6 DEF Course
  <2>. HIDE DEF At
  <2>2. f = [i \in 0..n |-> At(f, i)]
    BY <1>7, <2>1
  <2>. QED  BY <2>2
<1>9. F = [i \in 0..n |-> At(F, i)]
  <2>. HIDE DEF At
  <2>. QED  BY <1>8
<1>. HIDE DEF F
<1>10. \A i \in 0..n : F[i] = At(F, i)
  <2>. DEFINE N(i) == At(F, i)
  <2>1. F = [i \in 0..n |-> N(i)]
    BY <1>9
  <2>. HIDE DEF N, At
  <2>2. \A i \in 0..n : F[i] = N(i)
    BY <2>1
  <2>. QED  BY <2>2 DEF N
<1>11. F[0] = NoEpisode
  <2>1. 0 \in 0..n
    BY <1>2
  <2>2. F[0] = At(F, 0)
    BY <1>10, <2>1
  <2>. QED  BY <2>2
<1>12. \A i \in 1..n : F[i] = EpisodeStep(F[i - 1], seq[i])
  <2>. TAKE i \in 1..n
  <2>1. i \in 0..n /\ i # 0
    BY <1>2
  <2>2. F[i] = At(F, i)
    BY <1>10, <2>1
  <2>. QED  BY <2>1, <2>2
<1>. QED  BY <1>1, <1>11, <1>12 DEF n

\* An episode for every entry, and the one re-armed when the other is over.
Matches(e, st) ==
    /\ e \in EntryType /\ InOrFresh(st)
    /\ e.fresh <=> ~st.in
    /\ e.in => ~e.fresh
    /\ e.entries = IF st.in THEN Len(st.done) + 1 ELSE Len(st.done)

LEMMA StillMatches ==
    ASSUME NEW e, NEW st, Matches(e, st), NEW s \in SampleType
    PROVE  Matches(EntryStep(e, s), EpisodeStep(st, s))
<1>. DEFINE e1 == EntryStep(e, s)
            u == EpisodeStep(st, s)
            near == s.d <= Band
            away == BackInside(s)
<1>1. e1 \in EntryType
  BY EntryStepIs DEF Matches
<1>2. /\ InOrFresh(u)
      /\ ~st.in /\ ~near => u = st
      /\ ~st.in /\ near => u.in /\ u.done = st.done
      /\ st.in /\ ~away => u.in /\ u.done = st.done
      /\ st.in /\ away => ~u.in /\ u.done = Append(st.done, Episode(st))
  BY EpisodeStepIs DEF Matches
<1>3. /\ e.in \in BOOLEAN /\ e.entries \in Nat /\ e.fresh \in BOOLEAN
      /\ st.in \in BOOLEAN /\ st.done \in Seq(EpisodeType) /\ Len(st.done) \in Nat
      /\ s.d \in Nat /\ Band \in Nat /\ Retreat \in Nat /\ Band < Retreat
  BY RulesAssumption DEF Matches, EntryType, InOrFresh, EpisodeState, SampleType
<1>4. near \in BOOLEAN /\ away \in BOOLEAN /\ (away => ~near)
  BY <1>3 DEF BackInside
<1>5. /\ e1.in <=> ((~e.in /\ near /\ e.fresh) \/ (e.in /\ near))
      /\ e1.entries = IF ~e.in /\ near /\ e.fresh THEN e.entries + 1 ELSE e.entries
  BY DEF EntryStep, Enters
<1>6. e1.fresh <=> (/\ ~(~e.in /\ near /\ e.fresh)
                    /\ e.fresh \/ (~e1.in /\ e1.entries > 0 /\ away))
  BY <1>5 DEF EntryStep, Enters
<1>7. /\ e.fresh <=> ~st.in
      /\ e.in => ~e.fresh
      /\ e.entries = IF st.in THEN Len(st.done) + 1 ELSE Len(st.done)
  BY DEF Matches
<1>8. Len(Append(st.done, Episode(st))) = Len(st.done) + 1
  <2>1. Episode(st) \in EpisodeType
    BY RulesAssumption DEF Matches, InOrFresh, EpisodeState, Episode, EpisodeType
  <2>. QED  BY <1>3, <2>1
<1>. HIDE DEF near, away, e1, u
<1>9. CASE ~st.in /\ near
  <2>1. e1.in /\ e1.entries = e.entries + 1 /\ ~e1.fresh
    BY <1>5, <1>6, <1>7, <1>9
  <2>. QED  BY <1>1, <1>2, <1>3, <1>7, <1>9, <2>1 DEF Matches, e1, u
<1>10. CASE ~st.in /\ ~near
  <2>1. ~e1.in /\ e1.entries = e.entries /\ e1.fresh
    BY <1>5, <1>6, <1>7, <1>10
  <2>. QED  BY <1>1, <1>2, <1>3, <1>7, <1>10, <2>1 DEF Matches, e1, u
<1>11. CASE st.in /\ away
  <2>1. ~e1.in /\ e1.entries = e.entries /\ e.entries > 0
    BY <1>3, <1>4, <1>5, <1>7, <1>11
  <2>2. e1.fresh
    BY <1>6, <1>7, <1>11, <2>1
  <2>. QED  BY <1>1, <1>2, <1>3, <1>7, <1>8, <1>11, <2>1, <2>2 DEF Matches, e1, u
<1>12. CASE st.in /\ ~away
  <2>1. e1.entries = e.entries /\ ~e1.fresh
    BY <1>5, <1>6, <1>7, <1>12
  <2>. QED  BY <1>1, <1>2, <1>3, <1>7, <1>12, <2>1 DEF Matches, e1, u
<1>. QED  BY <1>3, <1>4, <1>9, <1>10, <1>11, <1>12

LEMMA ScansMatch ==
    ASSUME NEW seq \in Seq(SampleType)
    PROVE  Matches(Scan(EntryStep, NoEntry, seq), Scan(EpisodeStep, NoEpisode, seq))
<1>. DEFINE n == Len(seq)
<1>1. n \in Nat /\ \A i \in 1..n : seq[i] \in SampleType
  OBVIOUS
<1>2. PICK E : /\ Scan(EntryStep, NoEntry, seq) = E[n] /\ E[0] = NoEntry
               /\ \A i \in 1..n : E[i] = EntryStep(E[i - 1], seq[i])
  BY EntryScanIs
<1>3. PICK S : /\ Scan(EpisodeStep, NoEpisode, seq) = S[n] /\ S[0] = NoEpisode
               /\ \A i \in 1..n : S[i] = EpisodeStep(S[i - 1], seq[i])
  BY EpisodeScanIs
<1>. DEFINE G == {i \in 0..n : Matches(E[i], S[i])}
<1>. HIDE DEF n
<1>4. 0 \in G
  <2>1. NoEntry \in EntryType /\ NoEntry.in = FALSE /\ NoEntry.entries = 0 /\ NoEntry.fresh = TRUE
    BY DEF NoEntry, EntryType
  <2>2. Matches(NoEntry, NoEpisode)
    BY <2>1, NoEpisodeIs DEF Matches
  <2>. QED  BY <1>1, <1>2, <1>3, <2>2
<1>5. ASSUME NEW i \in 1..n, i - 1 \in G PROVE i \in G
  <2>1. i \in 0..n /\ Matches(E[i - 1], S[i - 1])
    BY <1>1, <1>5
  <2>2. Matches(EntryStep(E[i - 1], seq[i]), EpisodeStep(S[i - 1], seq[i]))
    BY <1>1, <2>1, StillMatches
  <2>. QED  BY <1>2, <1>3, <2>1, <2>2
<1>6. G = 0..n
  <2>. HIDE DEF G
  <2>1. G \in SUBSET (0..n)
    BY DEF G
  <2>. QED  BY <1>1, <1>4, <1>5, <2>1, HandedOn
<1>7. n \in G
  BY <1>1, <1>6
<1>. QED  BY <1>2, <1>3, <1>7
-----------------------------------------------------------------------------
(***************************************************************************)
(* A walk takes small steps, passes every point and goes forward in time.  *)
(***************************************************************************)
Close(s) == \A k \in 1..(Len(s) - 1) : Apart(s[k].x, s[k + 1].x) <= 1
InTime(s) == \A k \in 1..Len(s) : s[k].step \in Nat
Passes(s, x) == \E k \in 1..Len(s) : s[k].x = x

LEMMA SegmentGoes ==
    ASSUME NEW a \in Spot, NEW b \in Spot
    PROVE  LET s == Segment(a, b) IN
           Close(s) /\ Len(s) \in Nat /\ Len(s) >= 1 /\ Apart(s[Len(s)].x, b.x) <= 1
<1>. DEFINE D == Apart(a.x, b.x)
            n == Max({1, D})
            g == Sign(b.x - a.x)
            at(k) == [step |-> a.step, x |-> a.x + g * (k - 1)]
            s == Segment(a, b)
<1>1. a.x \in Int /\ b.x \in Int
  BY DEF Spot
<1>2. D \in Nat /\ n \in Nat /\ n = (IF D >= 1 THEN D ELSE 1)
  <2>1. D \in Nat
    BY <1>1, ApartIs
  <2>. HIDE DEF D
  <2>2. n \in {1, D} /\ n >= 1 /\ n >= D
    BY <2>1, PairMax
  <2>. QED  BY <2>1, <2>2
<1>3. s = [k \in 1..n |-> at(k)]
  BY DEF Segment
<1>4. g = IF b.x < a.x THEN -1 ELSE 1
  BY <1>1 DEF Sign
<1>5. D = IF a.x < b.x THEN b.x - a.x ELSE a.x - b.x
  BY DEF Apart
<1>. HIDE DEF n, D, g, s
<1>6. Len(s) = n /\ \A k \in 1..n : s[k] = at(k)
  BY <1>2, <1>3
<1>7. \A k \in 1..n : s[k].x = IF b.x < a.x THEN a.x - (k - 1) ELSE a.x + (k - 1)
  <2>. TAKE k \in 1..n
  <2>1. k \in Int /\ k - 1 \in Int
    BY <1>2
  <2>2. s[k].x = a.x + g * (k - 1)
    BY <1>6
  <2>3. g \in {-1, 1} /\ g * (k - 1) = (IF g = 1 THEN k - 1 ELSE -(k - 1))
    BY <1>4, <2>1, SignTimes
  <2>. QED  BY <1>1, <1>4, <2>1, <2>2, <2>3
<1>8. Close(s)
  <2>. SUFFICES ASSUME NEW k \in 1..(n - 1) PROVE Apart(s[k].x, s[k + 1].x) <= 1
    BY <1>6 DEF Close
  <2>1. k \in 1..n /\ k + 1 \in 1..n /\ k \in Int
    BY <1>2
  <2>. QED  BY <1>1, <1>7, <2>1 DEF Apart
<1>9. Apart(s[n].x, b.x) <= 1
  <2>1. n \in 1..n
    BY <1>2
  <2>. QED  BY <1>1, <1>2, <1>5, <1>7, <2>1 DEF Apart
<1>10. n >= 1
  BY <1>2
<1>. QED  BY <1>2, <1>6, <1>8, <1>9, <1>10 DEF s

\* One walk after another.
LEMMA Joined ==
    ASSUME NEW p \in Seq(Spot), NEW q \in Seq(Spot), Len(p) >= 1, Len(q) >= 1,
           Close(p), Close(q), InTime(p), InTime(q), Apart(p[Len(p)].x, q[1].x) <= 1
    PROVE  LET r == p \o q IN
           /\ r \in Seq(Spot) /\ Len(r) >= 1 /\ Close(r) /\ InTime(r)
           /\ r[Len(r)] = q[Len(q)]
           /\ \A x : Passes(p, x) \/ Passes(q, x) => Passes(r, x)
<1>. DEFINE r == p \o q
            m == Len(p)
            n == Len(q)
<1>1. /\ m \in Nat /\ n \in Nat /\ m >= 1 /\ n >= 1
      /\ r \in Seq(Spot) /\ Len(r) = m + n
      /\ \A k \in 1..m : r[k] = p[k]
      /\ \A k \in 1..n : r[m + k] = q[k]
  OBVIOUS
<1>. HIDE DEF r, m, n
<1>2. \A k \in 1..(m + n) : k \in 1..m \/ (k - m \in 1..n /\ m + (k - m) = k)
  BY <1>1
<1>3. Close(r)
  <2>. SUFFICES ASSUME NEW k \in 1..(m + n - 1) PROVE Apart(r[k].x, r[k + 1].x) <= 1
    BY <1>1 DEF Close
  <2>0. m \in Nat /\ n \in Nat /\ k \in Nat /\ k >= 1
    BY <1>1
  <2>1. CASE k < m
    <3>1. k \in 1..(m - 1) /\ k \in 1..m /\ k + 1 \in 1..m
      BY <2>0, <2>1
    <3>2. r[k] = p[k] /\ r[k + 1] = p[k + 1]
      BY <1>1, <3>1
    <3>. QED  BY <3>1, <3>2 DEF Close, m
  <2>2. CASE k = m
    <3>1. m \in 1..m /\ 1 \in 1..n
      BY <1>1
    <3>2. r[k] = p[m] /\ r[k + 1] = q[1]
      BY <1>1, <2>2, <3>1
    <3>. QED  BY <3>2 DEF m
  <2>3. CASE k > m
    <3>. DEFINE j == k - m
    <3>0. k \in Int /\ m \in Int /\ n \in Int /\ k <= m + n - 1 /\ k > m
      BY <1>1, <2>3
    <3>1. j \in 1..(n - 1) /\ j \in 1..n /\ j + 1 \in 1..n /\ k = m + j /\ k + 1 = m + (j + 1)
      BY <3>0
    <3>. HIDE DEF j
    <3>2. r[k] = q[j] /\ r[k + 1] = q[j + 1]
      BY <1>1, <3>1
    <3>. QED  BY <3>1, <3>2 DEF Close, n
  <2>. QED  BY <1>1, <2>1, <2>2, <2>3
<1>4. InTime(r)
  <2>. SUFFICES ASSUME NEW k \in 1..(m + n) PROVE r[k].step \in Nat
    BY <1>1 DEF InTime
  <2>1. CASE k \in 1..m
    BY <1>1, <2>1 DEF InTime, m
  <2>2. CASE k - m \in 1..n /\ m + (k - m) = k
    <3>1. r[k] = q[k - m]
      BY <1>1, <2>2
    <3>. QED  BY <2>2, <3>1 DEF InTime, n
  <2>. QED  BY <1>2, <2>1, <2>2
<1>5. r[m + n] = q[n]
  <2>1. n \in 1..n
    BY <1>1
  <2>. QED  BY <1>1, <2>1
<1>6. ASSUME NEW x, Passes(p, x) \/ Passes(q, x) PROVE Passes(r, x)
  <2>1. CASE Passes(p, x)
    <3>1. PICK k \in 1..m : p[k].x = x
      BY <2>1 DEF Passes, m
    <3>2. k \in 1..(m + n) /\ r[k] = p[k]
      BY <1>1, <3>1
    <3>. QED  BY <1>1, <3>1, <3>2 DEF Passes
  <2>2. CASE Passes(q, x)
    <3>1. PICK k \in 1..n : q[k].x = x
      BY <2>2 DEF Passes, n
    <3>2. m + k \in 1..(m + n) /\ r[m + k] = q[k]
      BY <1>1, <3>1
    <3>. QED  BY <1>1, <3>1, <3>2 DEF Passes
  <2>. QED  BY <1>6, <2>1, <2>2
<1>7. m + n >= 1
  BY <1>1
<1>. QED  BY <1>1, <1>3, <1>4, <1>5, <1>6, <1>7 DEF r, n

LegsUpTo(legs, f) ==
    /\ FlattenSeq(legs) = f[Len(legs)]
    /\ \A i \in 1..Len(legs) : /\ f[i] \in Seq(Spot)
                               /\ f[i] = IF i = 1 THEN legs[i] ELSE f[i - 1] \o legs[i]

LEMMA LegsJoin ==
    ASSUME NEW legs, legs \in Seq(Seq(Spot)), legs # <<>>
    PROVE  \E f : LegsUpTo(legs, f)
<1>1. PICK f : /\ FlattenSeq(legs) = f[Len(legs)]
               /\ \A i \in 1..Len(legs) : /\ f[i] \in Seq(Spot)
                                          /\ f[i] = IF i = 1 THEN legs[i] ELSE f[i - 1] \o legs[i]
  BY FlattenCourse
<1>. QED  BY <1>1 DEF LegsUpTo

LEMMA WalkGoes ==
    ASSUME NEW points \in Seq(Spot), points # <<>>, InTime(points)
    PROVE  LET walk == WalkFrom(points) IN
           /\ walk \in Seq(Spot) /\ Close(walk) /\ InTime(walk)
           /\ \A i \in 1..Len(points) : Passes(walk, points[i].x)
<1>. DEFINE n == Len(points) - 1
            leg(i) == Segment(points[i], points[i + 1])
            legs == [i \in 1..n |-> leg(i)]
            last == <<points[Len(points)]>>
            walk == WalkFrom(points)
<1>1. /\ n \in Nat /\ Len(points) = n + 1 /\ points[n + 1] \in Spot
      /\ \A i \in 1..n : points[i] \in Spot /\ points[i + 1] \in Spot /\ i \in 1..(n + 1)
  OBVIOUS
<1>2. walk = FlattenSeq(legs) \o last
  BY DEF WalkFrom
<1>3. /\ last \in Seq(Spot) /\ Len(last) = 1 /\ last[1] = points[n + 1]
  BY <1>1
<1>. HIDE DEF n, last, leg, walk
<1>4. Close(last) /\ InTime(last) /\ Passes(last, points[n + 1].x)
  <2>1. points[n + 1].step \in Nat
    <3>1. n + 1 \in 1..(n + 1)
      BY <1>1
    <3>. QED  BY <1>1, <3>1 DEF InTime
  <2>2. \A k \in 1..1 : k = 1
    OBVIOUS
  <2>3. \A k \in 1..(1 - 1) : FALSE
    OBVIOUS
  <2>4. 1 \in 1..1
    OBVIOUS
  <2>. QED  BY <1>3, <2>1, <2>2, <2>3, <2>4 DEF Close, InTime, Passes
<1>5. legs \in Seq(Seq(Spot)) /\ Len(legs) = n /\ \A i \in 1..n : legs[i] = leg(i)
  <2>1. legs \in [1..n -> Seq(Spot)]
    BY <1>1, SegmentIs DEF leg
  <2>. QED  BY <1>1, <2>1
<1>. HIDE DEF legs
<1>6. ASSUME NEW i \in 1..n
      PROVE  /\ legs[i] \in Seq(Spot) /\ Len(legs[i]) \in Nat /\ Len(legs[i]) >= 1
             /\ Close(legs[i]) /\ InTime(legs[i]) /\ legs[i][1] = points[i]
             /\ Apart(legs[i][Len(legs[i])].x, points[i + 1].x) <= 1
  <2>1. points[i] \in Spot /\ points[i + 1] \in Spot /\ points[i].step \in Nat
    BY <1>1 DEF InTime
  <2>2. legs[i] = Segment(points[i], points[i + 1])
    BY <1>5 DEF leg
  <2>. DEFINE s == Segment(points[i], points[i + 1])
  <2>3. s \in Seq(Spot)
    BY <2>1, SegmentIs
  <2>4. /\ Len(s) \in Nat /\ Len(s) >= 1 /\ s[1] = points[i]
        /\ \A k \in 1..Len(s) : s[k].step = points[i].step
    BY <2>1, SegmentStarts
  <2>5. Close(s) /\ Apart(s[Len(s)].x, points[i + 1].x) <= 1
    BY <2>1, SegmentGoes
  <2>. HIDE DEF s
  <2>6. InTime(s)
    BY <2>1, <2>4 DEF InTime
  <2>. QED  BY <2>2, <2>3, <2>4, <2>5, <2>6 DEF s
<1>7. CASE n = 0
  <2>1. FlattenSeq(legs) = <<>>
    <3>1. legs = <<>>
      BY <1>5, <1>7
    <3>. QED  BY <3>1 DEF FlattenSeq
  <2>2. walk = last
    BY <1>2, <1>3, <2>1
  <2>3. \A i \in 1..Len(points) : i = n + 1
    BY <1>1, <1>7
  <2>. QED  BY <1>3, <1>4, <2>2, <2>3 DEF walk
<1>8. CASE n # 0
  <2>1. PICK F : /\ FlattenSeq(legs) = F[n]
                 /\ \A i \in 1..n : /\ F[i] \in Seq(Spot)
                                    /\ F[i] = IF i = 1 THEN legs[i] ELSE F[i - 1] \o legs[i]
    <3>1. legs \in Seq(Seq(Spot)) /\ legs # <<>>
      BY <1>5, <1>8
    <3>2. PICK F : LegsUpTo(legs, F)
      BY <3>1, LegsJoin
    <3>. QED  BY <1>5, <3>2 DEF LegsUpTo
  <2>. DEFINE Upto(i) ==
                 /\ F[i] \in Seq(Spot) /\ Len(F[i]) >= 1 /\ Close(F[i]) /\ InTime(F[i])
                 /\ Apart(F[i][Len(F[i])].x, points[i + 1].x) <= 1
                 /\ \A j \in 1..i : Passes(F[i], points[j].x)
              G == {i \in 0..n : i # 0 => Upto(i)}
  <2>2. 0 \in G
    BY <1>1
  <2>3. ASSUME NEW i \in 1..n PROVE Passes(legs[i], points[i].x)
    <3>1. 1 \in 1..Len(legs[i])
      BY <1>6
    <3>. QED  BY <1>6, <3>1 DEF Passes
  <2>4. ASSUME NEW i \in 1..n, i - 1 \in G PROVE i \in G
    <3>1. i \in 0..n
      BY <1>1
    <3>2. CASE i = 1
      <4>1. F[i] = legs[i] /\ \A j \in 1..i : j = i
        BY <2>1, <3>2
      <4>2. Upto(i)
        BY <1>6, <2>3, <4>1
      <4>. QED  BY <3>1, <4>2
    <3>3. CASE i # 1
      <4>1. Upto(i - 1) /\ (i - 1) + 1 = i
        BY <1>1, <2>4, <3>3
      <4>. DEFINE p == F[i - 1]
                  q == legs[i]
                  r == p \o q
      <4>2. F[i] = r
        BY <2>1, <3>3
      <4>3. /\ p \in Seq(Spot) /\ Len(p) >= 1 /\ Close(p) /\ InTime(p)
            /\ q \in Seq(Spot) /\ Len(q) >= 1 /\ Close(q) /\ InTime(q)
            /\ Apart(p[Len(p)].x, q[1].x) <= 1
        BY <1>6, <4>1
      <4>. HIDE DEF p, q
      <4>4. /\ r \in Seq(Spot) /\ Len(r) >= 1 /\ Close(r) /\ InTime(r) /\ r[Len(r)] = q[Len(q)]
            /\ \A x : Passes(p, x) \/ Passes(q, x) => Passes(r, x)
        BY <4>3, Joined
      <4>. HIDE DEF r
      <4>5. \A j \in 1..i : Passes(r, points[j].x)
        <5>1. \A j \in 1..i : j \in 1..(i - 1) \/ j = i
          BY <1>1
        <5>. QED  BY <2>3, <4>1, <4>4, <5>1 DEF p, q
      <4>6. Apart(r[Len(r)].x, points[i + 1].x) <= 1
        BY <1>6, <4>4 DEF q
      <4>7. Upto(i)
        BY <4>2, <4>4, <4>5, <4>6
      <4>. QED  BY <3>1, <4>7
    <3>. QED  BY <3>2, <3>3
  <2>5. G = 0..n
    <3>. HIDE DEF G
    <3>1. G \in SUBSET (0..n)
      BY DEF G
    <3>. QED  BY <1>1, <2>2, <2>4, <3>1, HandedOn
  <2>6. Upto(n)
    <3>1. n \in 0..n
      BY <1>1
    <3>. QED  BY <1>8, <2>5, <3>1
  <2>. DEFINE f == F[n]
  <2>7. /\ f \in Seq(Spot) /\ Len(f) >= 1 /\ Close(f) /\ InTime(f)
        /\ Apart(f[Len(f)].x, last[1].x) <= 1 /\ walk = f \o last
    BY <1>2, <1>3, <2>1, <2>6
  <2>8. \A j \in 1..n : Passes(f, points[j].x)
    BY <2>6
  <2>. HIDE DEF f
  <2>9. /\ walk \in Seq(Spot) /\ Close(walk) /\ InTime(walk)
        /\ \A x : Passes(f, x) \/ Passes(last, x) => Passes(walk, x)
    <3>1. 1 >= 1
      OBVIOUS
    <3>. QED  BY <1>3, <1>4, <2>7, <3>1, Joined
  <2>10. \A i \in 1..Len(points) : i \in 1..n \/ i = n + 1
    BY <1>1
  <2>. QED  BY <1>4, <2>8, <2>9, <2>10 DEF walk
<1>. QED  BY <1>7, <1>8
-----------------------------------------------------------------------------
(***************************************************************************)
(* A fall is seen by both: a walk that leaves the island, or comes back to *)
(* it, passes the band, so that it is in an episode wherever it has fallen *)
(* or at a place where it had.                                             *)
(***************************************************************************)
Fell(st) == (st.in /\ st.over > Grace) \/ \E i \in DOMAIN st.done : ~st.done[i].survived

LEMMA OneMoreEpisode ==
    ASSUME NEW st, InOrFresh(st), NEW more, more = Append(st.done, Episode(st))
    PROVE  (\E i \in DOMAIN more : ~more[i].survived)
              <=> st.over > Grace \/ \E i \in DOMAIN st.done : ~st.done[i].survived
<1>. DEFINE n == Len(st.done)
            e == Episode(st)
<1>1. st.done \in Seq(EpisodeType) /\ n \in Nat /\ DOMAIN st.done = 1..n /\ st.over \in Nat /\ Grace \in Nat
  BY RulesAssumption DEF InOrFresh, EpisodeState
<1>2. e \in EpisodeType /\ (e.survived <=> ~(st.over > Grace))
  BY <1>1 DEF InOrFresh, EpisodeState, Episode, EpisodeType
<1>. HIDE DEF e
<1>3. /\ DOMAIN more = 1..(n + 1) /\ more[n + 1] = e
      /\ \A i \in 1..n : more[i] = st.done[i]
  BY <1>1, <1>2 DEF e
<1>4. \A i \in 1..(n + 1) : i \in 1..n \/ i = n + 1
  BY <1>1
<1>5. n + 1 \in 1..(n + 1) /\ \A i \in 1..n : i \in 1..(n + 1)
  BY <1>1
<1>. QED  BY <1>1, <1>2, <1>3, <1>4, <1>5

\* Once fallen, fallen for good; and only a sample that is off by more than the grace is a fall.
LEMMA FellFrom ==
    ASSUME NEW st, InOrFresh(st), NEW s \in SampleType
    PROVE  /\ Fell(st) => Fell(EpisodeStep(st, s))
           /\ Fell(EpisodeStep(st, s)) => Fell(st) \/ OverBy(s) > Grace
<1>. DEFINE u == EpisodeStep(st, s)
            near == s.d <= Band
            away == BackInside(s)
            over == OverBy(s)
<1>1. /\ InOrFresh(u)
      /\ ~st.in /\ ~near => u = st
      /\ ~st.in /\ near => u.in /\ u.over = over /\ u.done = st.done
      /\ st.in /\ ~away => u.in /\ u.over >= st.over /\ u.over \in {st.over, over} /\ u.done = st.done
      /\ st.in /\ away => ~u.in /\ u.done = Append(st.done, Episode(st))
  BY EpisodeStepIs
<1>2. /\ st.over \in Nat /\ u.over \in Nat /\ Grace \in Nat /\ st.in \in BOOLEAN
  BY <1>1, RulesAssumption DEF InOrFresh, EpisodeState
<1>. DEFINE any == \E i \in DOMAIN st.done : ~st.done[i].survived
            some == \E i \in DOMAIN u.done : ~u.done[i].survived
<1>3. u.done = Append(st.done, Episode(st)) => (some <=> st.over > Grace \/ any)
  BY OneMoreEpisode
<1>4. u.done = st.done => (some <=> any)
  OBVIOUS
<1>5. (Fell(st) <=> (st.in /\ st.over > Grace) \/ any) /\ (Fell(u) <=> (u.in /\ u.over > Grace) \/ some)
  BY DEF Fell
<1>. HIDE DEF u, near, away, over, any, some
<1>6. CASE ~st.in /\ ~near
  BY <1>1, <1>6 DEF u
<1>7. CASE ~st.in /\ near
  BY <1>1, <1>2, <1>4, <1>5, <1>7 DEF u, over
<1>8. CASE st.in /\ ~away
  <2>1. u.over = st.over \/ u.over = over
    BY <1>1, <1>8
  <2>2. u.over > Grace => st.over > Grace \/ over > Grace
    BY <2>1
  <2>3. st.over > Grace => u.over > Grace
    BY <1>1, <1>2, <1>8
  <2>. QED  BY <1>1, <1>4, <1>5, <1>8, <2>2, <2>3 DEF u, over
<1>9. CASE st.in /\ away
  BY <1>1, <1>3, <1>5, <1>9 DEF u
<1>10. near \in BOOLEAN /\ away \in BOOLEAN
  BY DEF near, away, BackInside
<1>. QED  BY <1>2, <1>6, <1>7, <1>8, <1>9, <1>10

\* The check has an episode not survived.
LEMMA FellSays ==
    ASSUME NEW st, InOrFresh(st), NEW all, all = IF st.in THEN Append(st.done, Episode(st)) ELSE st.done
    PROVE  Fell(st) <=> \E i \in DOMAIN all : ~all[i].survived
<1>1. CASE st.in
  BY <1>1, OneMoreEpisode DEF Fell
<1>2. CASE ~st.in
  BY <1>2 DEF Fell
<1>. QED  BY <1>1, <1>2

\* o is how far off the island each sample is.
Bordered(seq, o) ==
    /\ \A k \in 1..Len(seq) : /\ o[k] \in Nat /\ (seq[k].inside <=> o[k] = 0)
                              /\ o[k] > 0 => seq[k].d = o[k]
    /\ \A k \in 1..(Len(seq) - 1) : Apart(o[k], o[k + 1]) <= 1
    /\ \E k \in 1..Len(seq) : o[k] = 0

LEMMA FallsAreSeen ==
    ASSUME NEW seq \in Seq(SampleType), NEW o, Bordered(seq, o)
    PROVE  Fell(Scan(EpisodeStep, NoEpisode, seq)) <=> \E k \in 1..Len(seq) : o[k] > Grace
<1>. DEFINE n == Len(seq)
<1>1. n \in Nat /\ \A i \in 1..n : seq[i] \in SampleType
  OBVIOUS
<1>2. PICK F : /\ Scan(EpisodeStep, NoEpisode, seq) = F[n] /\ F[0] = NoEpisode
               /\ \A i \in 1..n : F[i] = EpisodeStep(F[i - 1], seq[i])
  BY EpisodeScanIs
<1>3. /\ \A k \in 1..n : /\ o[k] \in Nat /\ (seq[k].inside <=> o[k] = 0)
                         /\ o[k] > 0 => seq[k].d = o[k]
      /\ \A k \in 1..(n - 1) : Apart(o[k], o[k + 1]) <= 1
      /\ \E k \in 1..n : o[k] = 0
  BY DEF Bordered
<1>. HIDE DEF n
<1>4. Grace \in Nat /\ Band \in Nat /\ Grace < Band
  BY RulesAssumption
<1>5. \A k \in 1..n : OverBy(seq[k]) = o[k]
  <2>. TAKE k \in 1..n
  <2>1. seq[k].inside \in BOOLEAN
    BY <1>1 DEF SampleType
  <2>. QED  BY <1>3, <2>1 DEF OverBy
<1>6. \A i \in 0..n : InOrFresh(F[i])
  <2>. DEFINE G == {i \in 0..n : InOrFresh(F[i])}
  <2>1. 0 \in G
    BY <1>1, <1>2, NoEpisodeIs
  <2>2. ASSUME NEW i \in 1..n, i - 1 \in G PROVE i \in G
    <3>1. i \in 0..n /\ InOrFresh(F[i - 1]) /\ seq[i] \in SampleType
      BY <1>1, <2>2
    <3>2. InOrFresh(EpisodeStep(F[i - 1], seq[i]))
      BY <3>1, EpisodeStepIs
    <3>. QED  BY <1>2, <3>1, <3>2
  <2>3. G = 0..n
    <3>. HIDE DEF G
    <3>1. G \in SUBSET (0..n)
      BY DEF G
    <3>. QED  BY <1>1, <2>1, <2>2, <3>1, HandedOn
  <2>. QED  BY <2>3
<1>7. ASSUME NEW i \in 1..n
      PROVE  /\ i \in 0..n /\ i - 1 \in 0..n /\ InOrFresh(F[i - 1]) /\ InOrFresh(F[i])
             /\ seq[i] \in SampleType /\ F[i] = EpisodeStep(F[i - 1], seq[i])
  <2>1. i \in 0..n /\ i - 1 \in 0..n
    BY <1>1
  <2>. QED  BY <1>1, <1>2, <1>6, <2>1
\* An episode lasts as long as the robot is off the island, and begins in the band.
<1>8. ASSUME NEW i \in 1..n, o[i] > 0, F[i - 1].in \/ o[i] <= Band
      PROVE  F[i].in /\ F[i].over >= o[i]
  <2>1. ~BackInside(seq[i]) /\ seq[i].d = o[i] /\ OverBy(seq[i]) = o[i] /\ o[i] \in Nat
    BY <1>3, <1>5, <1>8 DEF BackInside
  <2>2. CASE F[i - 1].in
    BY <1>7, <2>1, <2>2, EpisodeStepIs
  <2>3. CASE ~F[i - 1].in
    <3>1. seq[i].d <= Band
      BY <1>8, <2>1, <2>3
    <3>2. F[i].in /\ F[i].over = OverBy(seq[i])
      BY <1>7, <2>3, <3>1, EpisodeStepIs
    <3>. QED  BY <2>1, <3>2
  <2>. QED  BY <2>2, <2>3
<1>9. ASSUME NEW i \in 1..n, F[i].in, F[i].over >= o[i], o[i] > Grace
      PROVE  Fell(F[i])
  <2>1. F[i].over \in Nat /\ o[i] \in Nat
    BY <1>3, <1>7 DEF InOrFresh, EpisodeState
  <2>2. F[i].over > Grace
    BY <1>4, <1>9, <2>1
  <2>. QED  BY <1>9, <2>2 DEF Fell
<1>10. ASSUME NEW i \in 1..n, Fell(F[i]) PROVE Fell(F[n])
  <2>. DEFINE G == {k \in 0..n : k >= i => Fell(F[k])}
  <2>1. 0 \in G
    BY <1>1
  <2>2. ASSUME NEW k \in 1..n, k - 1 \in G PROVE k \in G
    <3>1. k \in 0..n /\ (k >= i => k = i \/ k - 1 >= i)
      BY <1>1
    <3>2. Fell(F[k - 1]) => Fell(F[k])
      BY <1>7, FellFrom
    <3>. QED  BY <1>10, <2>2, <3>1, <3>2
  <2>3. G = 0..n
    <3>. HIDE DEF G
    <3>1. G \in SUBSET (0..n)
      BY DEF G
    <3>. QED  BY <1>1, <2>1, <2>2, <3>1, HandedOn
  <2>4. n \in 0..n /\ n >= i
    BY <1>1
  <2>. QED  BY <2>3, <2>4
<1>11. ASSUME Fell(F[n]) PROVE \E k \in 1..n : o[k] > Grace
  <2>. DEFINE G == {k \in 0..n : Fell(F[k]) => \E j \in 1..n : o[j] > Grace}
  <2>1. 0 \in G
    <3>1. ~Fell(NoEpisode)
      BY NoEpisodeIs DEF Fell
    <3>. QED  BY <1>1, <1>2, <3>1
  <2>2. ASSUME NEW k \in 1..n, k - 1 \in G PROVE k \in G
    <3>1. Fell(F[k]) => Fell(F[k - 1]) \/ o[k] > Grace
      BY <1>5, <1>7, FellFrom
    <3>. QED  BY <1>7, <2>2, <3>1
  <2>3. G = 0..n
    <3>. HIDE DEF G
    <3>1. G \in SUBSET (0..n)
      BY DEF G
    <3>. QED  BY <1>1, <2>1, <2>2, <3>1, HandedOn
  <2>4. n \in 0..n
    BY <1>1
  <2>. QED  BY <1>11, <2>3, <2>4
<1>12. ASSUME NEW m \in 1..n, o[m] > Grace PROVE Fell(F[n])
  <2>1. PICK h \in 1..n : o[h] = 0
    BY <1>3
  <2>2. h < m \/ m < h
    BY <1>3, <1>4, <1>12, <2>1
  <2>3. ASSUME NEW k \in 1..n, k - 1 \in 1..n
        PROVE  o[k] \in Nat /\ o[k - 1] \in Nat /\ o[k] <= o[k - 1] + 1 /\ o[k - 1] <= o[k] + 1
    <3>1. k - 1 \in 1..(n - 1) /\ (k - 1) + 1 = k
      BY <1>1, <2>3
    <3>2. Apart(o[k - 1], o[k]) <= 1 /\ o[k] \in Nat /\ o[k - 1] \in Nat
      BY <1>3, <2>3, <3>1
    <3>. QED  BY <3>2 DEF Apart
  <2>4. CASE h < m
    \* on the island before: in an episode ever since it left
    <3>. DEFINE G == {k \in 0..n : k >= h => o[k] = 0 \/ (F[k].in /\ F[k].over >= o[k])}
    <3>1. 0 \in G
      BY <1>1
    <3>2. ASSUME NEW k \in 1..n, k - 1 \in G PROVE k \in G
      <4>1. k \in 0..n /\ o[k] \in Nat
        BY <1>1, <1>3
      <4>. SUFFICES ASSUME k >= h, o[k] # 0 PROVE F[k].in /\ F[k].over >= o[k]
        BY <4>1
      <4>2. k - 1 \in 1..n /\ k - 1 >= h /\ o[k] > 0
        BY <1>1, <2>1, <4>1
      <4>3. o[k - 1] = 0 \/ F[k - 1].in
        BY <3>2, <4>2
      <4>4. F[k - 1].in \/ o[k] <= Band
        BY <1>4, <2>3, <4>2, <4>3
      <4>. QED  BY <1>8, <4>2, <4>4
    <3>3. G = 0..n
      <4>. HIDE DEF G
      <4>1. G \in SUBSET (0..n)
        BY DEF G
      <4>. QED  BY <1>1, <3>1, <3>2, <4>1, HandedOn
    <3>4. m \in 0..n /\ m >= h /\ o[m] # 0
      BY <1>1, <1>4, <1>12, <2>4
    <3>5. F[m].in /\ F[m].over >= o[m]
      BY <3>3, <3>4
    <3>. QED  BY <1>9, <1>10, <1>12, <3>5
  <2>5. CASE m < h
    \* on the island after: it came back through the band
    <3>. DEFINE G == {k \in 0..n : m <= k /\ k <= h => o[k] > Grace \/ \E j \in 1..n : o[j] = Grace + 1}
    <3>1. 0 \in G
      BY <1>1
    <3>2. ASSUME NEW k \in 1..n, k - 1 \in G PROVE k \in G
      <4>1. k \in 0..n
        BY <1>1
      <4>. SUFFICES ASSUME m <= k, k <= h, ~\E j \in 1..n : o[j] = Grace + 1 PROVE o[k] > Grace
        BY <4>1
      <4>2. CASE k = m
        BY <1>12, <4>2
      <4>3. CASE k # m
        <5>1. k - 1 \in 1..n /\ m <= k - 1 /\ k - 1 <= h
          BY <1>1, <4>3
        <5>2. o[k - 1] > Grace /\ o[k - 1] # Grace + 1
          BY <3>2, <5>1
        <5>. QED  BY <1>4, <2>3, <5>1, <5>2
      <4>. QED  BY <4>2, <4>3
    <3>3. G = 0..n
      <4>. HIDE DEF G
      <4>1. G \in SUBSET (0..n)
        BY DEF G
      <4>. QED  BY <1>1, <3>1, <3>2, <4>1, HandedOn
    <3>4. h \in 0..n /\ m <= h /\ h <= h /\ ~(o[h] > Grace)
      BY <1>1, <1>4, <2>1, <2>5
    <3>5. PICK j \in 1..n : o[j] = Grace + 1
      BY <3>3, <3>4
    <3>6. o[j] > 0 /\ o[j] <= Band /\ o[j] > Grace
      BY <1>4, <3>5
    <3>7. F[j].in /\ F[j].over >= o[j]
      BY <1>8, <3>6
    <3>. QED  BY <1>9, <1>10, <3>6, <3>7
  <2>. QED  BY <2>2, <2>4, <2>5
<1>. QED  BY <1>2, <1>11, <1>12 DEF n
-----------------------------------------------------------------------------
(***************************************************************************)
(* The samples of a run: where it has been, and how far off the island.    *)
(***************************************************************************)
\* Where the robot has been: at the start, and at the end of each block.
Visited(run, x) == x = 0 \/ \E i \in 1..Len(run.path) : run.path[i].x = x

LEMMA DenseGoes ==
    ASSUME NEW run \in RunType, Paced(run)
    PROVE  LET walk == DenseSamples(run) IN
           /\ walk \in Seq(Spot) /\ Close(walk) /\ InTime(walk)
           /\ \A x : Visited(run, x) => Passes(walk, x)
<1>. DEFINE o == [step |-> 0, x |-> 0]
            spot(p) == [step |-> p.step, x |-> p.x]
            rest == [i \in DOMAIN run.path |-> spot(run.path[i])]
            n == Len(run.path)
            points == <<o>> \o rest
            walk == DenseSamples(run)
<1>1. run.path \in Seq(RowType) /\ n \in Nat /\ DOMAIN run.path = 1..n
  BY DEF RunType
<1>2. \A i \in 1..n : run.path[i].step \in Nat /\ run.path[i] \in RowType
  <2>. TAKE i \in 1..n
  <2>1. run.path[i].step = i - 1
    BY DEF Paced
  <2>. QED  BY <1>1, <2>1
<1>3. o \in Spot /\ o.step = 0 /\ o.x = 0
  BY DEF Spot
<1>4. ASSUME NEW p \in RowType PROVE spot(p) \in Spot /\ spot(p).step = p.step /\ spot(p).x = p.x
  BY DEF RowType, Spot
<1>5. walk = WalkFrom(<<o>> \o rest)
  BY DEF DenseSamples
<1>. HIDE DEF spot, o, n, walk
<1>6. rest \in Seq(Spot) /\ Len(rest) = n /\ \A i \in 1..n : rest[i] = spot(run.path[i])
  <2>1. rest \in [1..n -> Spot]
    BY <1>1, <1>2, <1>4
  <2>. QED  BY <1>1, <2>1
<1>. HIDE DEF rest
<1>7. /\ points \in Seq(Spot) /\ Len(points) = n + 1 /\ points[1] = o
      /\ \A i \in 1..n : points[1 + i] = rest[i]
  <2>1. <<o>> \in Seq(Spot) /\ Len(<<o>>) = 1 /\ <<o>>[1] = o
    BY <1>3
  <2>. QED  BY <1>1, <1>6, <2>1
<1>. HIDE DEF points
<1>8. \A k \in 1..(n + 1) : k = 1 \/ (k - 1 \in 1..n /\ 1 + (k - 1) = k)
  BY <1>1
<1>9. InTime(points)
  <2>. SUFFICES ASSUME NEW k \in 1..(n + 1) PROVE points[k].step \in Nat
    BY <1>7 DEF InTime
  <2>1. CASE k = 1
    BY <1>3, <1>7, <2>1
  <2>2. CASE k # 1
    <3>1. k - 1 \in 1..n /\ points[k] = rest[k - 1]
      BY <1>7, <1>8, <2>2
    <3>. QED  BY <1>2, <1>4, <1>6, <3>1
  <2>. QED  BY <2>1, <2>2
<1>10. points # <<>>
  BY <1>1, <1>7
<1>11. /\ walk \in Seq(Spot) /\ Close(walk) /\ InTime(walk)
       /\ \A i \in 1..Len(points) : Passes(walk, points[i].x)
  BY <1>5, <1>7, <1>9, <1>10, WalkGoes DEF points
<1>12. ASSUME NEW x, Visited(run, x) PROVE Passes(walk, x)
  <2>1. CASE x = 0
    <3>1. 1 \in 1..Len(points) /\ points[1].x = 0
      BY <1>1, <1>3, <1>7
    <3>. QED  BY <1>11, <2>1, <3>1
  <2>2. CASE x # 0
    <3>1. PICK i \in 1..n : run.path[i].x = x
      BY <1>12, <2>2 DEF Visited, n
    <3>2. 1 + i \in 1..Len(points) /\ points[1 + i].x = x
      BY <1>1, <1>2, <1>4, <1>6, <1>7, <3>1
    <3>. QED  BY <1>11, <3>2
  <2>. QED  BY <2>1, <2>2
<1>. QED  BY <1>11, <1>12 DEF walk

LEMMA OutsideIs ==
    ASSUME NEW w \in WorldType, NEW x \in Int
    PROVE  /\ Outside(w, x) \in Nat
           /\ \A y \in Int : Apart(x, y) <= 1 => Apart(Outside(w, x), Outside(w, y)) <= 1
<1>. DEFINE a == IF w.lo <= w.hi THEN w.lo ELSE w.hi
            b == IF w.lo <= w.hi THEN w.hi ELSE w.lo
            off(z) == IF z < a THEN a - z ELSE IF z > b THEN z - b ELSE 0
<1>1. w.lo \in Int /\ w.hi \in Int
  BY DEF WorldType
<1>2. a \in Int /\ b \in Int /\ a <= b
  BY <1>1
<1>3. Min({w.lo, w.hi}) = a /\ Max({w.lo, w.hi}) = b
  BY <1>1, PairMin, PairMax
<1>. HIDE DEF a, b
<1>4. ASSUME NEW z \in Int PROVE Outside(w, z) = off(z)
  <2>1. Outside(w, z) = CASE z < a -> a - z [] z > b -> z - b [] OTHER -> 0
    BY <1>3 DEF Outside, OffSegment
  <2>2. ~(z < a /\ z > b)
    BY <1>2
  <2>. QED  BY <2>1, <2>2
<1>5. off(x) \in Nat
  BY <1>2
<1>6. ASSUME NEW y \in Int, Apart(x, y) <= 1 PROVE Apart(off(x), off(y)) <= 1
  <2>1. x <= y + 1 /\ y <= x + 1
    BY <1>6 DEF Apart
  <2>. DEFINE p == off(x)
              q == off(y)
  <2>2. p \in Int /\ q \in Int /\ p <= q + 1 /\ q <= p + 1
    BY <1>2, <2>1
  <2>. HIDE DEF p, q
  <2>3. Apart(p, q) <= 1
    BY <2>2 DEF Apart
  <2>. QED  BY <2>3 DEF p, q
<1>. QED  BY <1>4, <1>5, <1>6

\* What a sample says.
LEMMA MeasuredSays ==
    ASSUME NEW run \in RunType
    PROVE  LET walk == DenseSamples(run)
               seq == Measured(run, walk)
           IN  /\ DOMAIN walk = 1..Len(walk) /\ Len(walk) \in Nat /\ Len(seq) = Len(walk)
               /\ \A i \in 1..Len(walk) : /\ seq[i].step = walk[i].step
                                          /\ seq[i].inside <=> Outside(run.w, walk[i].x) = 0
<1>. DEFINE edges == Edges(run)
            walk == DenseSamples(run)
            seq == Measured(run, walk)
            nearest(x) == CHOOSE e \in edges : \A f \in edges : Apart(x, e) <= Apart(x, f)
            sample(p) == [step |-> p.step, d |-> Apart(p.x, nearest(p.x)), inside |-> Outside(run.w, p.x) = 0]
<1>1. DOMAIN walk = 1..Len(walk) /\ Len(walk) \in Nat
  BY DenseIs
<1>2. seq = [i \in DOMAIN walk |-> sample(walk[i])]
  BY DEF Measured
<1>3. \A z : sample(z).step = z.step /\ (sample(z).inside <=> Outside(run.w, z.x) = 0)
  OBVIOUS
<1>. HIDE DEF sample, walk, seq
<1>4. Len(seq) = Len(walk) /\ \A i \in 1..Len(walk) : seq[i] = sample(walk[i])
  BY <1>1, <1>2
<1>. QED  BY <1>1, <1>3, <1>4 DEF walk, seq
-----------------------------------------------------------------------------
(***************************************************************************)
(* A new island always has the robot on it.                                *)
(***************************************************************************)
\* v is w with another island at most, and then the robot is on that one.
OnNewIsland(w, v) ==
    /\ v \in WorldType /\ v.pos = w.pos
    /\ (v.lo = w.lo /\ v.hi = w.hi) \/ Outside(v, v.pos) = 0

LEMMA OnePlaced ==
    ASSUME NEW w \in WorldType, NEW e \in EventType
    PROVE  OnNewIsland(w, FireEvent(w, e))
<1>. DEFINE edge == w.pos + w.hd * e.ahead
            rear == w.pos - w.hd * Deep
            island == IF e.ahead = Nowhere THEN w ELSE PlaceBoundary(w, e.ahead)
            x == w.pos + w.hd * e.piece
            pieces == IF e.piece = Nowhere THEN island ELSE MaterializedAt(island, x)
            p == IF e.ahead = Nowhere THEN [id |-> e.id, edge |-> Nowhere, near |-> 0]
                 ELSE [id |-> e.id, edge |-> island.edge, near |-> e.ahead]
            v == FireEvent(w, e)
<1>1. /\ w.hd \in {-1, 1} /\ w.pos \in Int /\ w.lo \in Int /\ w.hi \in Int /\ Deep \in Nat
      /\ e.ahead \in {Nowhere} \cup Nat
  <2>1. e.ahead \in {Nowhere} \cup Nat
    BY EventIs
  <2>. QED  BY <2>1, WorldAssumption DEF WorldType
<1>2. /\ DOMAIN island = DOMAIN w
      /\ e.ahead = Nowhere => island.lo = w.lo /\ island.hi = w.hi
      /\ e.ahead # Nowhere => island.lo = Min({edge, rear}) /\ island.hi = Max({edge, rear})
  <2>1. CASE e.ahead = Nowhere
    BY <2>1
  <2>2. CASE e.ahead # Nowhere
    <3>. DEFINE lo == Min({edge, rear})
                hi == Max({edge, rear})
    <3>1. island = [w EXCEPT !.lo = lo, !.hi = hi, !.edge = edge, !.out = w.hd]
      BY <2>2 DEF PlaceBoundary
    <3>. HIDE DEF island, lo, hi, edge
    <3>2. DOMAIN island = DOMAIN w /\ island.lo = lo /\ island.hi = hi
      BY <3>1 DEF WorldType
    <3>. QED  BY <2>2, <3>2 DEF lo, hi
  <2>. QED  BY <2>1, <2>2
<1>3. v = [pieces EXCEPT !.placed = Append(@, p)]
  BY DEF FireEvent, pieces, p, island, x
<1>. HIDE DEF island, x, p, v, edge, rear
<1>4. DOMAIN pieces = DOMAIN w /\ pieces.lo = island.lo /\ pieces.hi = island.hi
  BY <1>2 DEF MaterializedAt, WorldType
<1>. HIDE DEF pieces
<1>5. v.lo = island.lo /\ v.hi = island.hi
  BY <1>3, <1>4 DEF WorldType
<1>6. v \in WorldType /\ v.pos = w.pos
  BY FireEventIs DEF v
<1>7. CASE e.ahead = Nowhere
  BY <1>2, <1>5, <1>6, <1>7 DEF OnNewIsland, v
<1>8. CASE e.ahead # Nowhere
  <2>1. e.ahead \in Nat /\ e.ahead \in Int /\ Deep \in Int
    BY <1>1, <1>8
  <2>2. /\ w.hd * e.ahead = (IF w.hd = 1 THEN e.ahead ELSE -e.ahead)
        /\ w.hd * Deep = (IF w.hd = 1 THEN Deep ELSE -Deep)
    BY <1>1, <2>1, SignTimes
  <2>3. /\ edge \in Int /\ rear \in Int
        /\ (edge <= w.pos /\ w.pos <= rear) \/ (rear <= w.pos /\ w.pos <= edge)
    BY <1>1, <2>1, <2>2 DEF edge, rear
  <2>4. /\ Min({edge, rear}) = (IF edge <= rear THEN edge ELSE rear)
        /\ Max({edge, rear}) = (IF edge <= rear THEN rear ELSE edge)
    BY <2>3, PairMin, PairMax
  <2>5. v.lo \in Int /\ v.hi \in Int /\ v.lo <= w.pos /\ w.pos <= v.hi
    BY <1>1, <1>2, <1>5, <1>8, <2>3, <2>4
  <2>6. /\ Min({v.lo, v.hi}) = v.lo /\ Max({v.lo, v.hi}) = v.hi
    BY <1>1, <2>5, PairMin, PairMax
  <2>7. ~(v.pos < v.lo) /\ ~(v.pos > v.hi)
    BY <1>1, <1>6, <2>5
  <2>8. Outside(v, v.pos) = 0
    BY <2>6, <2>7 DEF Outside, OffSegment
  <2>. QED  BY <1>6, <2>8 DEF OnNewIsland, v
<1>. QED  BY <1>7, <1>8

LEMMA SameIsland ==
    ASSUME NEW u, NEW w, u.lo = w.lo, u.hi = w.hi, NEW x
    PROVE  Outside(u, x) = Outside(w, x)
BY DEF Outside

LEMMA AllPlaced ==
    ASSUME NEW w \in WorldType, NEW f, FiredUpTo(w, f, Len(w.waiting))
    PROVE  \A i \in 0..Len(w.waiting) : OnNewIsland(w, f[i])
<1>. DEFINE n == Len(w.waiting)
            G == {i \in 0..n : OnNewIsland(w, f[i])}
<1>1. n \in Nat /\ \A i \in 1..n : w.waiting[i] \in EventType
  <2>1. w.waiting \in Seq(EventType)
    BY WorldIs
  <2>. QED  BY <2>1
<1>2. ASSUME NEW i \in 0..n PROVE f[i] = FiredStep(w, f, i) /\ f[i] \in WorldType /\ f[i].pos = w.pos
  <2>1. f[i] = FiredStep(w, f, i)
    BY DEF FiredUpTo
  <2>2. SoFar(w, f[i], i)
    BY SoFarAlways
  <2>. QED  BY <2>1, <2>2 DEF SoFar
<1>. HIDE DEF n
<1>3. 0 \in G
  <2>1. 0 \in 0..n
    BY <1>1
  <2>. DEFINE q == [i \in DOMAIN w.placed |-> Closer(w.placed[i], w.pos)]
  <2>2. f[0] = [Approached(w) EXCEPT !.waiting = <<>>] /\ Approached(w) = [w EXCEPT !.placed = q]
    BY <1>2, <2>1 DEF FiredStep, Approached
  <2>. HIDE DEF q
  <2>3. f[0].lo = w.lo /\ f[0].hi = w.hi
    BY <2>2 DEF WorldType
  <2>. QED  BY <1>2, <2>1, <2>3 DEF OnNewIsland
<1>4. ASSUME NEW i \in 1..n, i - 1 \in G PROVE i \in G
  <2>1. i \in 0..n /\ i # 0 /\ OnNewIsland(w, f[i - 1]) /\ i - 1 \in 0..n
    BY <1>1, <1>4
  <2>. DEFINE v == f[i - 1]
              u == f[i]
              e == w.waiting[i]
  <2>2. u = FireOrWait(v, e)
    BY <1>2, <2>1 DEF FiredStep
  <2>3. v \in WorldType /\ u \in WorldType /\ u.pos = w.pos /\ v.pos = w.pos /\ e \in EventType
    BY <1>1, <1>2, <2>1
  <2>4. (v.lo = w.lo /\ v.hi = w.hi) \/ Outside(v, v.pos) = 0
    BY <2>1 DEF OnNewIsland
  <2>. HIDE DEF u, v, e
  <2>5. (u.lo = v.lo /\ u.hi = v.hi) \/ Outside(u, u.pos) = 0
    <3>1. CASE EventReady(v, e)
      BY <2>2, <2>3, <3>1, OnePlaced DEF FireOrWait, OnNewIsland
    <3>2. CASE ~EventReady(v, e)
      <4>1. u = [v EXCEPT !.waiting = Append(@, e)]
        BY <2>2, <3>2 DEF FireOrWait
      <4>. QED  BY <2>3, <4>1 DEF WorldType
    <3>. QED  BY <3>1, <3>2
  <2>6. OnNewIsland(w, u)
    <3>1. u.lo = v.lo /\ u.hi = v.hi => Outside(u, u.pos) = Outside(v, v.pos)
      BY <2>3, SameIsland
    <3>. QED  BY <2>3, <2>4, <2>5, <3>1 DEF OnNewIsland
  <2>. QED  BY <2>1, <2>6 DEF u
<1>. HIDE DEF G
<1>5. G \in SUBSET (0..n)
  BY DEF G
<1>6. G = 0..n
  BY <1>1, <1>3, <1>4, <1>5, HandedOn
<1>. QED  BY <1>6 DEF G, n

LEMMA AdvanceIslands ==
    ASSUME NEW c, c.at \in Int, NEW w \in WorldType
    PROVE  OnNewIsland(w, AdvanceWorld(c, w))
<1>. DEFINE u == ActivatePieces(c, w)
            v == AdvanceWorld(c, w)
<1>1. u \in WorldType /\ u.pos = w.pos /\ u.waiting = w.waiting
  BY PiecesActivate
<1>2. u.lo = w.lo /\ u.hi = w.hi
  BY DEF ActivatePieces, MaterializedAt, WorldType
<1>3. v = IF u.waiting = <<>> THEN u ELSE FireEvents(u)
  BY DEF AdvanceWorld
<1>. HIDE DEF u, v
<1>4. CASE u.waiting = <<>>
  BY <1>1, <1>2, <1>3, <1>4 DEF OnNewIsland, v
<1>5. CASE u.waiting # <<>>
  <2>1. Len(u.waiting) \in Nat
    BY <1>1, WorldIs
  <2>2. PICK f : FiredUpTo(u, f, Len(u.waiting)) /\ FireEvents(u) = f[Len(u.waiting)]
    BY <2>1, FireEventsIs
  <2>3. OnNewIsland(u, v)
    <3>1. Len(u.waiting) \in 0..Len(u.waiting)
      BY <2>1
    <3>2. \A i \in 0..Len(u.waiting) : OnNewIsland(u, f[i])
      BY <1>1, <2>2, AllPlaced
    <3>. QED  BY <1>3, <1>5, <2>2, <3>1, <3>2
  <2>. QED  BY <1>1, <1>2, <2>3 DEF OnNewIsland, v
<1>. QED  BY <1>4, <1>5
-----------------------------------------------------------------------------
(***************************************************************************)
(* The robot has been on the island the run is measured against.           *)
(***************************************************************************)
Grounded(run) ==
    /\ Visited(run, run.w.pos)
    /\ \E x \in Int : Visited(run, x) /\ Outside(run.w, x) = 0

LEMMA StartsGrounded ==
    ASSUME NEW c \in CardType, NEW step \in Int
    PROVE  Grounded(Started(c, step))
<1>. DEFINE r == Resolved(c, step)
            w == ScenarioWorld(r)
            run == Started(c, step)
<1>1. run.w = w /\ run.path = <<>>
  BY DEF Started
<1>2. /\ w.pos = 0
      /\ (w.lo = -Field /\ w.hi = Field) \/ (w.lo = -Arena /\ w.hi = Arena)
  <2>. HIDE DEF r
  <2>. QED  BY DEF ScenarioWorld, NewWorld
<1>. HIDE DEF w, run
<1>3. Field \in Nat /\ Arena \in Nat
  BY WorldAssumption, BatteryAssumption
<1>4. Outside(w, 0) = 0
  <2>1. w.lo \in Int /\ w.hi \in Int /\ w.lo <= 0 /\ 0 <= w.hi /\ w.lo <= w.hi
    BY <1>2, <1>3
  <2>2. Min({w.lo, w.hi}) = w.lo /\ Max({w.lo, w.hi}) = w.hi
    BY <2>1, PairMin, PairMax
  <2>3. ~(0 < w.lo) /\ ~(0 > w.hi)
    BY <2>1
  <2>. QED  BY <2>2, <2>3 DEF Outside, OffSegment
<1>. QED  BY <1>1, <1>2, <1>4 DEF Grounded, Visited, run

LEMMA AdvancedGrounded ==
    ASSUME Typed, todo # <<>>, Grounded(sim)
    PROVE  Grounded(Advanced)
<1>. DEFINE v == AdvanceWorld(scenario, sim.w)
            run == Advanced
<1>1. run \in RunType /\ run.path = sim.path /\ sim \in RunType /\ sim.w \in WorldType
  BY AdvancedIs DEF Typed, RunType
<1>2. run.w = v
  BY <1>1 DEF Advanced, RunType
<1>3. OnNewIsland(sim.w, v)
  <2>1. scenario \in CardType
    BY DEF Typed, scenario
  <2>. QED  BY <1>1, <2>1, CardIs, AdvanceIslands
<1>. HIDE DEF v, run
<1>4. \A x : Visited(run, x) <=> Visited(sim, x)
  BY <1>1 DEF Visited
<1>5. Visited(run, run.w.pos)
  BY <1>2, <1>3, <1>4 DEF Grounded, OnNewIsland
<1>6. \E x \in Int : Visited(run, x) /\ Outside(run.w, x) = 0
  <2>1. CASE v.lo = sim.w.lo /\ v.hi = sim.w.hi
    <3>1. \A x : Outside(v, x) = Outside(sim.w, x)
      BY <2>1, SameIsland
    <3>. QED  BY <1>2, <1>4, <3>1 DEF Grounded
  <2>2. CASE Outside(v, v.pos) = 0
    <3>1. v.pos \in Int
      BY <1>3 DEF OnNewIsland, WorldType
    <3>. QED  BY <1>2, <1>5, <2>2, <3>1
  <2>. QED  BY <1>3, <2>1, <2>2 DEF OnNewIsland
<1>. QED  BY <1>5, <1>6 DEF Grounded, run

LEMMA RanGrounded ==
    ASSUME NEW run \in RunType, Grounded(run), NEW w \in WorldType, NEW pushed,
           w.lo = run.w.lo, w.hi = run.w.hi
    PROVE  Grounded(Ran(run, w, pushed))
<1>. DEFINE row == [step |-> run.w.step, x |-> w.pos, hd |-> w.hd]
            run2 == Ran(run, w, pushed)
            n == Len(run.path)
            path == Append(run.path, row)
<1>1. run.path \in Seq(RowType) /\ run.w \in WorldType
  BY DEF RunType
<1>2. row \in RowType /\ row.x = w.pos
  BY <1>1 DEF WorldType, RowType
<1>3. run2.w = w /\ run2.path = path
  <2>. HIDE DEF path, row
  <2>1. run2 = [run EXCEPT !.w = w, !.shown = Shown(run, pushed), !.path = path]
    BY DEF Ran, path, row
  <2>. HIDE DEF run2
  <2>. QED  BY <2>1 DEF RunType
<1>. HIDE DEF row, run2
<1>4. /\ n \in Nat /\ Len(path) = n + 1 /\ path[n + 1] = row
      /\ \A i \in 1..n : path[i] = run.path[i]
  BY <1>1, <1>2
<1>. HIDE DEF path
<1>5. n + 1 \in 1..Len(path) /\ \A i \in 1..n : i \in 1..Len(path)
  BY <1>4
<1>6. Visited(run2, w.pos)
  BY <1>2, <1>3, <1>4, <1>5 DEF Visited
<1>7. \A x : Visited(run, x) => Visited(run2, x)
  BY <1>3, <1>4, <1>5 DEF Visited
<1>8. \A x : Outside(w, x) = Outside(run.w, x)
  BY SameIsland
<1>. QED  BY <1>3, <1>6, <1>7, <1>8 DEF Grounded, run2

SteadyAndGrounded == Steady /\ Grounded(sim)

LEMMA GroundedInit ==
    ASSUME Init
    PROVE  SteadyAndGrounded
<1>1. battery \in Batteries /\ todo = battery.tests /\ act \in {0, 1, Never} /\ sim = Started(todo[1], act)
  BY DEF Init
<1>2. todo \in Seq(CardType) /\ todo # <<>>
  BY <1>1, BatteryAssumption
<1>3. todo[1] \in CardType /\ act \in Int
  BY <1>1, <1>2 DEF Never
<1>. QED  BY <1>1, <1>3, SteadyInit, StartsGrounded DEF SteadyAndGrounded

LEMMA GroundedStep ==
    ASSUME SteadyAndGrounded, [Next]_vars
    PROVE  SteadyAndGrounded'
<1>1. Steady /\ Steady' /\ Grounded(sim) /\ Typed
  BY SteadyStep DEF SteadyAndGrounded, Steady
<1>2. CASE UNCHANGED vars
  <2>1. sim' = sim
    BY <1>2 DEF vars
  <2>. QED  BY <1>1, <2>1 DEF SteadyAndGrounded
<1>3. ASSUME Running
      PROVE  /\ Advanced \in RunType /\ Advanced.w \in WorldType /\ Grounded(Advanced)
             /\ Advanced.w.step # Never /\ PieceToCome(Advanced.w) /\ ClearedForGood(Advanced.w)
  <2>1. todo # <<>>
    BY <1>3 DEF Running
  <2>2. Advanced \in RunType /\ SteadyRun(Advanced) /\ Grounded(Advanced)
    BY <1>1, <2>1, AdvancedOn, AdvancedGrounded
  <2>3. Advanced.w \in WorldType /\ Advanced.path \in Seq(RowType)
    BY <2>2 DEF RunType
  <2>4. Advanced.w.step \in Nat
    BY <2>2, <2>3 DEF SteadyRun, Paced
  <2>5. Advanced.w.step # Never
    BY <2>4 DEF Never
  <2>. QED  BY <2>2, <2>3, <2>5 DEF SteadyRun
<1>4. ASSUME NEW d \in Lengths, DriveFor(d) PROVE Grounded(sim')
  <2>1. Running
    BY <1>4 DEF DriveFor
  <2>. DEFINE run == Advanced
              w == Driven(scenario, run.w, d)
  <2>2. sim' = Ran(run, w, Pushes(scenario, [run.w EXCEPT !.pos = w.pos], run.w.pos))
    BY <1>4 DEF DriveFor
  <2>3. d \in Int
    BY BatteryAssumption
  <2>4. w \in WorldType /\ w.lo = run.w.lo /\ w.hi = run.w.hi
    <3>1. w \in WorldType
      BY <1>3, <2>1, <2>3, DrivenIs
    <3>2. w.lo = run.w.lo /\ w.hi = run.w.hi
      BY <1>3, <2>1, <2>3, DrivingKeeps
    <3>. QED  BY <3>1, <3>2
  <2>. HIDE DEF w
  <2>. QED  BY <1>3, <2>1, <2>2, <2>4, RanGrounded
<1>5. ASSUME TurnAround PROVE Grounded(sim')
  <2>1. Running /\ sim' = Ran(Advanced, Turned(Advanced.w), FALSE)
    BY <1>5 DEF TurnAround
  <2>. DEFINE run == Advanced
              w == Turned(run.w)
  <2>2. w \in WorldType
    BY <1>3, <2>1, TurnedIs
  <2>3. w.lo = run.w.lo /\ w.hi = run.w.hi
    BY <1>3, <2>1 DEF Turned, WorldType
  <2>. HIDE DEF w
  <2>4. sim' = Ran(run, w, FALSE)
    BY <2>1 DEF w
  <2>. QED  BY <1>3, <2>1, <2>2, <2>3, <2>4, RanGrounded
<1>6. ASSUME Sense PROVE Grounded(sim')
  <2>. DEFINE k == Advanced.w.step
              r == Advanced
  <2>1. Running /\ sim' = [r EXCEPT !.detect = k]
    BY <1>6 DEF Sense
  <2>. HIDE DEF k
  <2>2. r \in RunType /\ Grounded(r)
    BY <1>3, <2>1
  <2>. HIDE DEF r
  <2>3. sim'.w = r.w /\ sim'.path = r.path
    BY <2>1, <2>2 DEF RunType
  <2>. QED  BY <2>2, <2>3 DEF Grounded, Visited
<1>7. ASSUME NEW code \in Codes, EndScenario(code) PROVE Grounded(sim')
  <2>1. CASE todo' = <<>>
    <3>1. sim' = sim
      BY <1>7, <2>1 DEF EndScenario
    <3>. QED  BY <1>1, <3>1
  <2>2. CASE todo' # <<>>
    <3>1. act' \in {0, 1, Never} /\ sim' = Started(Head(todo'), act')
      BY <1>7, <2>2 DEF EndScenario, Begins
    <3>2. Head(todo') \in CardType /\ act' \in Int
      <4>1. todo' \in Seq(CardType)
        BY <1>1 DEF Steady, Typed
      <4>. QED  BY <2>2, <3>1, <4>1 DEF Never
    <3>. QED  BY <3>1, <3>2, StartsGrounded
  <2>. QED  BY <2>1, <2>2
<1>. QED  BY <1>1, <1>2, <1>4, <1>5, <1>6, <1>7 DEF Next, SteadyAndGrounded
-----------------------------------------------------------------------------
(***************************************************************************)
(* The check and the evidence of a run.                                    *)
(***************************************************************************)
\* Off the island, the robot is over the edge that is nearest of those it is tested against.
OverItsEdges(run) ==
    LET walk == DenseSamples(run)
        seen == Measured(run, walk)
    IN  \A i \in DOMAIN walk :
           Outside(run.w, walk[i].x) > 0 => seen[i].d = Outside(run.w, walk[i].x)

\* No event has placed an edge.
OnItsOwnIsland(run) == \A i \in DOMAIN run.log : run.log[i].edge = Nowhere

\* So it is wherever it leaves the island it started on.
LEMMA OwnIslandOver ==
    ASSUME NEW run \in RunType, OnItsOwnIsland(run)
    PROVE  OverItsEdges(run)
<1>. DEFINE edges == Edges(run)
            walk == DenseSamples(run)
            seq == Measured(run, walk)
            w == run.w
            nearest(x) == CHOOSE e \in edges : \A f \in edges : Apart(x, e) <= Apart(x, f)
            sample(p) == [step |-> p.step, d |-> Apart(p.x, nearest(p.x)), inside |-> Outside(run.w, p.x) = 0]
<1>1. edges = {w.lo, w.hi} /\ w.lo \in Int /\ w.hi \in Int
  <2>1. \A e \in Range(run.log) : e.edge = Nowhere
    BY DEF Range, OnItsOwnIsland
  <2>2. {e.edge : e \in Range(run.log)} \ {Nowhere} = {}
    BY <2>1
  <2>3. edges = {w.lo, w.hi}
    BY <2>2 DEF Edges
  <2>4. w \in WorldType
    BY DEF RunType
  <2>. HIDE DEF edges, w
  <2>. QED  BY <2>3, <2>4 DEF WorldType
<1>2. walk \in Seq(Spot) /\ DOMAIN walk = 1..Len(walk)
  BY DenseIs
<1>3. seq = [i \in DOMAIN walk |-> sample(walk[i])]
  BY DEF Measured
<1>. HIDE DEF edges, walk, seq
<1>0. edges \in SUBSET Int /\ edges # {}
  BY <1>1
<1>4. ASSUME NEW x \in Int
      PROVE  nearest(x) \in edges /\ \A f \in edges : Apart(x, nearest(x)) <= Apart(x, f)
  <2>. DEFINE D == {Apart(x, e) : e \in edges}
  <2>1. D \in SUBSET Nat /\ D # {}
    BY <1>0, ApartIs
  <2>2. PICK m \in D : \A k \in D : m <= k
    BY <2>1, LeastIsThere
  <2>3. PICK e \in edges : m = Apart(x, e)
    BY <2>2
  <2>4. \A f \in edges : Apart(x, e) <= Apart(x, f)
    BY <2>2, <2>3
  <2>. QED  BY <2>4
<1>. HIDE DEF nearest
<1>5. ASSUME NEW x \in Int, Outside(w, x) > 0 PROVE Apart(x, nearest(x)) = Outside(w, x)
  <2>. DEFINE n == nearest(x)
              a == Min({w.lo, w.hi})
              b == Max({w.lo, w.hi})
  <2>1. /\ a = (IF w.lo <= w.hi THEN w.lo ELSE w.hi)
        /\ b = (IF w.lo <= w.hi THEN w.hi ELSE w.lo)
    BY <1>1, PairMin, PairMax
  <2>2. Outside(w, x) = CASE x < a -> a - x [] x > b -> x - b [] OTHER -> 0
    BY DEF Outside, OffSegment
  <2>. HIDE DEF a, b
  <2>3. /\ n = w.lo \/ n = w.hi
        /\ Apart(x, n) <= Apart(x, w.lo) /\ Apart(x, n) <= Apart(x, w.hi)
    BY <1>1, <1>4
  <2>. HIDE DEF n, w
  <2>4. a \in Int /\ b \in Int /\ a <= b
    BY <1>1, <2>1
  <2>5. CASE x < a
    <3>1. Outside(w, x) = a - x
      BY <2>2, <2>4, <2>5
    <3>. QED  BY <1>1, <2>1, <2>3, <2>5, <3>1 DEF Apart, n
  <2>6. CASE x > b
    <3>1. Outside(w, x) = x - b
      BY <2>2, <2>4, <2>6
    <3>. QED  BY <1>1, <2>1, <2>3, <2>6, <3>1 DEF Apart, n
  <2>7. CASE ~(x < a) /\ ~(x > b)
    <3>1. Outside(w, x) = 0
      BY <2>2, <2>7
    <3>. QED  BY <1>5, <3>1
  <2>. QED  BY <2>5, <2>6, <2>7
<1>6. ASSUME NEW i \in 1..Len(walk), Outside(run.w, walk[i].x) > 0
      PROVE  seq[i].d = Outside(run.w, walk[i].x)
  <2>1. walk[i].x \in Int
    <3>1. walk[i] \in Spot
      BY <1>2
    <3>. QED  BY <3>1 DEF Spot
  <2>2. seq[i].d = Apart(walk[i].x, nearest(walk[i].x))
    BY <1>2, <1>3
  <2>. QED  BY <1>5, <1>6, <2>1, <2>2 DEF w
<1>. QED  BY <1>2, <1>6 DEF OverItsEdges, walk, seq

LEMMA ItBorders ==
    ASSUME NEW run \in RunType, Paced(run), Grounded(run), OverItsEdges(run)
    PROVE  LET walk == DenseSamples(run) IN
           Bordered(Measured(run, walk), [k \in 1..Len(walk) |-> Outside(run.w, walk[k].x)])
<1>. DEFINE walk == DenseSamples(run)
            seq == Measured(run, walk)
            o == [k \in 1..Len(walk) |-> Outside(run.w, walk[k].x)]
            n == Len(walk)
<1>1. /\ DOMAIN walk = 1..n /\ n \in Nat /\ Len(seq) = n
      /\ \A i \in 1..n : seq[i].inside <=> Outside(run.w, walk[i].x) = 0
  BY MeasuredSays
<1>2. /\ walk \in Seq(Spot) /\ Close(walk)
      /\ \A x : Visited(run, x) => Passes(walk, x)
  BY DenseGoes
<1>3. \A i \in 1..n : Outside(run.w, walk[i].x) > 0 => seq[i].d = Outside(run.w, walk[i].x)
  BY <1>1 DEF OverItsEdges
<1>4. run.w \in WorldType
  BY DEF RunType
<1>5. PICK x \in Int : Visited(run, x) /\ Outside(run.w, x) = 0
  BY DEF Grounded
<1>6. PICK h \in 1..n : walk[h].x = x
  BY <1>2, <1>5 DEF Passes
<1>. HIDE DEF walk, seq
<1>7. \A k \in 1..n : o[k] = Outside(run.w, walk[k].x)
  OBVIOUS
<1>8. \A k \in 1..n : walk[k].x \in Int
  <2>1. \A k \in 1..n : walk[k] \in Spot
    BY <1>2
  <2>. QED  BY <2>1 DEF Spot
<1>. HIDE DEF o, n
<1>9. \A k \in 1..n : /\ o[k] \in Nat /\ (seq[k].inside <=> o[k] = 0)
                      /\ o[k] > 0 => seq[k].d = o[k]
  BY <1>1, <1>3, <1>4, <1>7, <1>8, OutsideIs
<1>10. ASSUME NEW k \in 1..(n - 1) PROVE Apart(o[k], o[k + 1]) <= 1
  <2>1. k \in 1..n /\ k + 1 \in 1..n
    BY <1>1
  <2>2. Apart(walk[k].x, walk[k + 1].x) <= 1
    BY <1>2 DEF Close, n
  <2>. QED  BY <1>4, <1>7, <1>8, <2>1, <2>2, OutsideIs
<1>11. \E k \in 1..n : o[k] = 0
  BY <1>5, <1>6, <1>7
<1>12. Bordered(seq, o)
  BY <1>1, <1>9, <1>10, <1>11 DEF Bordered
<1>. QED  BY <1>12 DEF o, seq, walk, n

\* A failure has a step.
LEMMA ExitSays ==
    ASSUME NEW run \in RunType, Paced(run), run.path # <<>>
    PROVE  LET walk == DenseSamples(run) IN
           ExitStep(run) # Never <=> \E k \in 1..Len(walk) : Outside(run.w, walk[k].x) > Grace
<1>. DEFINE walk == DenseSamples(run)
            out == {i \in DOMAIN walk : Outside(run.w, walk[i].x) > Grace}
<1>1. DOMAIN walk = 1..Len(walk) /\ Len(walk) \in Nat
  BY DenseIs
<1>2. ExitStep(run) = IF out = {} THEN Never ELSE walk[Min(out)].step
  BY DEF ExitStep
<1>3. InTime(walk)
  BY DenseGoes
<1>. HIDE DEF walk
<1>4. ASSUME out # {} PROVE ExitStep(run) # Never
  <2>1. out \in SUBSET Nat
    BY <1>1
  <2>2. Min(out) \in out
    <3>. HIDE DEF out
    <3>. QED  BY <1>4, <2>1, MinIs
  <2>3. Min(out) \in 1..Len(walk)
    BY <1>1, <2>2
  <2>4. walk[Min(out)].step \in Nat
    <3>. HIDE DEF out
    <3>. QED  BY <1>3, <2>3 DEF InTime
  <2>. HIDE DEF out
  <2>. QED  BY <1>2, <1>4, <2>4 DEF Never
<1>5. out # {} <=> \E k \in 1..Len(walk) : Outside(run.w, walk[k].x) > Grace
  BY <1>1
<1>. HIDE DEF out
<1>. QED  BY <1>2, <1>4, <1>5 DEF walk

LEMMA FallsAgree ==
    ASSUME NEW run \in RunType, Paced(run), Grounded(run), OverItsEdges(run), run.path # <<>>
    PROVE  LET episodes == EdgeEncounterEpisodes(run)
           IN  ExitStep(run) # Never <=> \E i \in DOMAIN episodes : ~episodes[i].survived
<1>. DEFINE walk == DenseSamples(run)
            seq == Measured(run, walk)
            o == [k \in 1..Len(walk) |-> Outside(run.w, walk[k].x)]
            st == Scan(EpisodeStep, NoEpisode, seq)
            all == IF st.in THEN Append(st.done, Episode(st)) ELSE st.done
<1>1. seq \in Seq(SampleType) /\ Len(seq) = Len(walk)
  BY MeasuredIs, MeasuredSays
<1>2. EdgeEncounterEpisodes(run) = all
  BY DEF EdgeEncounterEpisodes, EpisodesOf
<1>3. Bordered(seq, o)
  BY ItBorders
<1>4. ExitStep(run) # Never <=> \E k \in 1..Len(walk) : Outside(run.w, walk[k].x) > Grace
  BY ExitSays
<1>. HIDE DEF walk, seq
<1>5. \A k \in 1..Len(walk) : o[k] = Outside(run.w, walk[k].x)
  OBVIOUS
<1>. HIDE DEF o
<1>6. Fell(st) <=> \E k \in 1..Len(seq) : o[k] > Grace
  BY <1>1, <1>3, FallsAreSeen
<1>7. InOrFresh(st)
  BY <1>1, ScansMatch DEF Matches
<1>. HIDE DEF st
<1>8. Fell(st) <=> \E i \in DOMAIN all : ~all[i].survived
  BY <1>7, FellSays
<1>. HIDE DEF all
<1>. QED  BY <1>1, <1>2, <1>4, <1>5, <1>6, <1>8

\* Every sample of a run that is under test from its start and has not failed counts.
LEMMA AllWatched ==
    ASSUME NEW run \in RunType, Paced(run), run.path # <<>>, ExitStep(run) = Never, Onset(run) = 0
    PROVE  Watched(run) = Measured(run, DenseSamples(run))
<1>. DEFINE walk == DenseSamples(run)
            seq == Measured(run, walk)
            n == Len(seq)
<1>1. seq \in Seq(SampleType) /\ Len(seq) = Len(walk) /\ \A i \in 1..Len(walk) : seq[i].step = walk[i].step
  BY MeasuredIs, MeasuredSays
<1>2. InTime(walk)
  BY DenseGoes
<1>3. PICK F : /\ Watched(run) = F[n] /\ F[0] = <<>>
               /\ \A i \in 1..n : F[i] = KeepStep(run, F[i - 1], seq[i])
               /\ \A i \in 0..n : F[i] \in Seq(SampleType)
  BY WatchedCourse
<1>. HIDE DEF walk, seq
<1>4. n \in Nat /\ \A i \in 1..n : seq[i] \in SampleType /\ seq[i].step \in Nat
  BY <1>1, <1>2 DEF InTime
<1>5. \A i \in 1..n : F[i] = Append(F[i - 1], seq[i])
  <2>. TAKE i \in 1..n
  <2>1. Counts(run, seq[i])
    BY <1>4 DEF Counts
  <2>. QED  BY <1>3, <2>1 DEF KeepStep
<1>. HIDE DEF n
<1>. DEFINE G == {i \in 0..n : Len(F[i]) = i /\ \A k \in 1..i : F[i][k] = seq[k]}
<1>6. 0 \in G
  BY <1>3, <1>4
<1>7. ASSUME NEW i \in 1..n, i - 1 \in G PROVE i \in G
  <2>1. i \in 0..n /\ i - 1 \in 0..n
    BY <1>4
  <2>. DEFINE p == F[i - 1]
              q == F[i]
  <2>2. /\ p \in Seq(SampleType) /\ Len(p) = i - 1 /\ q = Append(p, seq[i]) /\ seq[i] \in SampleType
        /\ \A k \in 1..(i - 1) : p[k] = seq[k]
    BY <1>3, <1>4, <1>5, <1>7, <2>1
  <2>. HIDE DEF p, q
  <2>3. Len(q) = i /\ q[i] = seq[i] /\ \A k \in 1..(i - 1) : q[k] = p[k]
    BY <2>1, <2>2
  <2>4. \A k \in 1..i : k \in 1..(i - 1) \/ k = i
    BY <2>1
  <2>5. Len(q) = i /\ \A k \in 1..i : q[k] = seq[k]
    BY <2>2, <2>3, <2>4
  <2>. QED  BY <2>1, <2>5 DEF q
<1>8. G = 0..n
  <2>. HIDE DEF G
  <2>1. G \in SUBSET (0..n)
    BY DEF G
  <2>. QED  BY <1>4, <1>6, <1>7, <2>1, HandedOn
<1>9. n \in 0..n
  BY <1>4
<1>10. F[n] \in Seq(SampleType) /\ Len(F[n]) = n /\ \A k \in 1..n : F[n][k] = seq[k]
  BY <1>3, <1>8, <1>9
<1>. DEFINE q == F[n]
<1>. HIDE DEF q
<1>11. seq = [k \in 1..n |-> seq[k]]
  BY <1>1 DEF n
<1>12. q = [k \in 1..n |-> q[k]]
  <2>1. q \in Seq(SampleType) /\ Len(q) = n
    BY <1>10 DEF q
  <2>. QED  BY <2>1
<1>13. q = seq
  BY <1>10, <1>11, <1>12 DEF q
<1>. QED  BY <1>3, <1>13 DEF q, seq, walk

LEMMA EncountersAgree ==
    ASSUME NEW run \in RunType, Paced(run), run.path # <<>>, ExitStep(run) = Never, Onset(run) = 0
    PROVE  Len(EdgeEncounterEpisodes(run)) = Entries(run)
<1>. DEFINE seq == Measured(run, DenseSamples(run))
            e == Scan(EntryStep, NoEntry, seq)
            st == Scan(EpisodeStep, NoEpisode, seq)
<1>1. Matches(e, st)
  BY MeasuredIs, ScansMatch
<1>2. Entries(run) = e.entries
  BY AllWatched DEF Entries, EntryScan, NoEntry
<1>3. EdgeEncounterEpisodes(run) = IF st.in THEN Append(st.done, Episode(st)) ELSE st.done
  BY DEF EdgeEncounterEpisodes, EpisodesOf
<1>. HIDE DEF e, st
<1>4. /\ st.done \in Seq(EpisodeType) /\ st.over \in Nat /\ st.entry \in Int
      /\ e.entries = IF st.in THEN Len(st.done) + 1 ELSE Len(st.done)
  BY <1>1 DEF Matches, InOrFresh, EpisodeState
<1>5. Episode(st) \in EpisodeType
  BY <1>4, RulesAssumption DEF Episode, EpisodeType
<1>6. Len(Append(st.done, Episode(st))) = Len(st.done) + 1
  BY <1>4, <1>5
<1>. QED  BY <1>2, <1>3, <1>4, <1>6

\* "Same encounter definition as the check rule" (battery_evidence.py:210): wherever the robot
\* has left the island only over the edge it is tested against, the check has an encounter that was
\* not survived exactly when the evidence has a failure, and a run that was under test from its
\* start and did not fail has as many entries as encounters, although the check closes an
\* encounter only at a full retreat and the evidence leaves the band at once and re-arms later.
THEOREM SameEncounterDefinition == Spec => [](OverItsEdges(sim) => CheckAndEvidenceAgree)
<1>1. Init => SteadyAndGrounded
  BY GroundedInit
<1>2. SteadyAndGrounded /\ [Next]_vars => SteadyAndGrounded'
  BY GroundedStep
<1>3. SteadyAndGrounded => (OverItsEdges(sim) => CheckAndEvidenceAgree)
  <2>. SUFFICES ASSUME SteadyAndGrounded, OverItsEdges(sim), Scored
                PROVE  LET episodes == EdgeEncounterEpisodes(sim)
                       IN  /\ ExitStep(sim) # Never <=> \E i \in DOMAIN episodes : ~episodes[i].survived
                           /\ ExitStep(sim) = Never /\ Onset(sim) = 0 => Len(episodes) = Entries(sim)
    BY DEF CheckAndEvidenceAgree
  <2>1. sim \in RunType /\ Paced(sim) /\ Grounded(sim) /\ sim.path # <<>>
    BY DEF SteadyAndGrounded, Steady, SteadyRun, Typed, Scored
  <2>. QED  BY <2>1, FallsAgree, EncountersAgree
<1>. QED  BY <1>1, <1>2, <1>3, PTL DEF Spec

\* So they agree for every card without a placed edge, whatever its island and the program:
\* there the edges of battery_evidence._edges are those the robot leaves the island by.
THEOREM SameEncountersOnOwnIsland == Spec => [](OnItsOwnIsland(sim) => CheckAndEvidenceAgree)
<1>1. Typed => (OnItsOwnIsland(sim) => OverItsEdges(sim))
  BY OwnIslandOver DEF Typed
<1>. QED  BY <1>1, SameEncounterDefinition, TypedAlways, PTL
=============================================================================
