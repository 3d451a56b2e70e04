---------------------------- MODULE ScoredRunProofs ----------------------------
(***************************************************************************)
(* What the timeline and the profile owe each other, for every world,      *)
(* card, run and exit.  Both look at one trace: the invariant, TraceInv,   *)
(* says what is recorded in it.  The rest is about operators: the running  *)
(* minimum and the search of the timeline compute what the indicators      *)
(* measure, and a scan of the cut path is the restriction of the scan of   *)
(* the whole.                                                              *)
(***************************************************************************)
EXTENDS ScoredRun, FiniteSetTheorems, WellFoundedInduction, TLAPS

-----------------------------------------------------------------------------
(***************************************************************************)
(* Least numbers.                                                          *)
(***************************************************************************)
LEMMA BestIs ==
    ASSUME NEW S \in SUBSET Nat, S # {}
    PROVE  Best(S) \in S /\ \A n \in S : Best(S) <= n
<1>1. PICK m \in S : \A y \in S : ~(<<y, m>> \in OpToRel(<, Nat))
  BY NatLessThanWellFounded, WFMin
<1>2. ASSUME NEW y \in S PROVE m <= y
  <2>1. m \in Nat /\ y \in Nat
    OBVIOUS
  <2>2. ~(y < m)
    BY <1>1, <2>1 DEF OpToRel
  <2>. QED  BY <2>1, <2>2
<1>3. \E k \in S : \A n \in S : k <= n
  BY <1>2
<1>. QED  BY <1>3 DEF Best

\* The least of a set is known by what it is.
LEMMA BestIsThis ==
    ASSUME NEW S \in SUBSET Nat, NEW m \in S, \A n \in S : m <= n
    PROVE  Best(S) = m
<1>1. Best(S) \in S /\ Best(S) <= m
  BY BestIs
<1>2. Best(S) \in Nat /\ m \in Nat /\ m <= Best(S)
  BY <1>1
<1>. QED  BY <1>1, <1>2

\* The first edge that is not passed, or the place after the last.
NotPassed(edges, v) == {i \in 1..Len(edges) : v <= edges[i]} \cup {Len(edges) + 1}

LEMMA RungIsFirst ==
    ASSUME NEW edges \in Seq(Int), NEW v \in Int
    PROVE  /\ LowerIsBetter(edges, v) \in 0..Len(edges)
           /\ LowerIsBetter(edges, v) + 1 \in NotPassed(edges, v)
           /\ \A i \in NotPassed(edges, v) : LowerIsBetter(edges, v) + 1 <= i
<1>1. Len(edges) \in Nat
  OBVIOUS
<1>2. NotPassed(edges, v) \in SUBSET (1..(Len(edges) + 1)) /\ NotPassed(edges, v) # {}
  BY <1>1 DEF NotPassed
<1>3. NotPassed(edges, v) \in SUBSET Nat
  BY <1>1, <1>2
<1>. DEFINE m == Best(NotPassed(edges, v))
<1>4. m \in NotPassed(edges, v) /\ \A i \in NotPassed(edges, v) : m <= i
  BY <1>2, <1>3, BestIs
<1>5. LowerIsBetter(edges, v) = m - 1
  BY DEF LowerIsBetter, NotPassed
<1>. HIDE DEF m
<1>6. m \in 1..(Len(edges) + 1) /\ m - 1 \in 0..Len(edges) /\ (m - 1) + 1 = m
  BY <1>1, <1>2, <1>4
<1>. QED  BY <1>4, <1>5, <1>6

\* The nearer the robot came, the lower the rung.
LEMMA NearerIsBetter ==
    ASSUME NEW edges \in Seq(Int), NEW v \in Int, NEW u \in Int, u <= v
    PROVE  LowerIsBetter(edges, u) <= LowerIsBetter(edges, v)
<1>1. Len(edges) \in Nat /\ \A i \in 1..Len(edges) : edges[i] \in Int
  OBVIOUS
<1>2. NotPassed(edges, v) \subseteq NotPassed(edges, u)
  BY <1>1 DEF NotPassed
<1>3. LowerIsBetter(edges, v) + 1 \in NotPassed(edges, u)
  BY <1>2, RungIsFirst
<1>4. LowerIsBetter(edges, u) + 1 <= LowerIsBetter(edges, v) + 1
  BY <1>3, RungIsFirst
<1>5. LowerIsBetter(edges, u) \in 0..Len(edges) /\ LowerIsBetter(edges, v) \in 0..Len(edges)
  BY RungIsFirst
<1>. QED  BY <1>1, <1>4, <1>5

-----------------------------------------------------------------------------
(***************************************************************************)
(* The running minimum, and the binary search: each is a recursion, and    *)
(* each has a closed form that solves it, the only one that does.          *)
(***************************************************************************)
Measured(distance, i) == {distance[j] : j \in 0..i} \ {None}
LeastSoFar(distance, i) == IF Measured(distance, i) = {} THEN None ELSE Best(Measured(distance, i))

LEMMA LeastGrows ==
    ASSUME NEW n \in Nat, NEW distance \in [0..n -> Nat \cup {None}]
    PROVE  /\ LeastSoFar(distance, 0) = distance[0]
           /\ \A i \in 1..n :
                LET d == distance[i]
                    prev == LeastSoFar(distance, i - 1)
                IN  LeastSoFar(distance, i) =
                      IF d # None /\ (prev = None \/ d < prev) THEN d ELSE prev
<1>0. None \notin Nat
  BY DEF None
<1>1. LeastSoFar(distance, 0) = distance[0]
  <2>1. Measured(distance, 0) = {distance[0]} \ {None}
    BY DEF Measured
  <2>2. CASE distance[0] = None
    BY <2>1, <2>2 DEF LeastSoFar
  <2>3. CASE distance[0] # None
    <3>1. distance[0] \in Nat /\ Measured(distance, 0) = {distance[0]}
      BY <2>1, <2>3
    <3>2. Best(Measured(distance, 0)) = distance[0]
      BY <3>1, BestIsThis
    <3>. QED  BY <3>1, <3>2 DEF LeastSoFar
  <2>. QED  BY <2>2, <2>3
<1>2. ASSUME NEW i \in 1..n
      PROVE  LET d == distance[i]
                 prev == LeastSoFar(distance, i - 1)
             IN  LeastSoFar(distance, i) =
                   IF d # None /\ (prev = None \/ d < prev) THEN d ELSE prev
  <2>. DEFINE d == distance[i]
              old == Measured(distance, i - 1)
              new == Measured(distance, i)
  <2>1. new = old \cup ({d} \ {None})
    <3>1. \A j : j \in 0..i <=> j \in 0..(i - 1) \/ j = i
      OBVIOUS
    <3>. QED  BY <3>1 DEF Measured
  <2>2. old \in SUBSET Nat /\ d \in Nat \cup {None}
    BY DEF Measured
  <2>. HIDE DEF old, new, d
  <2>3. LeastSoFar(distance, i - 1) = (IF old = {} THEN None ELSE Best(old))
        /\ LeastSoFar(distance, i) = (IF new = {} THEN None ELSE Best(new))
    BY DEF LeastSoFar, old, new
  <2>4. CASE d = None
    BY <2>1, <2>3, <2>4 DEF d
  <2>5. CASE d # None /\ old = {}
    <3>1. new = {d} /\ d \in Nat
      BY <2>1, <2>2, <2>5
    <3>2. Best(new) = d
      BY <3>1, BestIsThis
    <3>. QED  BY <2>3, <2>5, <3>1, <3>2 DEF d
  <2>6. CASE d # None /\ old # {}
    <3>1. Best(old) \in old /\ (\A m \in old : Best(old) <= m) /\ Best(old) \in Nat
      BY <2>2, <2>6, BestIs
    <3>2. new = old \cup {d} /\ d \in Nat /\ new \in SUBSET Nat
      BY <2>1, <2>2, <2>6
    <3>3. CASE d < Best(old)
      <4>1. \A m \in new : d <= m
        BY <2>2, <3>1, <3>2, <3>3
      <4>2. Best(new) = d
        BY <3>2, <4>1, BestIsThis
      <4>. QED  BY <2>3, <2>6, <3>1, <3>2, <3>3, <4>2, <1>0 DEF d
    <3>4. CASE ~(d < Best(old))
      <4>1. Best(old) \in new /\ \A m \in new : Best(old) <= m
        BY <2>2, <3>1, <3>2, <3>4
      <4>2. Best(new) = Best(old)
        BY <3>2, <4>1, BestIsThis
      <4>. QED  BY <2>3, <2>6, <3>1, <3>2, <3>4, <4>2, <1>0 DEF d
    <3>. QED  BY <3>3, <3>4
  <2>. QED  BY <2>4, <2>5, <2>6
<1>. QED  BY <1>1, <1>2

LEMMA RunningIsLeast ==
    ASSUME NEW n \in Nat, NEW distance \in [0..n -> Nat \cup {None}]
    PROVE  RunningMinimum(distance) = [i \in 0..n |-> LeastSoFar(distance, i)]
<1>. DEFINE Step(r, i) == IF i = 0 THEN distance[0]
                          ELSE LET d == distance[i]
                                   prev == r[i - 1]
                               IN  IF d # None /\ (prev = None \/ d < prev) THEN d ELSE prev
            least == [i \in 0..n |-> LeastSoFar(distance, i)]
            running == RunningMinimum(distance)
<1>1. least = [i \in 0..n |-> Step(least, i)]
  <2>1. \A i \in 0..n : LeastSoFar(distance, i) = Step(least, i)
    <3>1. \A i \in 1..n : least[i - 1] = LeastSoFar(distance, i - 1)
      OBVIOUS
    <3>. QED  BY <3>1, LeastGrows
  <2>. QED  BY <2>1
<1>2. running = CHOOSE r : r = [i \in 0..n |-> Step(r, i)]
  BY DEF RunningMinimum
<1>3. running = [i \in 0..n |-> Step(running, i)]
  <2>. HIDE DEF least, running, Step
  <2>1. \E r : r = [i \in 0..n |-> Step(r, i)]
    BY <1>1
  <2>. QED  BY <1>2, <2>1
<1>4. \A i \in 0..n : running[i] = Step(running, i) /\ least[i] = Step(least, i)
  BY <1>1, <1>3
<1>. DEFINE wrong == {i \in 0..n : running[i] # least[i]}
<1>5. wrong = {}
  <2>. SUFFICES ASSUME wrong # {} PROVE FALSE
    OBVIOUS
  <2>. HIDE DEF running, least
  <2>1. wrong \in SUBSET Nat
    OBVIOUS
  <2>. DEFINE i == Best(wrong)
  <2>2. i \in wrong /\ \A j \in wrong : i <= j
    BY <2>1, BestIs
  <2>. HIDE DEF i
  <2>3. i \in 0..n /\ running[i] # least[i]
    BY <2>2
  <2>4. i # 0
    BY <1>4, <2>3
  <2>5. i \in 1..n /\ i - 1 \in 0..n /\ ~(i <= i - 1)
    BY <2>3, <2>4
  <2>6. running[i - 1] = least[i - 1]
    BY <2>2, <2>5
  <2>. QED  BY <1>4, <2>3, <2>5, <2>6
<1>6. \A i \in 0..n : running[i] = LeastSoFar(distance, i)
  <2>. HIDE DEF running
  <2>. QED  BY <1>5
<1>7. running = [i \in 0..n |-> LeastSoFar(distance, i)]
  <2>. HIDE DEF running, Step
  <2>. QED  BY <1>3, <1>6
<1>. QED  BY <1>7

\* The first of lo..hi - 1 where a test comes out true, or hi.
Passing(passes, lo, hi) == {j \in lo..(hi - 1) : passes[j]}
FirstIn(passes, lo, hi) ==
    IF Passing(passes, lo, hi) = {} THEN hi ELSE Best(Passing(passes, lo, hi))

\* The search by halves finds it, if the test stays true once it is.
LEMMA HalvesFind ==
    ASSUME NEW n \in Nat, NEW passes \in [1..n -> BOOLEAN],
           \A i, j \in 1..n : i <= j /\ passes[i] => passes[j],
           NEW lo \in 1..n, NEW hi \in 1..n, lo < hi,
           NEW mid \in lo..(hi - 1)
    PROVE  FirstIn(passes, lo, hi) =
               IF passes[mid] THEN FirstIn(passes, lo, mid) ELSE FirstIn(passes, mid + 1, hi)
<1>. DEFINE low == Passing(passes, lo, mid)
            all == Passing(passes, lo, hi)
<1>1. mid \in Nat /\ lo <= mid /\ mid < hi /\ mid \in 1..n /\ lo \in Nat /\ hi \in Nat
  OBVIOUS
<1>2. CASE passes[mid]
  <2>1. low \subseteq all /\ mid \in all /\ all \in SUBSET Nat /\ low \in SUBSET Nat
    BY <1>1, <1>2 DEF Passing
  <2>2. \A j \in all : j \in low \/ mid <= j
    BY <1>1 DEF Passing
  <2>3. \A j \in low : j < mid
    BY <1>1 DEF Passing
  <2>4. /\ FirstIn(passes, lo, hi) = Best(all)
        /\ FirstIn(passes, lo, mid) = IF low = {} THEN mid ELSE Best(low)
    BY <2>1 DEF FirstIn
  <2>. HIDE DEF low, all
  <2>5. CASE low = {}
    <3>1. Best(all) = mid
      BY <2>1, <2>2, <2>5, BestIsThis
    <3>. QED  BY <1>2, <2>4, <2>5, <3>1
  <2>6. CASE low # {}
    <3>1. Best(low) \in low /\ \A j \in low : Best(low) <= j
      BY <2>1, <2>6, BestIs
    <3>2. Best(low) \in Nat /\ Best(low) < mid
      BY <2>1, <2>3, <3>1
    <3>3. ASSUME NEW j \in all PROVE Best(low) <= j
      <4>1. j \in Nat
        BY <2>1
      <4>. QED  BY <1>1, <2>2, <3>1, <3>2, <4>1
    <3>4. Best(all) = Best(low)
      BY <2>1, <3>1, <3>3, BestIsThis
    <3>. QED  BY <1>2, <2>4, <2>6, <3>4
  <2>. QED  BY <2>5, <2>6
<1>3. CASE ~passes[mid]
  <2>1. \A j \in lo..mid : ~passes[j]
    BY <1>1, <1>3
  <2>2. Passing(passes, lo, hi) = Passing(passes, mid + 1, hi)
    <3>1. \A j : j \in lo..(hi - 1) <=> j \in lo..mid \/ j \in (mid + 1)..(hi - 1)
      BY <1>1
    <3>. QED  BY <2>1, <3>1 DEF Passing
  <2>. QED  BY <1>3, <2>2 DEF FirstIn
<1>. QED  BY <1>2, <1>3

Enough(sim, edge) == [k \in 1..Len(sim.path) |-> CoverageAt(sim, k) >= edge]

\* What a search of the range lo..hi is to find.
FirstOf(passes, lo, hi) == IF lo >= hi THEN lo ELSE FirstIn(passes, lo, hi)

\* It is found by whatever halves as the code does.
Halved(search, passes, n) ==
    \A lo, hi \in 1..n :
        search[<<lo, hi>>] =
            IF lo >= hi THEN lo
            ELSE IF passes[(lo + hi) \div 2] THEN search[<<lo, (lo + hi) \div 2>>]
                                             ELSE search[<<(lo + hi) \div 2 + 1, hi>>]

LEMMA MiddleIsInside ==
    ASSUME NEW n \in Nat, NEW lo \in 1..n, NEW hi \in 1..n, lo < hi
    PROVE  /\ (lo + hi) \div 2 \in lo..(hi - 1)
           /\ (lo + hi) \div 2 \in 1..n /\ (lo + hi) \div 2 + 1 \in 1..n
OBVIOUS

LEMMA FirstOfHalves ==
    ASSUME NEW n \in Nat, NEW passes \in [1..n -> BOOLEAN],
           \A i, j \in 1..n : i <= j /\ passes[i] => passes[j],
           NEW lo \in 1..n, NEW hi \in 1..n, lo < hi, NEW mid \in lo..(hi - 1)
    PROVE  FirstOf(passes, lo, hi) =
               IF passes[mid] THEN FirstOf(passes, lo, mid) ELSE FirstOf(passes, mid + 1, hi)
<1>1. FirstOf(passes, lo, hi) = FirstIn(passes, lo, hi) /\ lo \in Nat /\ mid \in Nat /\ hi \in Nat
  BY DEF FirstOf
<1>2. FirstOf(passes, lo, mid) = FirstIn(passes, lo, mid)
  <2>1. CASE lo = mid
    <3>1. Passing(passes, lo, mid) = {}
      BY <2>1 DEF Passing
    <3>. QED  BY <2>1, <3>1 DEF FirstOf, FirstIn
  <2>2. CASE lo < mid
    BY <2>2 DEF FirstOf
  <2>. QED  BY <2>1, <2>2
<1>3. FirstOf(passes, mid + 1, hi) = FirstIn(passes, mid + 1, hi)
  <2>1. CASE mid + 1 = hi
    <3>1. Passing(passes, mid + 1, hi) = {}
      BY <2>1 DEF Passing
    <3>. QED  BY <2>1, <3>1 DEF FirstOf, FirstIn
  <2>2. CASE mid + 1 < hi
    BY <2>2 DEF FirstOf
  <2>. QED  BY <1>1, <2>1, <2>2
<1>. QED  BY <1>1, <1>2, <1>3, HalvesFind

LEMMA HalvingFinds ==
    ASSUME NEW n \in Nat, NEW passes \in [1..n -> BOOLEAN],
           \A i, j \in 1..n : i <= j /\ passes[i] => passes[j],
           NEW search, Halved(search, passes, n)
    PROVE  \A lo, hi \in 1..n : search[<<lo, hi>>] = FirstOf(passes, lo, hi)
<1>. DEFINE Wrong(lo, hi) == search[<<lo, hi>>] # FirstOf(passes, lo, hi)
            widths == {w \in 0..n : \E lo \in 1..n : lo + w \in 1..n /\ Wrong(lo, lo + w)}
<1>1. ASSUME NEW lo \in 1..n, NEW hi \in 1..n, lo >= hi PROVE ~Wrong(lo, hi)
  BY <1>1 DEF Halved, FirstOf
<1>2. widths = {}
  <2>. SUFFICES ASSUME widths # {} PROVE FALSE
    OBVIOUS
  <2>1. widths \in SUBSET Nat
    OBVIOUS
  <2>. DEFINE w == Best(widths)
  <2>2. w \in widths /\ \A v \in widths : w <= v
    <3>. HIDE DEF widths
    <3>. QED  BY <2>1, BestIs
  <2>. HIDE DEF w
  <2>3. PICK lo \in 1..n : lo + w \in 1..n /\ Wrong(lo, lo + w)
    BY <2>2
  <2>. DEFINE hi == lo + w
              mid == (lo + hi) \div 2
  <2>4. w \in Nat /\ hi \in 1..n /\ lo < hi
    BY <1>1, <2>1, <2>2, <2>3
  <2>5. mid \in lo..(hi - 1) /\ mid \in 1..n /\ mid + 1 \in 1..n
    BY <2>4, MiddleIsInside
  <2>6. search[<<lo, hi>>] = IF passes[mid] THEN search[<<lo, mid>>] ELSE search[<<mid + 1, hi>>]
    BY <2>4 DEF Halved
  <2>7. FirstOf(passes, lo, hi) =
          IF passes[mid] THEN FirstOf(passes, lo, mid) ELSE FirstOf(passes, mid + 1, hi)
    <3>. HIDE DEF mid, hi
    <3>. QED  BY <2>4, <2>5, FirstOfHalves
  <2>8. ~Wrong(lo, mid)
    <3>. DEFINE v == mid - lo
    <3>1. v \in 0..n /\ v < w /\ lo + v = mid
      <4>. HIDE DEF mid
      <4>. QED  BY <2>4, <2>5
    <3>2. v \notin widths
      <4>. HIDE DEF widths, v
      <4>. QED  BY <2>1, <2>2, <2>4, <3>1
    <3>. QED  BY <2>5, <3>1, <3>2
  <2>9. ~Wrong(mid + 1, hi)
    <3>1. CASE mid + 1 >= hi
      <4>. HIDE DEF Wrong, mid, hi
      <4>. QED  BY <1>1, <2>4, <2>5, <3>1
    <3>2. CASE ~(mid + 1 >= hi)
      <4>. DEFINE v == hi - (mid + 1)
      <4>1. v \in 0..n /\ v < w /\ (mid + 1) + v = hi
        <5>. HIDE DEF mid
        <5>. QED  BY <2>4, <2>5, <3>2
      <4>2. v \notin widths
        <5>. HIDE DEF widths, v
        <5>. QED  BY <2>1, <2>2, <2>4, <4>1
      <4>. QED  BY <2>4, <2>5, <4>1, <4>2
    <3>. QED  BY <3>1, <3>2
  <2>. QED  BY <2>3, <2>6, <2>7, <2>8, <2>9
<1>3. ASSUME NEW lo \in 1..n, NEW hi \in 1..n PROVE ~Wrong(lo, hi)
  <2>1. CASE lo >= hi
    BY <1>1, <2>1
  <2>2. CASE ~(lo >= hi)
    <3>1. hi - lo \in 0..n /\ lo + (hi - lo) = hi
      BY <2>2
    <3>. QED  BY <1>2, <3>1
  <2>. QED  BY <2>1, <2>2
<1>. QED  BY <1>3

\* _scan_region_coverage finds the first prefix that covers enough.
LEMMA SearchFinds ==
    ASSUME NEW sim, NEW edge, Len(sim.path) \in Nat, Len(sim.path) # 0,
           \A i, j \in 1..Len(sim.path) :
              i <= j /\ Enough(sim, edge)[i] => Enough(sim, edge)[j]
    PROVE  FirstPrefix(sim, edge) = FirstOf(Enough(sim, edge), 1, Len(sim.path))
<1>. DEFINE n == Len(sim.path)
            passes == Enough(sim, edge)
            Ranges == (1..n) \X (1..n)
            Halves(s, r) == LET lo == r[1]
                                hi == r[2]
                                mid == (lo + hi) \div 2
                            IN  IF lo >= hi THEN lo
                                ELSE IF CoverageAt(sim, mid) >= edge THEN s[<<lo, mid>>]
                                                                     ELSE s[<<mid + 1, hi>>]
            first == [r \in Ranges |-> FirstOf(passes, r[1], r[2])]
            search == CHOOSE s : s = [r \in Ranges |-> Halves(s, r)]
<1>0. n \in Nat
  OBVIOUS
<1>1. FirstPrefix(sim, edge) = search[<<1, n>>]
  BY DEF FirstPrefix
<1>2. passes \in [1..n -> BOOLEAN] /\ \A k \in 1..n : passes[k] <=> CoverageAt(sim, k) >= edge
  <2>1. \A k \in 1..n : (CoverageAt(sim, k) >= edge) \in BOOLEAN
    OBVIOUS
  <2>. QED  BY <2>1, Zenon DEF Enough
<1>3. \A i, j \in 1..n : i <= j /\ passes[i] => passes[j]
  OBVIOUS
<1>. HIDE DEF passes
<1>4. ASSUME NEW lo \in 1..n, NEW hi \in 1..n PROVE Halves(first, <<lo, hi>>) = FirstOf(passes, lo, hi)
  <2>. DEFINE mid == (lo + hi) \div 2
  <2>1. CASE lo >= hi
    BY <2>1 DEF FirstOf
  <2>2. CASE ~(lo >= hi)
    <3>1. lo < hi
      BY <2>2
    <3>2. mid \in lo..(hi - 1) /\ mid \in 1..n /\ mid + 1 \in 1..n
      <4>. HIDE DEF n
      <4>. QED  BY <1>0, <3>1, MiddleIsInside
    <3>3. first[<<lo, mid>>] = FirstOf(passes, lo, mid)
          /\ first[<<mid + 1, hi>>] = FirstOf(passes, mid + 1, hi)
      <4>. HIDE DEF mid
      <4>. QED  BY <3>2
    <3>4. FirstOf(passes, lo, hi) =
            IF passes[mid] THEN FirstOf(passes, lo, mid) ELSE FirstOf(passes, mid + 1, hi)
      <4>. HIDE DEF mid, n
      <4>. QED  BY <1>0, <1>2, <1>3, <3>1, <3>2, FirstOfHalves
    <3>. HIDE DEF first
    <3>. QED  BY <1>2, <2>2, <3>2, <3>3, <3>4
  <2>. QED  BY <2>1, <2>2
<1>5. first = [r \in Ranges |-> Halves(first, r)]
  <2>1. ASSUME NEW r \in Ranges PROVE FirstOf(passes, r[1], r[2]) = Halves(first, r)
    <3>1. r[1] \in 1..n /\ r[2] \in 1..n /\ r = <<r[1], r[2]>>
      OBVIOUS
    <3>. HIDE DEF Halves, first, n
    <3>. QED  BY <1>4, <3>1
  <2>. HIDE DEF Halves
  <2>. QED  BY <2>1
<1>6. search = [r \in Ranges |-> Halves(search, r)]
  <2>. HIDE DEF first, Halves, Ranges
  <2>1. \E s : s = [r \in Ranges |-> Halves(s, r)]
    BY <1>5
  <2>. QED  BY <2>1
<1>7. Halved(search, passes, n)
  <2>. SUFFICES ASSUME NEW lo \in 1..n, NEW hi \in 1..n
                PROVE  search[<<lo, hi>>] =
                         IF lo >= hi THEN lo
                         ELSE IF passes[(lo + hi) \div 2] THEN search[<<lo, (lo + hi) \div 2>>]
                                                          ELSE search[<<(lo + hi) \div 2 + 1, hi>>]
    BY DEF Halved
  <2>. HIDE DEF search
  <2>1. search[<<lo, hi>>] = Halves(search, <<lo, hi>>)
    <3>1. <<lo, hi>> \in Ranges
      OBVIOUS
    <3>. HIDE DEF Halves
    <3>. QED  BY <1>6, <3>1
  <2>. DEFINE mid == (lo + hi) \div 2
  <2>2. Halves(search, <<lo, hi>>) =
          IF lo >= hi THEN lo
          ELSE IF CoverageAt(sim, mid) >= edge THEN search[<<lo, mid>>]
                                               ELSE search[<<mid + 1, hi>>]
    OBVIOUS
  <2>3. CASE lo >= hi
    BY <2>1, <2>2, <2>3
  <2>4. CASE ~(lo >= hi)
    <3>1. lo < hi
      BY <2>4
    <3>2. mid \in 1..n
      <4>. HIDE DEF n
      <4>. QED  BY <1>0, <3>1, MiddleIsInside
    <3>. HIDE DEF mid, Halves
    <3>3. passes[mid] <=> CoverageAt(sim, mid) >= edge
      BY <1>2, <3>2
    <3>4. search[<<lo, hi>>] = IF passes[mid] THEN search[<<lo, mid>>] ELSE search[<<mid + 1, hi>>]
      BY <2>1, <2>2, <2>4, <3>3
    <3>. QED  BY <2>4, <3>4 DEF mid
  <2>. QED  BY <2>3, <2>4
<1>8. search[<<1, n>>] = FirstOf(passes, 1, n)
  <2>. HIDE DEF search
  <2>1. 1 \in 1..n /\ n \in 1..n
    OBVIOUS
  <2>. HIDE DEF n
  <2>. QED  BY <1>0, <1>2, <1>3, <1>7, <2>1, HalvingFinds
<1>. QED  BY <1>1, <1>8 DEF passes
-----------------------------------------------------------------------------
(***************************************************************************)
(* The trace.  Entry i is step i - 1, the robot stands where the last      *)
(* entry says, a merged slice goes on in the direction of its entry, and   *)
(* all that the recorded positions tell of the coverage was covered.       *)
(***************************************************************************)
Blocks == {"drive_for", "drive", "turn", "magnet"}
Entries == [step : Nat, x : World, block : Blocks]

Recorded ==
    /\ x \in World /\ heading \in {1, -1}
    /\ path \in Seq(Entries) /\ step = Len(path)
    /\ \A i \in 1..Len(path) : path[i].step = i - 1
    /\ x = Position(FullSim, Len(path))
    /\ magnet \in Nat \cup {None}
    /\ magnet # None => magnet < Len(path) /\ path[magnet + 1].block = "magnet"

Covered ==
    /\ cells \subseteq Region
    /\ Len(path) = 0 => cells = {}
    /\ x \in Region => x \in cells
    /\ Len(path) # 0 /\ path[Len(path)].block = "drive" =>
         heading * (x - Position(FullSim, Len(path) - 1)) >= 0
    /\ PrefixCells(FullSim, Len(path)) \subseteq cells

TraceInv == Recorded /\ Covered

\* What the other variables hold, and the run's own parameters.
Setting ==
    /\ anchor \in World \cup {None} /\ contact \in Nat \cup {None}
    /\ params \in Params /\ authored \in 0..2

LEMMA EntryFields ==
    ASSUME NEW e \in Entries
    PROVE  e.step \in Nat /\ e.x \in World /\ e.block \in Blocks
BY DEF Entries

\* What the first k moves cover depends on the first k positions, and grows with k.
LEMMA SamePrefix ==
    ASSUME NEW s, NEW t, NEW k \in Nat, \A i \in 0..k : Position(s, i) = Position(t, i)
    PROVE  PrefixCells(s, k) = PrefixCells(t, k)
<1>1. \A i \in 1..k : i \in 0..k /\ i - 1 \in 0..k
  OBVIOUS
<1>. QED  BY <1>1 DEF PrefixCells

LEMMA PrefixGrows ==
    ASSUME NEW s, NEW k \in Nat
    PROVE  PrefixCells(s, k + 1) =
               PrefixCells(s, k) \cup SampledCells(Position(s, k), Position(s, k + 1))
<1>1. \A i : i \in 1..(k + 1) <=> i \in 1..k \/ i = k + 1
  OBVIOUS
<1>2. (k + 1) - 1 = k
  OBVIOUS
<1>. QED  BY <1>1, <1>2 DEF PrefixCells

LEMMA NothingYet == ASSUME NEW s PROVE PrefixCells(s, 0) = {}
BY DEF PrefixCells

\* An entry is added.
LEMMA EntryAdded ==
    ASSUME TraceInv, NEW block \in Blocks, NEW to \in World,
           path' = Append(path, Entry(block, to)), step' = step + 1, x' = to,
           cells' = cells \cup SampledCells(x, to),
           heading' \in {1, -1},
           block = "drive" => heading' * (to - x) >= 0,
           \/ magnet' = magnet
           \/ magnet' = step /\ block = "magnet"
    PROVE  TraceInv'
<1>. DEFINE n == Len(path)
            new == Entry(block, to)
<1>0. n \in Nat /\ step = n /\ DOMAIN path = 1..n /\ \A i \in 1..n : path[i] \in Entries
  BY DEF TraceInv, Recorded
<1>1. new \in Entries /\ new.step = n /\ new.x = to /\ new.block = block
  BY <1>0 DEF Entry, Entries
<1>. HIDE DEF new
<1>2. /\ path' \in Seq(Entries) /\ Len(path') = n + 1
      /\ \A i \in 1..n : path'[i] = path[i]
      /\ path'[n + 1] = new
  <2>1. path \in Seq(Entries) /\ path' = Append(path, new)
    BY DEF TraceInv, Recorded, new
  <2>. QED  BY <1>1, <2>1
<1>. HIDE DEF n
<1>3. /\ \A i \in 0..n : Position(FullSim', i) = Position(FullSim, i)
      /\ Position(FullSim', n + 1) = to
      /\ Position(FullSim, n) = x
  <2>1. FullSim'.path = path' /\ FullSim.path = path
    BY DEF FullSim
  <2>2. Position(FullSim, n) = x
    BY DEF TraceInv, Recorded, n
  <2>3. \A i \in 0..n : i = 0 \/ i \in 1..n
    BY <1>0
  <2>4. n + 1 # 0
    BY <1>0
  <2>. QED  BY <1>1, <1>2, <2>1, <2>2, <2>3, <2>4 DEF Position
<1>4. Recorded'
  <2>1. \A i \in 1..(n + 1) : path'[i].step = i - 1
    <3>1. \A i \in 1..(n + 1) : i \in 1..n \/ i = n + 1
      BY <1>0
    <3>. QED  BY <1>0, <1>1, <1>2, <3>1 DEF TraceInv, Recorded, n
  <2>2. /\ magnet' \in Nat \cup {None}
        /\ magnet' # None => magnet' < n + 1 /\ path'[magnet' + 1].block = "magnet"
    <3>1. CASE magnet' = magnet
      <4>1. magnet # None => magnet \in Nat /\ magnet < n /\ path[magnet + 1].block = "magnet"
        BY DEF TraceInv, Recorded, n
      <4>2. magnet # None => magnet + 1 \in 1..n
        BY <1>0, <4>1
      <4>. QED  BY <1>0, <1>2, <3>1, <4>1, <4>2 DEF TraceInv, Recorded
    <3>2. CASE magnet' = step /\ block = "magnet"
      BY <1>0, <1>1, <1>2, <3>2
    <3>. QED  BY <3>1, <3>2
  <2>3. x' = Position(FullSim', n + 1) /\ step' = n + 1
    BY <1>0, <1>3
  <2>. QED  BY <1>2, <2>1, <2>2, <2>3 DEF Recorded
<1>5. Covered'
  <2>1. SampledCells(x, to) \subseteq Region /\ (to \in Region => to \in SampledCells(x, to))
    <3>1. x \in Nat /\ to \in Nat
      BY SceneAssumption DEF TraceInv, Recorded
    <3>. QED  BY <3>1 DEF SampledCells, Between
  <2>2. PrefixCells(FullSim', n + 1) = PrefixCells(FullSim, n) \cup SampledCells(x, to)
    <3>1. PrefixCells(FullSim', n) = PrefixCells(FullSim, n)
      BY <1>0, <1>3, SamePrefix
    <3>2. Position(FullSim', n) = x
      BY <1>0, <1>3
    <3>. QED  BY <1>0, <1>3, <3>1, <3>2, PrefixGrows
  <2>3. cells' \subseteq Region /\ (x' \in Region => x' \in cells')
    BY <2>1 DEF TraceInv, Covered
  <2>4. PrefixCells(FullSim', n + 1) \subseteq cells'
    BY <2>2 DEF TraceInv, Covered, n
  <2>5. path'[n + 1].block = "drive" => heading' * (x' - Position(FullSim', (n + 1) - 1)) >= 0
    <3>1. (n + 1) - 1 = n /\ Position(FullSim', n) = x
      BY <1>0, <1>3
    <3>. QED  BY <1>1, <1>2, <3>1
  <2>. QED  BY <1>0, <1>2, <2>3, <2>4, <2>5 DEF Covered
<1>. QED  BY <1>4, <1>5 DEF TraceInv

\* A slice is merged into the last entry.
LEMMA SliceMerged ==
    ASSUME TraceInv, NEW to \in World, path # <<>>, path[Len(path)].block = "drive",
           path' = [path EXCEPT ![Len(path)].x = to], step' = step, x' = to,
           cells' = cells \cup SampledCells(x, to),
           heading' = heading, heading * (to - x) >= 0, magnet' = magnet
    PROVE  TraceInv'
<1>. DEFINE n == Len(path)
<1>0. /\ n \in Nat /\ n # 0 /\ step = n /\ DOMAIN path = 1..n /\ n \in 1..n
      /\ \A i \in 1..n : path[i] \in Entries
  BY DEF TraceInv, Recorded
<1>1. [path[n] EXCEPT !.x = to] \in Entries /\ path[n] \in Entries
      /\ [path[n] EXCEPT !.x = to].step = path[n].step
      /\ [path[n] EXCEPT !.x = to].block = path[n].block
      /\ [path[n] EXCEPT !.x = to].x = to
  BY <1>0 DEF Entries
<1>2. /\ path' \in Seq(Entries) /\ Len(path') = n
      /\ \A i \in 1..(n - 1) : path'[i] = path[i]
      /\ path'[n] = [path[n] EXCEPT !.x = to]
  <2>1. path \in Seq(Entries) /\ path' = [path EXCEPT ![n] = [path[n] EXCEPT !.x = to]]
    BY <1>0 DEF TraceInv, Recorded
  <2>2. ASSUME NEW e \in Entries, path' = [path EXCEPT ![n] = e]
        PROVE  path' \in Seq(Entries) /\ Len(path') = n /\ path'[n] = e
               /\ \A i \in 1..(n - 1) : path'[i] = path[i]
    <3>. HIDE DEF n
    <3>1. path' \in [1..n -> Entries]
      BY <1>0, <2>2
    <3>2. path' \in Seq(Entries) /\ Len(path') = n
      BY <1>0, <3>1
    <3>3. \A i \in 1..(n - 1) : i \in 1..n /\ i # n
      BY <1>0
    <3>. QED  BY <1>0, <2>2, <3>2, <3>3
  <2>. QED  BY <1>1, <2>1, <2>2
<1>. HIDE DEF n
<1>3. /\ \A i \in 0..(n - 1) : Position(FullSim', i) = Position(FullSim, i)
      /\ Position(FullSim', n) = to
      /\ Position(FullSim, n) = x
  <2>1. FullSim'.path = path' /\ FullSim.path = path
    BY DEF FullSim
  <2>2. Position(FullSim, n) = x
    BY DEF TraceInv, Recorded, n
  <2>3. \A i \in 0..(n - 1) : i = 0 \/ i \in 1..(n - 1)
    BY <1>0
  <2>. QED  BY <1>0, <1>1, <1>2, <2>1, <2>2, <2>3 DEF Position
<1>4. Recorded'
  <2>1. \A i \in 1..n : path'[i].step = i - 1 /\ path'[i].block = path[i].block
    <3>1. \A i \in 1..n : i \in 1..(n - 1) \/ i = n
      BY <1>0
    <3>. QED  BY <1>0, <1>1, <1>2, <3>1 DEF TraceInv, Recorded, n
  <2>2. /\ magnet' \in Nat \cup {None}
        /\ magnet' # None => magnet' < n /\ path'[magnet' + 1].block = "magnet"
    <3>1. magnet # None => magnet \in Nat /\ magnet < n /\ path[magnet + 1].block = "magnet"
      BY DEF TraceInv, Recorded, n
    <3>2. magnet # None => magnet + 1 \in 1..n
      BY <1>0, <3>1
    <3>. QED  BY <1>0, <2>1, <3>1, <3>2 DEF TraceInv, Recorded
  <2>. QED  BY <1>0, <1>2, <1>3, <2>1, <2>2 DEF TraceInv, Recorded
<1>5. Covered'
  <2>. DEFINE from == Position(FullSim, n - 1)
  <2>0. /\ x \in Nat /\ to \in Nat /\ from \in Nat /\ heading \in {1, -1}
        /\ heading * (x - from) >= 0
        /\ Position(FullSim', n - 1) = from
    <3>1. from \in World
      <4>1. n - 1 = 0 \/ n - 1 \in 1..n
        BY <1>0
      <4>. QED  BY <1>0, <4>1, SceneAssumption DEF Position, FullSim, Entries
    <3>2. heading * (x - from) >= 0
      BY <1>0 DEF TraceInv, Covered, n
    <3>3. n - 1 \in 0..(n - 1)
      BY <1>0
    <3>. QED  BY <1>3, <3>1, <3>2, <3>3, SceneAssumption DEF TraceInv, Recorded
  <2>. HIDE DEF from
  <2>1. SampledCells(x, to) \subseteq Region /\ (to \in Region => to \in SampledCells(x, to))
    BY <2>0 DEF SampledCells, Between
  <2>2. SampledCells(from, to) \subseteq SampledCells(from, x) \cup SampledCells(x, to)
    <3>1. CASE heading = 1
      <4>1. from <= x /\ x <= to
        BY <2>0, <3>1
      <4>. QED  BY <2>0, <4>1 DEF SampledCells, Between
    <3>2. CASE heading = -1
      <4>1. to <= x /\ x <= from
        BY <2>0, <3>2
      <4>. QED  BY <2>0, <4>1 DEF SampledCells, Between
    <3>. QED  BY <2>0, <3>1, <3>2
  <2>3. /\ PrefixCells(FullSim', n) = PrefixCells(FullSim, n - 1) \cup SampledCells(from, to)
        /\ PrefixCells(FullSim, n) = PrefixCells(FullSim, n - 1) \cup SampledCells(from, x)
    <3>1. n - 1 \in Nat /\ (n - 1) + 1 = n
      BY <1>0
    <3>2. PrefixCells(FullSim', n - 1) = PrefixCells(FullSim, n - 1)
      BY <1>3, <3>1, SamePrefix
    <3>3. /\ PrefixCells(FullSim', n) = PrefixCells(FullSim', n - 1) \cup SampledCells(from, to)
          /\ PrefixCells(FullSim, n) = PrefixCells(FullSim, n - 1) \cup SampledCells(from, x)
      BY <1>3, <2>0, <3>1, PrefixGrows DEF from
    <3>. QED  BY <3>2, <3>3
  <2>4. cells' \subseteq Region /\ (x' \in Region => x' \in cells')
    BY <2>1 DEF TraceInv, Covered
  <2>5. PrefixCells(FullSim', n) \subseteq cells'
    BY <2>2, <2>3 DEF TraceInv, Covered, n
  <2>6. heading' * (x' - Position(FullSim', n - 1)) >= 0
    <3>1. heading * (to - from) >= 0
      BY <2>0
    <3>. QED  BY <2>0, <3>1
  <2>. QED  BY <1>0, <1>2, <2>4, <2>5, <2>6 DEF Covered
<1>. QED  BY <1>4, <1>5 DEF TraceInv

LEMMA TravelDirection ==
    ASSUME TraceInv, NEW n \in Lengths, Travel(n)
    PROVE  /\ x' \in World /\ cells' = cells \cup SampledCells(x, x')
           /\ heading * (x' - x) >= 0
<1>1. n \in Nat /\ x \in Nat /\ heading \in {1, -1}
  BY SceneAssumption DEF TraceInv, Recorded
<1>2. x' = x + heading * n /\ x' \in World /\ cells' = cells \cup SampledCells(x, x')
  BY DEF Travel
<1>3. CASE heading = 1
  BY <1>1, <1>2, <1>3
<1>4. CASE heading = -1
  BY <1>1, <1>2, <1>4
<1>. QED  BY <1>1, <1>2, <1>3, <1>4

LEMMA TraceStarts == TraceInit => TraceInv
<1>. SUFFICES ASSUME TraceInit PROVE TraceInv
  OBVIOUS
<1>1. /\ x = Spawn /\ heading = 1 /\ path = <<>> /\ step = 0
      /\ cells = {} /\ magnet = None /\ Len(path) = 0
  BY DEF TraceInit
<1>2. Recorded
  BY <1>1, SceneAssumption DEF Recorded, Position, FullSim
<1>3. PrefixCells(FullSim, 0) = {}
  BY NothingYet
<1>4. Covered
  BY <1>1, <1>3, SceneAssumption DEF Covered
<1>. QED  BY <1>2, <1>4 DEF TraceInv

\* Standing where it is, the robot covers nothing new.
LEMMA NothingNew ==
    ASSUME TraceInv
    PROVE  cells = cells \cup SampledCells(x, x)
<1>1. x \in Nat /\ (x \in Region => x \in cells)
  BY SceneAssumption DEF TraceInv, Recorded, Covered
<1>2. SampledCells(x, x) \subseteq {x} \cap Region
  BY <1>1 DEF SampledCells, Between
<1>. QED  BY <1>1, <1>2

LEMMA TraceStep ==
    ASSUME TraceInv, TraceNext
    PROVE  TraceInv'
<1>0. /\ x \in World /\ x \in Nat /\ heading \in {1, -1}
      /\ magnet \in Nat \cup {None}
  BY SceneAssumption DEF TraceInv, Recorded
<1>1. ASSUME NEW n \in Lengths, Drive(n) PROVE TraceInv'
  <2>1. Travel(n) /\ Record("drive_for", x') /\ heading' = heading /\ magnet' = magnet
    BY <1>1 DEF Drive
  <2>2. /\ x' \in World /\ cells' = cells \cup SampledCells(x, x')
        /\ heading * (x' - x) >= 0
    BY <2>1, TravelDirection
  <2>3. path' = Append(path, Entry("drive_for", x')) /\ step' = step + 1
    BY <2>1 DEF Record
  <2>4. "drive_for" \in Blocks /\ "drive_for" # "drive"
    BY DEF Blocks
  <2>. DEFINE to == x'
  <2>5. /\ to \in World /\ cells' = cells \cup SampledCells(x, to)
        /\ path' = Append(path, Entry("drive_for", to)) /\ x' = to
    BY <2>2, <2>3
  <2>. HIDE DEF to
  <2>. QED  BY <1>0, <2>1, <2>3, <2>4, <2>5, EntryAdded
<1>2. ASSUME NEW n \in Lengths, March(n) PROVE TraceInv'
  <2>1. Travel(n) /\ heading' = heading /\ magnet' = magnet
    BY <1>2 DEF March
  <2>. DEFINE to == x'
  <2>2. /\ to \in World /\ x' = to /\ cells' = cells \cup SampledCells(x, to)
        /\ heading * (to - x) >= 0
    BY <2>1, TravelDirection
  <2>3. CASE Coalesces("drive", x')
    <3>1. path # <<>> /\ path[Len(path)].block = "drive"
      BY <2>3 DEF Coalesces
    <3>2. path' = [path EXCEPT ![Len(path)].x = to] /\ step' = step
      BY <1>2, <2>3 DEF March
    <3>. HIDE DEF to
    <3>. QED  BY <2>1, <2>2, <3>1, <3>2, SliceMerged
  <2>4. CASE ~Coalesces("drive", x')
    <3>1. path' = Append(path, Entry("drive", to)) /\ step' = step + 1
      BY <1>2, <2>4 DEF March, Record
    <3>2. "drive" \in Blocks
      BY DEF Blocks
    <3>3. heading' * (to - x) >= 0
      BY <2>1, <2>2
    <3>. HIDE DEF to
    <3>. QED  BY <1>0, <2>1, <2>2, <3>1, <3>2, <3>3, EntryAdded
  <2>. QED  BY <2>3, <2>4
<1>3. ASSUME Turn PROVE TraceInv'
  <2>1. /\ path' = Append(path, Entry("turn", x)) /\ step' = step + 1 /\ x' = x
        /\ heading' \in {1, -1} /\ magnet' = magnet /\ cells' = cells
    <3>1. heading' = -heading
      BY <1>3 DEF Turn
    <3>. QED  BY <1>0, <1>3, <3>1 DEF Turn, Record
  <2>2. "turn" \in Blocks /\ "turn" # "drive"
    BY DEF Blocks
  <2>3. cells' = cells \cup SampledCells(x, x)
    BY <2>1, NothingNew
  <2>. QED  BY <1>0, <2>1, <2>2, <2>3, EntryAdded
<1>4. ASSUME Boost PROVE TraceInv'
  <2>1. /\ path' = Append(path, Entry("magnet", x)) /\ step' = step + 1 /\ x' = x
        /\ heading' = heading /\ magnet' = step /\ cells' = cells
    BY <1>4 DEF Boost, Record
  <2>2. "magnet" \in Blocks /\ "magnet" # "drive"
    BY DEF Blocks
  <2>3. cells' = cells \cup SampledCells(x, x)
    BY <2>1, NothingNew
  <2>. QED  BY <1>0, <2>1, <2>2, <2>3, EntryAdded
<1>. QED  BY <1>1, <1>2, <1>3, <1>4 DEF TraceNext

LEMMA SettingStep ==
    ASSUME TraceInv, Setting, Next
    PROVE  Setting'
<1>0. step \in Nat
  BY DEF TraceInv, Recorded
<1>1. params' = params /\ authored' = authored
  BY DEF Next
<1>2. ASSUME NEW n \in Lengths, Travel(n) PROVE contact' \in Nat \cup {None} /\ x' \in World
  BY <1>0, <1>2 DEF Travel, Setting
<1>3. ASSUME NEW n \in Lengths, Drive(n) PROVE Setting'
  <2>1. Travel(n) /\ anchor' = None
    BY <1>3 DEF Drive
  <2>. QED  BY <1>1, <1>2, <2>1 DEF Setting
<1>4. ASSUME NEW n \in Lengths, March(n) PROVE Setting'
  <2>1. Travel(n) /\ (anchor' = anchor \/ anchor' = x')
    BY <1>4 DEF March
  <2>. QED  BY <1>1, <1>2, <2>1 DEF Setting
<1>5. ASSUME Turn \/ Boost PROVE Setting'
  BY <1>1, <1>5 DEF Turn, Boost, Setting
<1>. QED  BY <1>3, <1>4, <1>5 DEF Next, TraceNext

LEMMA RunInvariant == Spec => [](TraceInv /\ Setting)
<1>1. Init => TraceInv /\ Setting
  BY TraceStarts DEF Init, TraceInit, Setting
<1>2. TraceInv /\ Setting /\ [Next]_vars => TraceInv' /\ Setting'
  <2>. SUFFICES ASSUME TraceInv, Setting, [Next]_vars PROVE TraceInv' /\ Setting'
    OBVIOUS
  <2>1. CASE Next
    <3>1. TraceNext
      BY <2>1 DEF Next
    <3>. QED  BY <2>1, <3>1, TraceStep, SettingStep
  <2>2. CASE UNCHANGED vars
    BY <2>2 DEF vars, trace, TraceInv, Recorded, Covered, Setting, FullSim, Position, PrefixCells
  <2>. QED  BY <2>1, <2>2
<1>. QED  BY <1>1, <1>2, PTL DEF Spec

(***************************************************************************)
(* Merging slices into the last entry never shifts the path.               *)
(***************************************************************************)
THEOREM EntriesKeepTheirStep == Spec => []PathIsIndexed
<1>1. TraceInv => PathIsIndexed
  BY DEF TraceInv, Recorded, PathIsIndexed
<1>. QED  BY <1>1, RunInvariant, PTL

THEOREM TypeCorrect == Spec => []TypeOK
<1>1. TraceInv /\ Setting => TypeOK
  <2>. SUFFICES ASSUME TraceInv, Setting PROVE TypeOK
    OBVIOUS
  <2>1. path \in Seq([step : Nat, x : World, block : {"drive_for", "drive", "turn", "magnet"}])
    BY DEF TraceInv, Recorded, Entries, Blocks
  <2>2. x \in World /\ cells \subseteq Region
    BY DEF TraceInv, Recorded, Covered
  <2>3. step \in Nat /\ magnet \in Nat \cup {None} /\ contact \in Nat \cup {None}
    BY DEF TraceInv, Recorded, Setting
  <2>4. anchor \in Nat \cup {None}
    BY SceneAssumption DEF Setting
  <2>. QED  BY <2>1, <2>2, <2>3, <2>4 DEF TypeOK
<1>. QED  BY <1>1, RunInvariant, PTL

-----------------------------------------------------------------------------
(***************************************************************************)
(* A simulation, whole or cut: what the scanners and the indicators read.  *)
(***************************************************************************)
Sound(sim) ==
    /\ sim.path \in Seq(Entries)
    /\ \A i \in 1..Len(sim.path) : sim.path[i].step = i - 1
    /\ sim.magnet \in Nat \cup {None}

LEMMA PositionsAreNumbers ==
    ASSUME NEW sim, Sound(sim)
    PROVE  /\ Len(sim.path) \in Nat
           /\ \A i \in 1..Len(sim.path) : sim.path[i].x \in Nat /\ sim.path[i].step = i - 1
           /\ \A i \in 0..Len(sim.path) : Position(sim, i) \in Nat
<1>. DEFINE n == Len(sim.path)
<1>1. n \in Nat /\ \A i \in 1..n : sim.path[i] \in Entries /\ sim.path[i].step = i - 1
  BY DEF Sound
<1>2. \A i \in 1..n : sim.path[i].x \in Nat
  BY <1>1, SceneAssumption DEF Entries
<1>3. \A i \in 0..n : i = 0 \/ i \in 1..n
  BY <1>1
<1>4. Spawn \in Nat
  BY SceneAssumption
<1>. HIDE DEF n
<1>5. \A i \in 0..n : Position(sim, i) \in Nat
  BY <1>2, <1>3, <1>4 DEF Position
<1>. QED  BY <1>1, <1>2, <1>5 DEF n

LEMMA DistanceIsNumber ==
    ASSUME NEW a \in Nat, NEW b \in Nat, NEW p \in Nat
    PROVE  SegmentDistance(a, b, p) \in Nat
BY DEF SegmentDistance

LEMMA WholeIsSound == ASSUME TraceInv PROVE Sound(FullSim)
BY DEF TraceInv, Recorded, Sound, FullSim

\* The first k entries of a simulation.
LEMMA CutIsSound ==
    ASSUME NEW sim, Sound(sim), NEW k \in 0..Len(sim.path)
    PROVE  /\ Sound(Slice(sim, k)) /\ Len(Slice(sim, k).path) = k
           /\ \A i \in 1..k : Slice(sim, k).path[i] = sim.path[i]
           /\ \A i \in 0..k : Position(Slice(sim, k), i) = Position(sim, i)
           /\ Slice(sim, k).magnet = InSlice(sim.magnet, k)
<1>. DEFINE cut == SubSeq(sim.path, 1, k)
<1>0. k \in Nat /\ \A i \in 1..k : i \in 1..Len(sim.path)
  BY DEF Sound
<1>1. Slice(sim, k).path = cut /\ Slice(sim, k).magnet = InSlice(sim.magnet, k)
  BY DEF Slice
<1>2. cut \in Seq(Entries) /\ Len(cut) = k /\ \A i \in 1..k : cut[i] = sim.path[i]
  BY DEF Sound
<1>. HIDE DEF cut
<1>3. InSlice(sim.magnet, k) \in Nat \cup {None}
  BY DEF Sound, InSlice
<1>4. Sound(Slice(sim, k))
  BY <1>0, <1>1, <1>2, <1>3 DEF Sound
<1>5. \A i \in 0..k : i = 0 \/ i \in 1..k
  BY <1>0
<1>6. \A i \in 0..k : Position(Slice(sim, k), i) = Position(sim, i)
  BY <1>1, <1>2, <1>5 DEF Position
<1>. QED  BY <1>1, <1>2, <1>4, <1>6

-----------------------------------------------------------------------------
(***************************************************************************)
(* The two scanners of a running minimum: the distances they read, the     *)
(* rung after each move, and what becomes of both in a cut.                *)
(***************************************************************************)
Running == {"plow_approach_intent", "plow_proximity_execution"}

Distances(name, sim) ==
    [i \in 0..Len(sim.path) |-> IF name = "plow_approach_intent" THEN MoveDistance(sim, i)
                                                                ELSE ArmedMove(sim, i)]
RungAt(name, sim, i) ==
    IF name = "plow_approach_intent"
    THEN LowerIsBetter(ReachEdges, LeastSoFar(Distances(name, sim), i))
    ELSE IF LeastSoFar(Distances(name, sim), i) = None THEN 2
         ELSE LowerIsBetter(<<AttachGap>>, LeastSoFar(Distances(name, sim), i))
Rungs(name, sim) == [i \in 0..Len(sim.path) |-> RungAt(name, sim, i)]

LEMMA DistancesAreNumbers ==
    ASSUME NEW sim, Sound(sim), NEW name \in Running
    PROVE  /\ Distances(name, sim) \in [0..Len(sim.path) -> Nat \cup {None}]
           /\ name = "plow_approach_intent" =>
                \A i \in 0..Len(sim.path) : Distances(name, sim)[i] \in Nat
<1>. DEFINE n == Len(sim.path)
<1>1. /\ n \in Nat
      /\ \A i \in 1..n : sim.path[i].x \in Nat /\ sim.path[i].step = i - 1
      /\ \A i \in 0..n : Position(sim, i) \in Nat
  BY PositionsAreNumbers
<1>2. Plow \in Nat /\ Spawn \in Nat
  BY SceneAssumption, CardAssumption
<1>. HIDE DEF n
<1>3. ASSUME NEW i \in 0..n PROVE MoveDistance(sim, i) \in Nat
  <2>1. CASE i = 0
    BY <1>1, <1>2, <2>1, DistanceIsNumber DEF MoveDistance
  <2>2. CASE i # 0
    <3>1. i - 1 \in 0..n
      BY <1>1, <2>2
    <3>. QED  BY <1>1, <1>2, <2>2, <3>1, DistanceIsNumber DEF MoveDistance
  <2>. QED  BY <2>1, <2>2
<1>4. ASSUME NEW i \in 0..n PROVE ArmedMove(sim, i) \in Nat \cup {None}
  <2>1. CASE ~IsArmed(sim, i)
    BY <2>1 DEF ArmedMove
  <2>2. CASE IsArmed(sim, i)
    <3>1. i \in 1..n
      BY <1>1, <2>2 DEF IsArmed
    <3>2. IsArmed(sim, i - 1) => i - 1 \in 1..n
      BY <1>1, <3>1 DEF IsArmed
    <3>. DEFINE from == IF IsArmed(sim, i - 1) THEN sim.path[i - 1].x ELSE sim.path[i].x
    <3>3. from \in Nat /\ sim.path[i].x \in Nat
      BY <1>1, <3>1, <3>2
    <3>4. ArmedMove(sim, i) = SegmentDistance(from, sim.path[i].x, Plow)
      BY <2>2 DEF ArmedMove
    <3>5. ASSUME NEW a \in Nat, NEW b \in Nat PROVE SegmentDistance(a, b, Plow) \in Nat
      BY <1>2, DistanceIsNumber
    <3>. HIDE DEF from
    <3>. QED  BY <3>3, <3>4, <3>5
  <2>. QED  BY <2>1, <2>2
<1>. QED  BY <1>3, <1>4 DEF Distances, n

LEMMA LeastIsMeasured ==
    ASSUME NEW n \in Nat, NEW distance \in [0..n -> Nat \cup {None}], NEW i \in 0..n
    PROVE  /\ LeastSoFar(distance, i) \in Nat \cup {None}
           /\ LeastSoFar(distance, i) = None <=> \A j \in 0..i : distance[j] = None
           /\ \A j \in 0..i : LeastSoFar(distance, j) # None =>
                  LeastSoFar(distance, i) # None
                  /\ LeastSoFar(distance, i) <= LeastSoFar(distance, j)
<1>. DEFINE M(k) == Measured(distance, k)
<1>0. None \notin Nat
  BY DEF None
<1>1. ASSUME NEW k \in 0..i
      PROVE  /\ Measured(distance, k) \in SUBSET Nat
             /\ Measured(distance, k) \subseteq Measured(distance, i)
             /\ Measured(distance, k) = {} <=> \A j \in 0..k : distance[j] = None
  <2>1. \A j \in 0..k : j \in 0..i /\ j \in 0..n
    OBVIOUS
  <2>. QED  BY <2>1 DEF Measured
<1>2. ASSUME NEW k \in 0..i, Measured(distance, k) # {}
      PROVE  /\ LeastSoFar(distance, k) \in Measured(distance, k)
             /\ LeastSoFar(distance, k) \in Nat
             /\ \A d \in Measured(distance, k) : LeastSoFar(distance, k) <= d
  <2>1. LeastSoFar(distance, k) = Best(Measured(distance, k))
    BY <1>2 DEF LeastSoFar
  <2>. QED  BY <1>1, <1>2, <2>1, BestIs
<1>3. \A k \in 0..i : Measured(distance, k) = {} => LeastSoFar(distance, k) = None
  BY DEF LeastSoFar
<1>4. i \in 0..i
  OBVIOUS
<1>5. LeastSoFar(distance, i) \in Nat \cup {None}
  BY <1>2, <1>3, <1>4
<1>6. LeastSoFar(distance, i) = None <=> \A j \in 0..i : distance[j] = None
  BY <1>0, <1>1, <1>2, <1>3, <1>4
<1>7. ASSUME NEW j \in 0..i, LeastSoFar(distance, j) # None
      PROVE  LeastSoFar(distance, i) # None
             /\ LeastSoFar(distance, i) <= LeastSoFar(distance, j)
  <2>1. Measured(distance, j) # {}
    BY <1>3, <1>7
  <2>2. LeastSoFar(distance, j) \in Measured(distance, i) /\ Measured(distance, i) # {}
    BY <1>1, <1>2, <2>1
  <2>. QED  BY <1>0, <1>2, <1>4, <2>2
<1>. QED  BY <1>5, <1>6, <1>7

\* The rungs only get better, and start no worse than the indicator does.
LEMMA RungsGetBetter ==
    ASSUME NEW sim, Sound(sim), NEW name \in Running
    PROVE  /\ Rungs(name, sim) \in [0..Len(sim.path) -> Nat]
           /\ StartRung(name) \in Nat /\ Rungs(name, sim)[0] <= StartRung(name)
           /\ \A i, j \in 0..Len(sim.path) : i <= j => Rungs(name, sim)[j] <= Rungs(name, sim)[i]
<1>. DEFINE n == Len(sim.path)
            d == Distances(name, sim)
<1>1. n \in Nat /\ d \in [0..n -> Nat \cup {None}]
      /\ (name = "plow_approach_intent" => \A i \in 0..n : d[i] \in Nat)
  BY DistancesAreNumbers, PositionsAreNumbers
<1>0. None \notin Nat
  BY DEF None
<1>. HIDE DEF n, d
<1>2. ASSUME NEW i \in 0..n
      PROVE  /\ LeastSoFar(d, i) \in Nat \cup {None}
             /\ name = "plow_approach_intent" => LeastSoFar(d, i) \in Nat
  <2>1. 0 \in 0..i /\ 0 \in 0..n
    BY <1>1
  <2>. QED  BY <1>0, <1>1, <2>1, LeastIsMeasured
<1>3. CASE name = "plow_approach_intent"
  <2>1. ReachEdges \in Seq(Int) /\ StartRung(name) = Len(ReachEdges) /\ Len(ReachEdges) \in Nat
    BY <1>3, CardAssumption DEF StartRung
  <2>2. \A i \in 0..n : RungAt(name, sim, i) = LowerIsBetter(ReachEdges, LeastSoFar(d, i))
    BY <1>3 DEF RungAt, d
  <2>3. \A i \in 0..n : RungAt(name, sim, i) \in 0..Len(ReachEdges)
    BY <1>2, <1>3, <2>1, <2>2, RungIsFirst
  <2>4. ASSUME NEW i \in 0..n, NEW j \in 0..n, i <= j
        PROVE  RungAt(name, sim, j) <= RungAt(name, sim, i)
    <3>1. i \in 0..j
      BY <1>1, <2>4
    <3>2. LeastSoFar(d, j) <= LeastSoFar(d, i) /\ LeastSoFar(d, i) \in Nat /\ LeastSoFar(d, j) \in Nat
      BY <1>0, <1>1, <1>2, <1>3, <3>1, LeastIsMeasured
    <3>. QED  BY <2>1, <2>2, <3>2, NearerIsBetter
  <2>5. 0 \in 0..n
    BY <1>1
  <2>. QED  BY <2>1, <2>3, <2>4, <2>5 DEF Rungs, n
<1>4. CASE name = "plow_proximity_execution"
  <2>0. name # "plow_approach_intent"
    BY <1>4
  <2>1. <<AttachGap>> \in Seq(Int) /\ Len(<<AttachGap>>) = 1 /\ StartRung(name) = 2
    BY <1>4, CardAssumption DEF StartRung
  <2>2. \A i \in 0..n : RungAt(name, sim, i) =
          IF LeastSoFar(d, i) = None THEN 2 ELSE LowerIsBetter(<<AttachGap>>, LeastSoFar(d, i))
    BY <2>0 DEF RungAt, d
  <2>3. ASSUME NEW i \in 0..n, LeastSoFar(d, i) # None
        PROVE  LowerIsBetter(<<AttachGap>>, LeastSoFar(d, i)) \in 0..1
    <3>. DEFINE gap == <<AttachGap>>
                v == LeastSoFar(d, i)
    <3>1. gap \in Seq(Int) /\ v \in Int /\ Len(gap) = 1
      BY <1>2, <2>1, <2>3
    <3>. HIDE DEF gap, v
    <3>2. LowerIsBetter(gap, v) \in 0..Len(gap)
      BY <3>1, RungIsFirst
    <3>. QED  BY <3>1, <3>2 DEF gap, v
  <2>4. \A i \in 0..n : RungAt(name, sim, i) \in 0..2
    BY <2>2, <2>3
  <2>5. ASSUME NEW i \in 0..n, NEW j \in 0..n, i <= j
        PROVE  RungAt(name, sim, j) <= RungAt(name, sim, i)
    <3>1. i \in 0..j
      BY <1>1, <2>5
    <3>2. CASE LeastSoFar(d, i) = None
      BY <2>2, <2>4, <3>2
    <3>3. CASE LeastSoFar(d, i) # None
      <4>1. LeastSoFar(d, j) <= LeastSoFar(d, i) /\ LeastSoFar(d, j) # None
        BY <1>1, <3>1, <3>3, LeastIsMeasured
      <4>2. LeastSoFar(d, i) \in Nat /\ LeastSoFar(d, j) \in Nat
        BY <1>2, <3>3, <4>1
      <4>3. LowerIsBetter(<<AttachGap>>, LeastSoFar(d, j)) <= LowerIsBetter(<<AttachGap>>, LeastSoFar(d, i))
        <5>. DEFINE gap == <<AttachGap>>
                    u == LeastSoFar(d, j)
                    v == LeastSoFar(d, i)
        <5>1. gap \in Seq(Int) /\ u \in Int /\ v \in Int /\ u <= v
          BY <2>1, <4>1, <4>2
        <5>. HIDE DEF gap, u, v
        <5>2. LowerIsBetter(gap, u) <= LowerIsBetter(gap, v)
          BY <5>1, NearerIsBetter
        <5>. QED  BY <5>2 DEF gap, u, v
      <4>. QED  BY <2>2, <3>3, <4>1, <4>3
    <3>. QED  BY <3>2, <3>3
  <2>6. 0 \in 0..n
    BY <1>1
  <2>. QED  BY <2>1, <2>4, <2>5, <2>6 DEF Rungs, n
<1>. QED  BY <1>3, <1>4 DEF Running

LEMMA ScannersReadRungs ==
    ASSUME NEW sim, Sound(sim), NEW name \in Running
    PROVE  Events(name, sim) = RungChanges(name, Rungs(name, sim), Len(sim.path))
<1>. DEFINE n == Len(sim.path)
            d == Distances(name, sim)
<1>1. n \in Nat /\ d \in [0..n -> Nat \cup {None}]
  BY DistancesAreNumbers, PositionsAreNumbers
<1>2. RunningMinimum(d) = [i \in 0..n |-> LeastSoFar(d, i)]
  <2>. HIDE DEF n, d
  <2>. QED  BY <1>1, RunningIsLeast
<1>3. CASE name = "plow_approach_intent"
  <2>1. d = [i \in 0..n |-> MoveDistance(sim, i)]
    BY <1>3 DEF Distances
  <2>2. Events(name, sim) = ScanMinDistance(sim)
    BY <1>3 DEF Events
  <2>3. ScanMinDistance(sim) = RungChanges(name, Reaches(RunningMinimum(d)), n)
    BY <1>3, <2>1 DEF ScanMinDistance
  <2>4. Reaches(RunningMinimum(d)) = Rungs(name, sim)
    <3>. HIDE DEF n, d
    <3>1. Reaches(RunningMinimum(d)) = [i \in 0..n |-> LowerIsBetter(ReachEdges, LeastSoFar(d, i))]
      BY <1>2 DEF Reaches
    <3>2. Rungs(name, sim) = [i \in 0..n |-> LowerIsBetter(ReachEdges, LeastSoFar(d, i))]
      BY <1>3 DEF Rungs, RungAt, n, d
    <3>. QED  BY <3>1, <3>2
  <2>. QED  BY <2>2, <2>3, <2>4
<1>4. CASE name = "plow_proximity_execution"
  <2>0. name # "plow_approach_intent"
    BY <1>4
  <2>1. d = [i \in 0..n |-> ArmedMove(sim, i)]
    BY <2>0 DEF Distances
  <2>2. Events(name, sim) = ScanAttachment(sim)
    BY <1>4 DEF Events
  <2>3. ScanAttachment(sim) = RungChanges(name, Attaches(RunningMinimum(d)), n)
    BY <1>4, <2>1 DEF ScanAttachment
  <2>4. Attaches(RunningMinimum(d)) = Rungs(name, sim)
    <3>. DEFINE R(i) == IF LeastSoFar(d, i) = None THEN 2 ELSE LowerIsBetter(<<AttachGap>>, LeastSoFar(d, i))
    <3>1. Attaches(RunningMinimum(d)) = [i \in 0..n |-> R(i)]
      <4>. HIDE DEF n, d
      <4>. QED  BY <1>2 DEF Attaches
    <3>2. Rungs(name, sim) = [i \in 0..n |-> R(i)]
      BY <2>0 DEF Rungs, RungAt, n, d
    <3>. QED  BY <3>1, <3>2
  <2>. QED  BY <2>2, <2>3, <2>4
<1>. QED  BY <1>3, <1>4 DEF Running

LEMMA LeastOfPrefix ==
    ASSUME NEW d, NEW e, NEW i \in Nat, \A j \in 0..i : d[j] = e[j]
    PROVE  LeastSoFar(d, i) = LeastSoFar(e, i)
<1>1. Measured(d, i) = Measured(e, i)
  BY DEF Measured
<1>. QED  BY <1>1 DEF LeastSoFar

\* A cut leaves the moves it keeps as they were: the magnet too, unless it comes later.
LEMMA MovesOfCut ==
    ASSUME NEW sim, Sound(sim), NEW k \in 0..Len(sim.path), NEW i \in 0..k
    PROVE  /\ MoveDistance(Slice(sim, k), i) = MoveDistance(sim, i)
           /\ ArmedMove(Slice(sim, k), i) = ArmedMove(sim, i)
<1>. DEFINE cut == Slice(sim, k)
<1>1. /\ \A j \in 1..k : cut.path[j] = sim.path[j]
      /\ \A j \in 0..k : Position(cut, j) = Position(sim, j)
      /\ cut.magnet = InSlice(sim.magnet, k)
  BY CutIsSound
<1>2. /\ Len(sim.path) \in Nat /\ k \in Nat /\ i \in Nat
      /\ \A j \in 1..Len(sim.path) : sim.path[j].step = j - 1
      /\ sim.magnet \in Nat \cup {None}
  BY PositionsAreNumbers DEF Sound
<1>. HIDE DEF cut
<1>3. MoveDistance(cut, i) = MoveDistance(sim, i)
  <2>1. i # 0 => i - 1 \in 0..k
    BY <1>2
  <2>. QED  BY <1>1, <2>1 DEF MoveDistance
<1>4. ASSUME NEW j \in 0..k PROVE IsArmed(cut, j) <=> IsArmed(sim, j)
  <2>1. CASE j = 0
    BY <2>1 DEF IsArmed
  <2>2. CASE j # 0
    <3>1. j \in 1..k /\ j \in 1..Len(sim.path) /\ j - 1 < k /\ j > 0
      BY <1>2, <2>2
    <3>2. cut.path[j].step = j - 1 /\ sim.path[j].step = j - 1
      BY <1>1, <1>2, <3>1
    <3>3. CASE sim.magnet # None /\ sim.magnet < k
      BY <1>1, <3>2, <3>3 DEF InSlice, IsArmed
    <3>4. CASE ~(sim.magnet # None /\ sim.magnet < k)
      <4>1. cut.magnet = None
        BY <1>1, <3>4 DEF InSlice
      <4>2. sim.magnet # None => ~(j - 1 >= sim.magnet)
        BY <1>2, <3>1, <3>4
      <4>. QED  BY <3>2, <4>1, <4>2 DEF IsArmed
    <3>. QED  BY <3>3, <3>4
  <2>. QED  BY <2>1, <2>2
<1>5. ArmedMove(cut, i) = ArmedMove(sim, i)
  <2>1. CASE ~IsArmed(sim, i)
    BY <1>4, <2>1 DEF ArmedMove
  <2>2. CASE IsArmed(sim, i)
    <3>1. i \in 1..k /\ i - 1 \in 0..k
      BY <1>2, <2>2 DEF IsArmed
    <3>2. IsArmed(sim, i - 1) => i - 1 \in 1..k
      BY <1>2, <3>1 DEF IsArmed
    <3>. QED  BY <1>1, <1>4, <2>2, <3>1, <3>2 DEF ArmedMove
  <2>. QED  BY <2>1, <2>2
<1>. QED  BY <1>3, <1>5 DEF cut

LEMMA RungsOfCut ==
    ASSUME NEW sim, Sound(sim), NEW k \in 0..Len(sim.path), NEW name \in Running, NEW i \in 0..k
    PROVE  Rungs(name, Slice(sim, k))[i] = Rungs(name, sim)[i]
<1>. DEFINE cut == Slice(sim, k)
            n == Len(sim.path)
<1>1. Len(cut.path) = k /\ n \in Nat /\ k \in Nat /\ i \in 0..n /\ i \in Nat
  BY CutIsSound, PositionsAreNumbers
<1>2. \A j \in 0..i : j \in 0..k /\ j \in 0..n
  BY <1>1
<1>3. \A j \in 0..i : MoveDistance(cut, j) = MoveDistance(sim, j) /\ ArmedMove(cut, j) = ArmedMove(sim, j)
  BY <1>2, MovesOfCut
<1>. HIDE DEF cut
<1>4. \A j \in 0..i : Distances(name, cut)[j] = Distances(name, sim)[j]
  BY <1>1, <1>2, <1>3 DEF Distances
<1>5. LeastSoFar(Distances(name, cut), i) = LeastSoFar(Distances(name, sim), i)
  BY <1>1, <1>4, LeastOfPrefix
<1>6. RungAt(name, cut, i) = RungAt(name, sim, i)
  BY <1>5 DEF RungAt
<1>. QED  BY <1>1, <1>6 DEF Rungs, cut

-----------------------------------------------------------------------------
(***************************************************************************)
(* The indicators measure what the scanners measured last.                 *)
(***************************************************************************)
LEMMA PolylineIsLeast ==
    ASSUME NEW sim, Sound(sim)
    PROVE  PolylineDistance(sim, Plow) =
               LeastSoFar(Distances("plow_approach_intent", sim), Len(sim.path))
<1>. DEFINE n == Len(sim.path)
            d == Distances("plow_approach_intent", sim)
<1>1. n \in Nat /\ (\A i \in 0..n : d[i] \in Nat)
  BY DistancesAreNumbers, PositionsAreNumbers DEF Running
<1>2. \A i \in 0..n : d[i] = MoveDistance(sim, i)
  BY DEF Distances
<1>. HIDE DEF n, d
<1>0. None \notin Nat
  BY DEF None
<1>3. Measured(d, n) = {d[i] : i \in 0..n}
  BY <1>0, <1>1 DEF Measured
<1>4. d[0] = SegmentDistance(Spawn, Spawn, Plow)
  BY <1>1, <1>2 DEF MoveDistance, Position
<1>5. \A i \in 1..n : d[i] = SegmentDistance(Position(sim, i - 1), Position(sim, i), Plow)
  BY <1>1, <1>2 DEF MoveDistance
<1>6. {d[i] : i \in 0..n} =
        {SegmentDistance(Spawn, Spawn, Plow)}
          \cup {SegmentDistance(Position(sim, i - 1), Position(sim, i), Plow) : i \in 1..n}
  <2>1. \A i : i \in 0..n <=> i = 0 \/ i \in 1..n
    BY <1>1
  <2>2. {d[i] : i \in 0..n} = {d[0]} \cup {d[i] : i \in 1..n}
    BY <2>1
  <2>. QED  BY <1>4, <1>5, <2>2
<1>7. d[0] \in Measured(d, n)
  BY <1>1, <1>3
<1>. QED  BY <1>3, <1>6, <1>7 DEF LeastSoFar, PolylineDistance, n, d

LEMMA ArmedIsLeast ==
    ASSUME NEW sim, Sound(sim)
    PROVE  LET least == LeastSoFar(Distances("plow_proximity_execution", sim), Len(sim.path))
           IN  IF sim.magnet = None \/ ArmedEntries(sim) = {}
               THEN least = None
               ELSE least = ArmedDistance(sim) /\ least # None
<1>. DEFINE n == Len(sim.path)
            d == Distances("plow_proximity_execution", sim)
            m == sim.magnet
<1>1. /\ n \in Nat /\ m \in Nat \cup {None}
      /\ \A i \in 1..n : sim.path[i].x \in Nat /\ sim.path[i].step = i - 1
      /\ d \in [0..n -> Nat \cup {None}]
  BY DistancesAreNumbers, PositionsAreNumbers DEF Running, Sound
<1>2. \A i \in 0..n : d[i] = ArmedMove(sim, i)
  BY DEF Distances
<1>3. ArmedEntries(sim) = {i \in 1..n : i - 1 >= m}
  BY <1>1 DEF ArmedEntries
<1>4. \A i \in 0..n : IsArmed(sim, i) <=> m # None /\ i > 0 /\ i - 1 >= m
  <2>1. \A i \in 0..n : i > 0 => i \in 1..n
    BY <1>1
  <2>. QED  BY <1>1, <2>1 DEF IsArmed
<1>. HIDE DEF n, d, m
<1>0. None \notin Nat
  BY DEF None
<1>5. CASE m = None \/ ArmedEntries(sim) = {}
  <2>1. \A i \in 0..n : ~IsArmed(sim, i)
    <3>1. \A i \in 0..n : i > 0 => i \in 1..n
      BY <1>1
    <3>. QED  BY <1>3, <1>4, <1>5, <3>1
  <2>2. \A i \in 0..n : d[i] = None
    BY <1>2, <2>1 DEF ArmedMove
  <2>3. LeastSoFar(d, n) = None
    <3>1. n \in 0..n
      BY <1>1
    <3>. QED  BY <1>1, <2>2, <3>1, LeastIsMeasured
  <2>. QED  BY <1>5, <2>3 DEF n, d, m
<1>6. CASE m # None /\ ArmedEntries(sim) # {}
  <2>1. m \in Nat /\ ArmedEntries(sim) = (m + 1)..n /\ m + 1 \in 1..n
    <3>1. m \in Nat
      BY <1>1, <1>6
    <3>2. ArmedEntries(sim) = (m + 1)..n
      BY <1>1, <1>3, <3>1
    <3>. QED  BY <1>1, <1>6, <3>1, <3>2
  <2>2. Best(ArmedEntries(sim)) = m + 1
    <3>1. ArmedEntries(sim) \in SUBSET Nat /\ m + 1 \in ArmedEntries(sim)
          /\ \A i \in ArmedEntries(sim) : m + 1 <= i
      BY <1>1, <2>1
    <3>. QED  BY <3>1, BestIsThis
  <2>3. d[m + 1] = SegmentDistance(sim.path[m + 1].x, sim.path[m + 1].x, Plow)
    <3>1. IsArmed(sim, m + 1) /\ ~IsArmed(sim, (m + 1) - 1)
      BY <1>1, <1>4, <1>6, <2>1
    <3>. QED  BY <1>1, <1>2, <2>1, <3>1 DEF ArmedMove
  <2>4. \A i \in ArmedEntries(sim) \ {m + 1} :
          d[i] = SegmentDistance(sim.path[i - 1].x, sim.path[i].x, Plow)
    <3>1. ASSUME NEW i \in ArmedEntries(sim) \ {m + 1}
          PROVE  i \in 0..n /\ IsArmed(sim, i) /\ IsArmed(sim, i - 1)
      <4>1. i \in 0..n /\ i - 1 \in 0..n /\ i > 0 /\ i - 1 > 0 /\ i - 1 >= m /\ (i - 1) - 1 >= m
        BY <1>1, <2>1
      <4>. QED  BY <1>4, <1>6, <4>1
    <3>. QED  BY <1>2, <3>1 DEF ArmedMove
  <2>5. \A i \in 0..n : i \notin ArmedEntries(sim) => d[i] = None
    <3>1. \A i \in 0..n : i \notin ArmedEntries(sim) => ~IsArmed(sim, i)
      BY <1>1, <1>4, <2>1
    <3>. QED  BY <1>2, <3>1 DEF ArmedMove
  <2>6. \A i \in ArmedEntries(sim) : i \in 0..n /\ d[i] # None
    <3>1. \A i \in ArmedEntries(sim) : i \in 0..n /\ i \in 1..n /\ IsArmed(sim, i)
      BY <1>1, <1>4, <1>6, <2>1
    <3>2. ASSUME NEW i \in ArmedEntries(sim) PROVE d[i] \in Nat
      <4>1. ASSUME NEW a \in Nat, NEW b \in Nat PROVE SegmentDistance(a, b, Plow) \in Nat
        BY CardAssumption, DistanceIsNumber
      <4>2. CASE i = m + 1
        BY <1>1, <2>1, <2>3, <4>1, <4>2
      <4>3. CASE i # m + 1
        <5>1. i \in 1..n /\ i - 1 \in 1..n
          BY <1>1, <2>1, <4>3
        <5>2. d[i] = SegmentDistance(sim.path[i - 1].x, sim.path[i].x, Plow)
          BY <2>4, <4>3
        <5>. QED  BY <1>1, <4>1, <5>1, <5>2
      <4>. QED  BY <4>2, <4>3
    <3>. QED  BY <1>0, <3>1, <3>2
  <2>7. Measured(d, n) = {d[i] : i \in ArmedEntries(sim)}
    BY <2>5, <2>6 DEF Measured
  <2>8. {d[i] : i \in ArmedEntries(sim)} =
          {SegmentDistance(sim.path[m + 1].x, sim.path[m + 1].x, Plow)}
            \cup {SegmentDistance(sim.path[i - 1].x, sim.path[i].x, Plow) :
                     i \in ArmedEntries(sim) \ {m + 1}}
    <3>1. m + 1 \in ArmedEntries(sim)
      BY <1>1, <2>1
    <3>2. {d[i] : i \in ArmedEntries(sim)} =
            {d[m + 1]} \cup {d[i] : i \in ArmedEntries(sim) \ {m + 1}}
      BY <3>1
    <3>. QED  BY <2>3, <2>4, <3>2
  <2>9. ArmedDistance(sim) = Best(Measured(d, n))
    BY <2>2, <2>7, <2>8 DEF ArmedDistance
  <2>10. Measured(d, n) # {} /\ LeastSoFar(d, n) # None
    <3>1. Measured(d, n) # {}
      BY <1>6, <2>7
    <3>2. n \in 0..n /\ \E j \in 0..n : d[j] # None
      BY <1>1, <1>6, <2>6
    <3>. QED  BY <1>1, <3>1, <3>2, LeastIsMeasured
  <2>11. LeastSoFar(d, n) = ArmedDistance(sim) /\ LeastSoFar(d, n) # None
    BY <2>9, <2>10 DEF LeastSoFar
  <2>. QED  BY <1>6, <2>11 DEF n, d, m
<1>. QED  BY <1>5, <1>6 DEF m

LEMMA IndicatorReadsLastRung ==
    ASSUME NEW sim, Sound(sim), NEW full, NEW name \in Running
    PROVE  /\ Indicator(name, sim, full).rung = Rungs(name, sim)[Len(sim.path)]
           /\ Indicator(name, sim, full).channel = "simulation"
           /\ Indicator(name, sim, full).abstained = FALSE
<1>. DEFINE n == Len(sim.path)
<1>1. n \in 0..n
  BY PositionsAreNumbers
<1>. HIDE DEF n
<1>2. CASE name = "plow_approach_intent"
  <2>1. Rungs(name, sim)[n] = LowerIsBetter(ReachEdges, PolylineDistance(sim, Plow))
    BY <1>1, <1>2, PolylineIsLeast DEF Rungs, RungAt, n
  <2>2. Indicator(name, sim, full) =
          Evidence("simulation", PolylineDistance(sim, Plow),
                   LowerIsBetter(ReachEdges, PolylineDistance(sim, Plow)))
    BY <1>2 DEF Indicator
  <2>. QED  BY <2>1, <2>2 DEF Evidence, n
<1>3. CASE name = "plow_proximity_execution"
  <2>1. Indicator(name, sim, full) = Attachment(sim)
    BY <1>3 DEF Indicator
  <2>. DEFINE least == LeastSoFar(Distances(name, sim), n)
  <2>2. Rungs(name, sim)[n] = IF least = None THEN 2 ELSE LowerIsBetter(<<AttachGap>>, least)
    BY <1>1, <1>3 DEF Rungs, RungAt, n
  <2>3. CASE sim.magnet = None \/ ArmedEntries(sim) = {}
    <3>1. least = None
      BY <1>3, <2>3, ArmedIsLeast DEF n
    <3>2. Attachment(sim) = Evidence("simulation", None, 2)
      BY <2>3 DEF Attachment
    <3>. QED  BY <2>1, <2>2, <3>1, <3>2 DEF Evidence, n
  <2>4. CASE ~(sim.magnet = None \/ ArmedEntries(sim) = {})
    <3>1. least = ArmedDistance(sim) /\ least # None
      BY <1>3, <2>4, ArmedIsLeast DEF n
    <3>2. Attachment(sim) =
            Evidence("simulation", ArmedDistance(sim), LowerIsBetter(<<AttachGap>>, ArmedDistance(sim)))
      BY <2>4 DEF Attachment
    <3>. QED  BY <2>1, <2>2, <3>1, <3>2 DEF Evidence, n
  <2>. QED  BY <2>3, <2>4
<1>. QED  BY <1>2, <1>3 DEF Running

-----------------------------------------------------------------------------
(***************************************************************************)
(* Where a chain of events ends.                                           *)
(***************************************************************************)
EndOf(events, start) ==
    LET last == {e \in events : \A f \in events : f.from # e.to}
    IN  IF last = {} THEN start ELSE (CHOOSE e \in last : TRUE).to

EndsAt(events, start, rung) ==
    /\ events = {} => rung = start
    /\ events # {} => \E e \in events : e.to = rung
    /\ \A e \in events : (\A f \in events : f.from # e.to) <=> e.to = rung

LEMMA EndIs ==
    ASSUME NEW events, NEW start, NEW rung, EndsAt(events, start, rung)
    PROVE  EndOf(events, start) = rung
<1>. DEFINE last == {e \in events : \A f \in events : f.from # e.to}
<1>1. last = {e \in events : e.to = rung}
  BY DEF EndsAt
<1>2. EndOf(events, start) = IF last = {} THEN start ELSE (CHOOSE e \in last : TRUE).to
  BY DEF EndOf
<1>. HIDE DEF last
<1>3. CASE events = {}
  BY <1>1, <1>2, <1>3 DEF EndsAt
<1>4. CASE events # {}
  <2>1. last # {}
    BY <1>1, <1>4 DEF EndsAt
  <2>2. (CHOOSE e \in last : TRUE) \in last
    BY <2>1
  <2>. QED  BY <1>1, <1>2, <2>1, <2>2
<1>. QED  BY <1>3, <1>4

Before(name, rungs, i) == IF i = 0 THEN StartRung(name) ELSE rungs[i - 1]

LEMMA ChangesAre ==
    ASSUME NEW name, NEW rungs, NEW k \in Nat
    PROVE  /\ \A e \in RungChanges(name, rungs, k) : \E i \in 0..k :
                  /\ rungs[i] # Before(name, rungs, i)
                  /\ e = Event(i, name, Before(name, rungs, i), rungs[i])
           /\ \A i \in 0..k : rungs[i] # Before(name, rungs, i) =>
                  Event(i, name, Before(name, rungs, i), rungs[i]) \in RungChanges(name, rungs, k)
BY DEF RungChanges, Before

LEMMA EventFields ==
    ASSUME NEW i, NEW name, NEW from, NEW to
    PROVE  /\ Event(i, name, from, to).at = i
           /\ Event(i, name, from, to).from = from
           /\ Event(i, name, from, to).to = to
BY DEF Event

\* The scored events are those of the scored part.
LEMMA ChangesUpTo ==
    ASSUME NEW name, NEW rungs, NEW n \in Nat, NEW k \in 0..n
    PROVE  {e \in RungChanges(name, rungs, n) : e.at <= k} = RungChanges(name, rungs, k)
<1>1. \A i : i \in 0..k <=> i \in 0..n /\ i <= k
  OBVIOUS
<1>2. ASSUME NEW e \in RungChanges(name, rungs, n), e.at <= k PROVE e \in RungChanges(name, rungs, k)
  <2>1. PICK i \in 0..n : /\ rungs[i] # Before(name, rungs, i)
                          /\ e = Event(i, name, Before(name, rungs, i), rungs[i])
    BY ChangesAre
  <2>2. i \in 0..k
    BY <1>1, <1>2, <2>1, EventFields
  <2>. QED  BY <2>1, <2>2, ChangesAre
<1>3. ASSUME NEW e \in RungChanges(name, rungs, k) PROVE e \in RungChanges(name, rungs, n) /\ e.at <= k
  <2>1. PICK i \in 0..k : /\ rungs[i] # Before(name, rungs, i)
                          /\ e = Event(i, name, Before(name, rungs, i), rungs[i])
    BY ChangesAre
  <2>2. i \in 0..n /\ i <= k
    BY <1>1
  <2>. QED  BY <2>1, <2>2, ChangesAre, EventFields
<1>. QED  BY <1>2, <1>3

LEMMA SameChanges ==
    ASSUME NEW name, NEW r, NEW s, NEW k \in Nat, \A i \in 0..k : r[i] = s[i]
    PROVE  RungChanges(name, r, k) = RungChanges(name, s, k)
<1>1. \A i \in 0..k : i = 0 \/ i - 1 \in 0..k
  OBVIOUS
<1>2. \A i \in 0..k : Before(name, r, i) = Before(name, s, i)
  BY <1>1 DEF Before
<1>3. ASSUME NEW e \in RungChanges(name, r, k) PROVE e \in RungChanges(name, s, k)
  <2>1. PICK i \in 0..k : /\ r[i] # Before(name, r, i)
                          /\ e = Event(i, name, Before(name, r, i), r[i])
    BY ChangesAre
  <2>2. s[i] # Before(name, s, i) /\ e = Event(i, name, Before(name, s, i), s[i])
    BY <1>2, <2>1
  <2>. QED  BY <2>2, ChangesAre
<1>4. ASSUME NEW e \in RungChanges(name, s, k) PROVE e \in RungChanges(name, r, k)
  <2>1. PICK i \in 0..k : /\ s[i] # Before(name, s, i)
                          /\ e = Event(i, name, Before(name, s, i), s[i])
    BY ChangesAre
  <2>2. r[i] # Before(name, r, i) /\ e = Event(i, name, Before(name, r, i), r[i])
    BY <1>2, <2>1
  <2>. QED  BY <2>2, ChangesAre
<1>. QED  BY <1>3, <1>4

\* The changes of rungs that only get better end at the last of them.
LEMMA ChangesEndAtLast ==
    ASSUME NEW name, NEW k \in Nat, NEW rungs, \A i \in 0..k : rungs[i] \in Nat,
           StartRung(name) \in Nat, rungs[0] <= StartRung(name),
           \A i, j \in 0..k : i <= j => rungs[j] <= rungs[i]
    PROVE  EndOf(RungChanges(name, rungs, k), StartRung(name)) = rungs[k]
<1>. DEFINE E == RungChanges(name, rungs, k)
            start == StartRung(name)
            P(i) == Before(name, rungs, i)
<1>. HIDE DEF E, start, P
<1>0. /\ start \in Nat /\ rungs[0] <= start /\ 0 \in 0..k /\ k \in 0..k
      /\ \A i \in 0..k : P(i) = IF i = 0 THEN start ELSE rungs[i - 1]
  BY DEF start, P, Before
<1>1. \A i \in 0..k : i # 0 => i - 1 \in 0..k
  OBVIOUS
<1>2. ASSUME NEW i \in 0..k PROVE rungs[i] <= P(i) /\ P(i) \in Nat /\ P(i) <= start /\ rungs[k] <= rungs[i]
  <2>1. CASE i = 0
    BY <1>0, <2>1
  <2>2. CASE i # 0
    <3>1. i - 1 \in 0..k /\ i - 1 <= i /\ 0 <= i - 1 /\ P(i) = rungs[i - 1] /\ i <= k
      BY <1>0, <1>1, <2>2
    <3>2. rungs[i] <= rungs[i - 1] /\ rungs[i - 1] <= rungs[0] /\ rungs[k] <= rungs[i]
      BY <1>0, <3>1
    <3>. QED  BY <1>0, <3>1, <3>2
  <2>. QED  BY <2>1, <2>2
<1>3. /\ \A e \in E : \E i \in 0..k : rungs[i] # P(i) /\ e = Event(i, name, P(i), rungs[i])
      /\ \A i \in 0..k : rungs[i] # P(i) => Event(i, name, P(i), rungs[i]) \in E
  BY ChangesAre DEF E, P
<1>4. /\ \A e \in E : \E i \in 0..k : rungs[i] # P(i) /\ e.from = P(i) /\ e.to = rungs[i]
      /\ \A i \in 0..k : rungs[i] # P(i) => \E e \in E : e.from = P(i) /\ e.to = rungs[i]
  BY <1>3, EventFields
<1>5. ASSUME NEW i \in 0..k, rungs[i] # rungs[k]
      PROVE  \E j \in 0..k : rungs[j] # P(j) /\ P(j) = rungs[i]
  <2>. DEFINE S == {j \in i..k : rungs[j] # rungs[i]}
  <2>1. S \in SUBSET Nat /\ k \in S
    BY <1>0, <1>5
  <2>. DEFINE j == Best(S)
  <2>2. j \in S /\ \A m \in S : j <= m
    <3>. HIDE DEF S
    <3>. QED  BY <2>1, BestIs
  <2>. HIDE DEF j
  <2>3. j \in i..k /\ rungs[j] # rungs[i] /\ j # i
    BY <2>2
  <2>4. j \in 0..k /\ j # 0 /\ j - 1 \in i..k /\ ~(j <= j - 1)
    BY <2>3
  <2>5. rungs[j - 1] = rungs[i]
    BY <2>2, <2>4
  <2>6. P(j) = rungs[i]
    BY <1>0, <2>4, <2>5
  <2>. QED  BY <2>3, <2>4, <2>6
<1>6. rungs[k] = start \/ \E i \in 0..k : rungs[i] # P(i) /\ rungs[i] = rungs[k]
  <2>. DEFINE S == {j \in 0..k : rungs[j] = rungs[k]}
  <2>1. S \in SUBSET Nat /\ k \in S
    BY <1>0
  <2>. DEFINE j == Best(S)
  <2>2. j \in S /\ \A m \in S : j <= m
    <3>. HIDE DEF S
    <3>. QED  BY <2>1, BestIs
  <2>. HIDE DEF j
  <2>3. j \in 0..k /\ rungs[j] = rungs[k]
    BY <2>2
  <2>4. CASE j = 0
    BY <1>0, <2>3, <2>4
  <2>5. CASE j # 0
    <3>1. j - 1 \in 0..k /\ ~(j <= j - 1)
      BY <2>3, <2>5
    <3>2. rungs[j - 1] # rungs[k]
      BY <2>2, <3>1
    <3>. QED  BY <1>0, <2>3, <2>5, <3>2
  <2>. QED  BY <2>4, <2>5
<1>7. ASSUME rungs[k] = start PROVE E = {}
  <2>1. \A i \in 0..k : rungs[i] = P(i)
    <3>1. \A i \in 0..k : rungs[i] \in Nat /\ P(i) \in Nat /\ rungs[k] <= rungs[i] /\ rungs[i] <= P(i) /\ P(i) <= start
      BY <1>2
    <3>. QED  BY <1>0, <1>7, <3>1
  <2>. QED  BY <1>4, <2>1
<1>8. E = {} => rungs[k] = start
  BY <1>4, <1>6
<1>9. E # {} => \E e \in E : e.to = rungs[k]
  BY <1>4, <1>6, <1>7
<1>10. ASSUME NEW e \in E PROVE (\A f \in E : f.from # e.to) <=> e.to = rungs[k]
  <2>1. PICK i \in 0..k : e.to = rungs[i]
    BY <1>4
  <2>2. CASE e.to = rungs[k]
    <3>1. ASSUME NEW f \in E PROVE f.from # e.to
      <4>1. PICK j \in 0..k : rungs[j] # P(j) /\ f.from = P(j)
        BY <1>4
      <4>2. rungs[j] <= P(j) /\ P(j) \in Nat /\ rungs[k] <= rungs[j] /\ rungs[j] \in Nat /\ rungs[k] \in Nat
        BY <1>0, <1>2
      <4>. QED  BY <2>2, <4>1, <4>2
    <3>. QED  BY <2>2, <3>1
  <2>3. CASE e.to # rungs[k]
    <3>1. PICK j \in 0..k : rungs[j] # P(j) /\ P(j) = rungs[i]
      BY <1>5, <2>1, <2>3
    <3>. QED  BY <1>4, <2>1, <2>3, <3>1
  <2>. QED  BY <2>2, <2>3
<1>11. EndOf(E, start) = rungs[k]
  <2>1. EndsAt(E, start, rungs[k])
    BY <1>8, <1>9, <1>10 DEF EndsAt
  <2>. QED  BY <2>1, EndIs
<1>. QED  BY <1>11 DEF E, start

-----------------------------------------------------------------------------
(***************************************************************************)
(* Coverage: the edges it reaches are the first ones, and a longer prefix  *)
(* covers more.                                                            *)
(***************************************************************************)
LEMMA EdgesReached ==
    ASSUME NEW v \in Int
    PROVE  /\ HigherIsBetter(CoverEdges, v) \in 0..Len(CoverEdges)
           /\ \A i \in 1..Len(CoverEdges) :
                  v >= CoverEdges[i] <=> i \in 1..HigherIsBetter(CoverEdges, v)
<1>. DEFINE n == Len(CoverEdges)
            S == {i \in 1..n : v >= CoverEdges[i]}
            T == ((1..n) \ S) \cup {n + 1}
            m == Best(T)
<1>1. n \in Nat /\ \A i \in 1..n : CoverEdges[i] \in Nat
  BY CardAssumption
<1>2. T \in SUBSET Nat /\ T # {} /\ T \subseteq 1..(n + 1)
  BY <1>1
<1>3. m \in T /\ \A i \in T : m <= i
  <2>. HIDE DEF T
  <2>. QED  BY <1>2, BestIs
<1>. HIDE DEF m
<1>4. m \in 1..(n + 1) /\ m - 1 \in 0..n
  BY <1>1, <1>2, <1>3
<1>5. \A i \in 1..n : i < m => i \in S
  BY <1>1, <1>3, <1>4
<1>6. ASSUME NEW i \in S PROVE i < m
  <2>1. CASE m = n + 1
    BY <1>1, <2>1
  <2>2. CASE m # n + 1
    <3>1. m \in 1..n /\ ~(v >= CoverEdges[m])
      BY <1>3, <2>2
    <3>2. i \in 1..n /\ v >= CoverEdges[i] /\ CoverEdges[i] \in Nat /\ CoverEdges[m] \in Nat
      BY <1>1, <3>1
    <3>3. m < i => CoverEdges[m] <= CoverEdges[i]
      BY <3>1, <3>2, CardAssumption
    <3>. QED  BY <1>1, <3>1, <3>2, <3>3
  <2>. QED  BY <2>1, <2>2
<1>7. S = 1..(m - 1)
  <2>1. \A i : i \in S => i \in 1..n
    OBVIOUS
  <2>2. \A i : i \in S <=> i \in 1..n /\ i < m
    <3>. HIDE DEF S, T, n
    <3>. QED  BY <1>5, <1>6, <2>1
  <2>3. \A i : i \in 1..(m - 1) <=> i \in 1..n /\ i < m
    <3>. HIDE DEF S, T, n
    <3>. QED  BY <1>1, <1>4
  <2>. HIDE DEF S, T, n
  <2>. QED  BY <2>2, <2>3
<1>8. Cardinality(S) = m - 1
  <2>1. Cardinality(1..(m - 1)) = m - 1
    <3>1. 1 \in Int /\ m - 1 \in Int /\ (IF 1 > m - 1 THEN 0 ELSE (m - 1) - 1 + 1) = m - 1
      BY <1>1, <1>4
    <3>. QED  BY <3>1, FS_Interval
  <2>. QED  BY <1>7, <2>1
<1>9. HigherIsBetter(CoverEdges, v) = m - 1
  BY <1>8 DEF HigherIsBetter
<1>10. \A i \in 1..n : v >= CoverEdges[i] <=> i \in 1..(m - 1)
  BY <1>7
<1>. QED  BY <1>4, <1>9, <1>10

\* The cells of a simulation: at least what its positions tell, and not more than there are.
LEMMA PrefixIsFinite ==
    ASSUME NEW sim, NEW k \in Nat, NEW i \in 0..k
    PROVE  /\ PrefixCells(sim, i) \subseteq PrefixCells(sim, k)
           /\ IsFiniteSet(PrefixCells(sim, k)) /\ Cardinality(PrefixCells(sim, k)) \in Nat
           /\ Cardinality(PrefixCells(sim, i)) \in Nat
           /\ Cardinality(PrefixCells(sim, i)) <= Cardinality(PrefixCells(sim, k))
<1>1. \A j \in 1..i : j \in 1..k
  OBVIOUS
<1>2. PrefixCells(sim, i) \subseteq PrefixCells(sim, k) /\ PrefixCells(sim, k) \subseteq Region
  BY <1>1 DEF PrefixCells, SampledCells
<1>3. IsFiniteSet(PrefixCells(sim, k))
  BY <1>2, SceneAssumption, FS_Subset
<1>4. /\ IsFiniteSet(PrefixCells(sim, i))
      /\ Cardinality(PrefixCells(sim, i)) <= Cardinality(PrefixCells(sim, k))
  BY <1>2, <1>3, FS_Subset
<1>. QED  BY <1>2, <1>3, <1>4, FS_CardinalityType

Covers(sim) ==
    /\ sim.cells \subseteq Region
    /\ PrefixCells(sim, Len(sim.path)) \subseteq sim.cells
    /\ Len(sim.path) = 0 => sim.cells = {}

LEMMA WholeCovers == ASSUME TraceInv PROVE Covers(FullSim)
<1>1. FullSim.path = path /\ FullSim.cells = cells
  BY DEF FullSim
<1>. QED  BY <1>1 DEF TraceInv, Covered, Covers

LEMMA CutCovers ==
    ASSUME NEW sim, Sound(sim), NEW k \in 0..Len(sim.path)
    PROVE  /\ Covers(Slice(sim, k)) /\ Slice(sim, k).cells = PrefixCells(sim, k)
           /\ \A i \in 0..k : PrefixCells(Slice(sim, k), i) = PrefixCells(sim, i)
<1>. DEFINE cut == Slice(sim, k)
<1>1. Len(cut.path) = k /\ \A i \in 0..k : Position(cut, i) = Position(sim, i)
  BY CutIsSound
<1>2. cut.cells = PrefixCells(sim, k)
  BY DEF Slice
<1>. HIDE DEF cut
<1>3. k \in Nat /\ k \in 0..k
  BY PositionsAreNumbers
<1>4. ASSUME NEW i \in 0..k PROVE PrefixCells(cut, i) = PrefixCells(sim, i)
  <2>1. i \in Nat /\ \A j \in 0..i : j \in 0..k
    BY <1>3
  <2>2. \A j \in 0..i : Position(cut, j) = Position(sim, j)
    BY <1>1, <2>1
  <2>. QED  BY <2>1, <2>2, SamePrefix
<1>5. PrefixCells(sim, k) \subseteq Region
  BY DEF PrefixCells, SampledCells
<1>6. k = 0 => PrefixCells(sim, k) = {}
  BY NothingYet
<1>7. Covers(cut)
  BY <1>1, <1>2, <1>3, <1>4, <1>5, <1>6 DEF Covers
<1>. QED  BY <1>2, <1>4, <1>7 DEF cut

LEMMA CoverageGrows ==
    ASSUME NEW sim, Sound(sim), Covers(sim)
    PROVE  /\ Cardinality(sim.cells) \in Nat
           /\ \A i \in 1..Len(sim.path) : CoverageAt(sim, i) \in Nat
           /\ \A i, j \in 1..Len(sim.path) : i <= j => CoverageAt(sim, i) <= CoverageAt(sim, j)
<1>. DEFINE n == Len(sim.path)
<1>1. n \in Nat
  BY PositionsAreNumbers
<1>2. sim.cells \subseteq Region /\ PrefixCells(sim, n) \subseteq sim.cells
  BY DEF Covers
<1>. HIDE DEF n
<1>3. IsFiniteSet(sim.cells) /\ Cardinality(sim.cells) \in Nat
  BY <1>2, SceneAssumption, FS_Subset, FS_CardinalityType
<1>4. Cardinality(PrefixCells(sim, n)) <= Cardinality(sim.cells)
  BY <1>2, <1>3, FS_Subset
<1>5. ASSUME NEW i \in 0..n
      PROVE  /\ Cardinality(PrefixCells(sim, i)) \in Nat
             /\ Cardinality(PrefixCells(sim, i)) <= Cardinality(sim.cells)
  <2>1. /\ Cardinality(PrefixCells(sim, i)) \in Nat
        /\ Cardinality(PrefixCells(sim, n)) \in Nat
        /\ Cardinality(PrefixCells(sim, i)) <= Cardinality(PrefixCells(sim, n))
    BY <1>1, PrefixIsFinite
  <2>. QED  BY <1>3, <1>4, <2>1
<1>6. \A i \in 1..n : CoverageAt(sim, i) = IF i = n THEN Cardinality(sim.cells)
                                            ELSE Cardinality(PrefixCells(sim, i))
  BY DEF CoverageAt, n
<1>7. \A i \in 1..n : CoverageAt(sim, i) \in Nat
  BY <1>3, <1>5, <1>6
<1>8. ASSUME NEW i \in 1..n, NEW j \in 1..n, i <= j
      PROVE  CoverageAt(sim, i) <= CoverageAt(sim, j)
  <2>1. i \in 0..n /\ j \in Nat /\ i \in 0..j
    BY <1>1, <1>8
  <2>2. CASE i = j
    BY <1>7, <2>2
  <2>3. CASE i # j /\ j = n
    BY <1>5, <1>6, <2>1, <2>3
  <2>4. CASE i # j /\ j # n
    <3>1. i # n
      BY <1>1, <1>8, <2>4
    <3>2. Cardinality(PrefixCells(sim, i)) <= Cardinality(PrefixCells(sim, j))
      BY <2>1, PrefixIsFinite
    <3>. QED  BY <1>6, <2>4, <3>1, <3>2
  <2>. QED  BY <2>2, <2>3, <2>4
<1>. QED  BY <1>3, <1>7, <1>8 DEF n

\* The search finds the first prefix that reaches an edge the whole simulation reaches.
LEMMA FirstPrefixIs ==
    ASSUME NEW sim, Sound(sim), Covers(sim), Len(sim.path) # 0,
           NEW edge \in Nat, Cardinality(sim.cells) >= edge
    PROVE  /\ FirstPrefix(sim, edge) \in 1..Len(sim.path)
           /\ \A k \in 1..Len(sim.path) :
                  FirstPrefix(sim, edge) <= k <=> CoverageAt(sim, k) >= edge
<1>. DEFINE n == Len(sim.path)
            passes == Enough(sim, edge)
<1>1. n \in Nat /\ n # 0 /\ n \in 1..n /\ 1 \in 1..n
  BY PositionsAreNumbers
<1>2. /\ \A i \in 1..n : CoverageAt(sim, i) \in Nat
      /\ \A i, j \in 1..n : i <= j => CoverageAt(sim, i) <= CoverageAt(sim, j)
  BY CoverageGrows
<1>3. \A i \in 1..n : passes[i] <=> CoverageAt(sim, i) >= edge
  <2>1. \A k \in 1..n : (CoverageAt(sim, k) >= edge) \in BOOLEAN
    OBVIOUS
  <2>. QED  BY <2>1, Zenon DEF Enough
<1>4. CoverageAt(sim, n) >= edge
  BY DEF CoverageAt
<1>. HIDE DEF passes
<1>5. \A i, j \in 1..n : i <= j /\ passes[i] => passes[j]
  <2>. HIDE DEF n
  <2>1. \A i, j \in 1..n : i <= j /\ CoverageAt(sim, i) >= edge => CoverageAt(sim, j) >= edge
    BY <1>2
  <2>. QED  BY <1>3, <2>1
<1>6. FirstPrefix(sim, edge) = FirstOf(passes, 1, n)
  BY <1>1, <1>5, SearchFinds DEF passes
<1>. HIDE DEF n
<1>7. passes[n]
  BY <1>1, <1>3, <1>4
<1>. DEFINE first == FirstOf(passes, 1, n)
<1>8. first \in 1..n /\ \A k \in 1..n : first <= k <=> passes[k]
  <2>1. CASE 1 >= n
    <3>1. n = 1 /\ first = 1
      BY <1>1, <2>1 DEF FirstOf
    <3>2. \A k \in 1..n : k = 1
      BY <3>1
    <3>. QED  BY <1>1, <1>7, <3>1, <3>2
  <2>2. CASE ~(1 >= n)
    <3>. DEFINE S == Passing(passes, 1, n)
    <3>1. first = IF S = {} THEN n ELSE Best(S)
      BY <2>2 DEF FirstOf, FirstIn
    <3>2. \A k : k \in S <=> k \in 1..(n - 1) /\ passes[k]
      BY DEF Passing
    <3>. HIDE DEF S, first
    <3>3. CASE S = {}
      <4>1. \A k \in 1..n : n <= k <=> k = n
        BY <1>1
      <4>2. \A k \in 1..n : k # n => k \in 1..(n - 1)
        BY <1>1
      <4>. QED  BY <1>1, <1>7, <3>1, <3>2, <3>3, <4>1, <4>2
    <3>4. CASE S # {}
      <4>1. S \in SUBSET Nat
        BY <3>2
      <4>2. first \in S /\ \A k \in S : first <= k
        BY <3>1, <3>4, <4>1, BestIs
      <4>3. first \in 1..n /\ passes[first] /\ first <= n
        BY <1>1, <3>2, <4>2
      <4>4. ASSUME NEW k \in 1..n, passes[k] PROVE first <= k
        <5>1. CASE k = n
          BY <4>3, <5>1
        <5>2. CASE k # n
          <6>1. k \in 1..(n - 1)
            BY <1>1, <5>2
          <6>. QED  BY <3>2, <4>2, <4>4, <6>1
        <5>. QED  BY <5>1, <5>2
      <4>5. \A k \in 1..n : first <= k => passes[k]
        BY <1>5, <4>3
      <4>. QED  BY <4>3, <4>4, <4>5
    <3>. QED  BY <3>3, <3>4
  <2>. QED  BY <2>1, <2>2
<1>. HIDE DEF first
<1>. QED  BY <1>3, <1>6, <1>8 DEF n, first

Coverage == "debris_zone_coverage"

\* The rung an amount of coverage reaches.
CoverRung(v) == HigherIsBetter(CoverEdges, v)

LEMMA CoverageEvents ==
    ASSUME NEW sim, Sound(sim), Covers(sim)
    PROVE  /\ \A e \in Events(Coverage, sim) : \E i \in 1..CoverRung(Cardinality(sim.cells)) :
                  e = Event(FirstPrefix(sim, CoverEdges[i]), Coverage, i - 1, i)
           /\ \A i \in 1..CoverRung(Cardinality(sim.cells)) :
                  /\ Event(FirstPrefix(sim, CoverEdges[i]), Coverage, i - 1, i) \in Events(Coverage, sim)
                  /\ i \in 1..Len(CoverEdges) /\ CoverEdges[i] \in Nat
                  /\ Cardinality(sim.cells) >= CoverEdges[i] /\ Len(sim.path) # 0
<1>. DEFINE v == Cardinality(sim.cells)
            S == {i \in 1..Len(CoverEdges) : v >= CoverEdges[i]}
<1>1. v \in Nat
  BY CoverageGrows
<1>. HIDE DEF v
<1>2. S = 1..CoverRung(v)
  <2>1. /\ CoverRung(v) \in 0..Len(CoverEdges) /\ Len(CoverEdges) \in Nat
        /\ \A i \in 1..Len(CoverEdges) : v >= CoverEdges[i] <=> i \in 1..CoverRung(v)
    <3>1. v \in Int
      BY <1>1
    <3>2. /\ HigherIsBetter(CoverEdges, v) \in 0..Len(CoverEdges)
          /\ \A i \in 1..Len(CoverEdges) : v >= CoverEdges[i] <=> i \in 1..HigherIsBetter(CoverEdges, v)
      BY <3>1, EdgesReached
    <3>. QED  BY <3>2, CardAssumption DEF CoverRung
  <2>2. \A i : i \in 1..CoverRung(v) => i \in 1..Len(CoverEdges)
    BY <2>1
  <2>. QED  BY <2>1, <2>2
<1>3. \A i \in 1..Len(CoverEdges) : CoverEdges[i] \in Nat \ {0}
  BY CardAssumption
<1>4. S # {} => Len(sim.path) # 0
  <2>. SUFFICES ASSUME NEW i \in S, Len(sim.path) = 0 PROVE FALSE
    OBVIOUS
  <2>1. sim.cells = {}
    BY DEF Covers
  <2>2. v = 0
    BY <2>1, FS_EmptySet DEF v
  <2>. QED  BY <1>3, <2>2
<1>5. S # {} => sim.path # <<>>
  BY <1>4
<1>6. Events(Coverage, sim) =
        {Event(FirstPrefix(sim, CoverEdges[e]), Coverage, e - 1, e) :
            e \in {f \in 1..Len(CoverEdges) : sim.path # <<>> /\ v >= CoverEdges[f]}}
  BY DEF Events, Coverage, ScanRegionCoverage, v
<1>7. {f \in 1..Len(CoverEdges) : sim.path # <<>> /\ v >= CoverEdges[f]} = S
  BY <1>5
<1>8. \A i \in S : i \in 1..Len(CoverEdges) /\ CoverEdges[i] \in Nat /\ v >= CoverEdges[i] /\ Len(sim.path) # 0
  BY <1>3, <1>4
<1>. HIDE DEF S
<1>. QED  BY <1>2, <1>6, <1>7, <1>8 DEF v

\* What the coverage events up to the k-th move reach, and where they lead.
LEMMA CoverageLeads ==
    ASSUME NEW sim, Sound(sim), Covers(sim), NEW k \in 1..Len(sim.path)
    PROVE  /\ \A e \in Events(Coverage, sim) : e.at <= k => \E i \in 1..CoverRung(CoverageAt(sim, k)) :
                  e = Event(FirstPrefix(sim, CoverEdges[i]), Coverage, i - 1, i)
           /\ \A i \in 1..CoverRung(CoverageAt(sim, k)) :
                  /\ Event(FirstPrefix(sim, CoverEdges[i]), Coverage, i - 1, i) \in Events(Coverage, sim)
                  /\ FirstPrefix(sim, CoverEdges[i]) <= k
           /\ \A i \in 1..Len(CoverEdges) :
                  i \in 1..CoverRung(CoverageAt(sim, k)) <=> CoverageAt(sim, k) >= CoverEdges[i]
<1>. DEFINE v == Cardinality(sim.cells)
            u == CoverageAt(sim, k)
            n == Len(sim.path)
<1>1. /\ v \in Nat /\ u \in Nat /\ u <= v /\ n \in Nat /\ n # 0
  <2>1. n \in Nat /\ n # 0 /\ n \in 1..n /\ k <= n
    BY PositionsAreNumbers
  <2>2. CoverageAt(sim, n) = v
    BY DEF CoverageAt
  <2>3. CoverageAt(sim, k) <= CoverageAt(sim, n) /\ u \in Nat /\ v \in Nat
    <3>. HIDE DEF n
    <3>. QED  BY <2>1, CoverageGrows DEF n
  <2>. QED  BY <2>1, <2>2, <2>3
<1>. HIDE DEF v, u, n
<1>2. /\ \A i \in 1..Len(CoverEdges) : i \in 1..CoverRung(u) <=> u >= CoverEdges[i]
      /\ \A i \in 1..Len(CoverEdges) : i \in 1..CoverRung(v) <=> v >= CoverEdges[i]
      /\ \A i \in 1..CoverRung(u) : i \in 1..Len(CoverEdges)
      /\ \A i \in 1..CoverRung(v) : i \in 1..Len(CoverEdges)
  <2>1. ASSUME NEW w \in Nat
        PROVE  /\ \A i \in 1..Len(CoverEdges) : i \in 1..CoverRung(w) <=> w >= CoverEdges[i]
               /\ \A i \in 1..CoverRung(w) : i \in 1..Len(CoverEdges)
    <3>1. /\ CoverRung(w) \in 0..Len(CoverEdges)
          /\ \A i \in 1..Len(CoverEdges) : w >= CoverEdges[i] <=> i \in 1..CoverRung(w)
      <4>. DEFINE z == w
      <4>1. z \in Int
        OBVIOUS
      <4>2. \A i \in 1..Len(CoverEdges) : CoverEdges[i] \in Nat
        BY CardAssumption
      <4>. HIDE DEF z
      <4>3. /\ HigherIsBetter(CoverEdges, z) \in 0..Len(CoverEdges)
            /\ \A i \in 1..Len(CoverEdges) : z >= CoverEdges[i] <=> i \in 1..HigherIsBetter(CoverEdges, z)
        BY <4>1, <4>2, EdgesReached
      <4>. QED  BY <4>3 DEF CoverRung, z
    <3>. QED  BY <3>1, CardAssumption
  <2>. QED  BY <1>1, <2>1
<1>3. \A i \in 1..Len(CoverEdges) : CoverEdges[i] \in Nat
  BY CardAssumption
<1>4. ASSUME NEW i \in 1..CoverRung(v)
      PROVE  FirstPrefix(sim, CoverEdges[i]) <= k <=> u >= CoverEdges[i]
  <2>1. CoverEdges[i] \in Nat /\ Cardinality(sim.cells) >= CoverEdges[i]
    BY <1>2, <1>3 DEF v
  <2>. QED  BY <1>1, <2>1, FirstPrefixIs DEF u, n
<1>5. \A i \in 1..CoverRung(u) : i \in 1..CoverRung(v)
  <2>1. \A i \in 1..CoverRung(u) : v >= CoverEdges[i]
    BY <1>1, <1>2, <1>3
  <2>. QED  BY <1>2, <2>1
<1>6. ASSUME NEW e \in Events(Coverage, sim), e.at <= k
      PROVE  \E i \in 1..CoverRung(u) : e = Event(FirstPrefix(sim, CoverEdges[i]), Coverage, i - 1, i)
  <2>1. PICK i \in 1..CoverRung(v) : e = Event(FirstPrefix(sim, CoverEdges[i]), Coverage, i - 1, i)
    BY CoverageEvents DEF v
  <2>2. FirstPrefix(sim, CoverEdges[i]) <= k
    BY <1>6, <2>1, EventFields
  <2>. QED  BY <1>2, <1>4, <2>1, <2>2
<1>7. ASSUME NEW i \in 1..CoverRung(u)
      PROVE  /\ Event(FirstPrefix(sim, CoverEdges[i]), Coverage, i - 1, i) \in Events(Coverage, sim)
             /\ FirstPrefix(sim, CoverEdges[i]) <= k
  <2>1. i \in 1..CoverRung(v)
    BY <1>5
  <2>2. Event(FirstPrefix(sim, CoverEdges[i]), Coverage, i - 1, i) \in Events(Coverage, sim)
    BY <2>1, CoverageEvents DEF v
  <2>. QED  BY <1>2, <1>4, <2>1, <2>2
<1>. QED  BY <1>2, <1>6, <1>7 DEF u

\* The coverage a cut reports is what the whole simulation had there, unless the
\* simulator sampled finer than the positions tell.
LEMMA CutReportsCoverage ==
    ASSUME NEW sim, Sound(sim), Covers(sim), NEW k \in 1..Len(sim.path),
           CoverageAt(sim, k) = Cardinality(PrefixCells(sim, k))
    PROVE  {e \in Events(Coverage, sim) : e.at <= k} = Events(Coverage, Slice(sim, k))
<1>. DEFINE cut == Slice(sim, k)
            u == CoverageAt(sim, k)
            n == Len(sim.path)
<1>1. n \in Nat /\ k \in Nat /\ k \in 0..n /\ k \in 1..k /\ \A j \in 1..k : j \in 1..n /\ j \in 0..k
  BY PositionsAreNumbers
<1>2. Sound(cut) /\ Len(cut.path) = k
  <2>. HIDE DEF n
  <2>. QED  BY <1>1, CutIsSound DEF n
<1>3. Covers(cut) /\ cut.cells = PrefixCells(sim, k)
      /\ \A j \in 0..k : PrefixCells(cut, j) = PrefixCells(sim, j)
  BY <1>1, CutCovers
<1>. HIDE DEF cut, n
<1>4. ASSUME NEW j \in 1..k PROVE CoverageAt(cut, j) = CoverageAt(sim, j)
  <2>1. CASE j = k
    BY <1>2, <1>3, <2>1 DEF CoverageAt
  <2>2. CASE j # k
    <3>1. j # n /\ j \in 0..k
      BY <1>1, <2>2
    <3>. QED  BY <1>2, <1>3, <2>2, <3>1 DEF CoverageAt, n
  <2>. QED  BY <2>1, <2>2
<1>5. u = Cardinality(cut.cells) /\ u \in Nat /\ Cardinality(sim.cells) \in Nat
      /\ u <= Cardinality(sim.cells)
  <2>1. u \in Nat /\ Cardinality(sim.cells) \in Nat
    BY CoverageGrows
  <2>2. n \in 1..n /\ k <= n
    BY <1>1
  <2>3. CoverageAt(sim, n) = Cardinality(sim.cells)
    BY DEF CoverageAt, n
  <2>4. u <= CoverageAt(sim, n)
    BY <2>2, CoverageGrows DEF n
  <2>. QED  BY <1>3, <2>1, <2>3, <2>4
<1>. HIDE DEF u
<1>6. ASSUME NEW edge \in Nat, u >= edge
      PROVE  FirstPrefix(cut, edge) = FirstPrefix(sim, edge)
  <2>. DEFINE f == FirstPrefix(sim, edge)
              g == FirstPrefix(cut, edge)
  <2>1. Cardinality(sim.cells) >= edge /\ Cardinality(cut.cells) >= edge /\ Len(sim.path) # 0 /\ Len(cut.path) # 0
    BY <1>1, <1>2, <1>5, <1>6 DEF n
  <2>2. f \in 1..n /\ \A j \in 1..n : f <= j <=> CoverageAt(sim, j) >= edge
    BY <2>1, FirstPrefixIs DEF n
  <2>3. g \in 1..k /\ \A j \in 1..k : g <= j <=> CoverageAt(cut, j) >= edge
    BY <1>2, <1>3, <2>1, FirstPrefixIs
  <2>. HIDE DEF f, g
  <2>4. f <= k
    BY <1>6, <2>2 DEF u, n
  <2>5. f \in 1..k
    BY <1>1, <2>2, <2>4
  <2>6. \A j \in 1..k : f <= j <=> g <= j
    BY <1>1, <1>4, <2>2, <2>3
  <2>7. f <= g /\ g <= f
    BY <2>3, <2>5, <2>6
  <2>8. f = g
    BY <2>3, <2>5, <2>7
  <2>. QED  BY <2>8 DEF f, g
<1>7. \A i \in 1..CoverRung(u) : FirstPrefix(cut, CoverEdges[i]) = FirstPrefix(sim, CoverEdges[i])
  <2>1. ASSUME NEW i \in 1..CoverRung(u) PROVE CoverEdges[i] \in Nat /\ u >= CoverEdges[i]
    BY <1>2, <1>3, <1>5, CoverageEvents
  <2>. QED  BY <1>6, <2>1
<1>8. ASSUME NEW e \in Events(Coverage, sim), e.at <= k PROVE e \in Events(Coverage, cut)
  <2>1. PICK i \in 1..CoverRung(u) : e = Event(FirstPrefix(sim, CoverEdges[i]), Coverage, i - 1, i)
    BY <1>8, CoverageLeads DEF u
  <2>2. Event(FirstPrefix(cut, CoverEdges[i]), Coverage, i - 1, i) \in Events(Coverage, cut)
    BY <1>2, <1>3, <1>5, CoverageEvents
  <2>. QED  BY <1>7, <2>1, <2>2
<1>9. ASSUME NEW e \in Events(Coverage, cut) PROVE e \in Events(Coverage, sim) /\ e.at <= k
  <2>1. PICK i \in 1..CoverRung(u) : e = Event(FirstPrefix(cut, CoverEdges[i]), Coverage, i - 1, i)
    BY <1>2, <1>3, <1>5, CoverageEvents
  <2>2. /\ Event(FirstPrefix(sim, CoverEdges[i]), Coverage, i - 1, i) \in Events(Coverage, sim)
        /\ FirstPrefix(sim, CoverEdges[i]) <= k
    BY CoverageLeads DEF u
  <2>. QED  BY <1>7, <2>1, <2>2, EventFields
<1>. QED  BY <1>8, <1>9 DEF cut

LEMMA CoverageEnds ==
    ASSUME NEW sim, Sound(sim), Covers(sim), NEW k \in 1..Len(sim.path)
    PROVE  EndOf({e \in Events(Coverage, sim) : e.at <= k}, 0) = CoverRung(CoverageAt(sim, k))
<1>. DEFINE E == {e \in Events(Coverage, sim) : e.at <= k}
            m == CoverRung(CoverageAt(sim, k))
<1>1. m \in Nat
  <2>1. CoverageAt(sim, k) \in Nat
    BY CoverageGrows
  <2>2. CoverageAt(sim, k) \in Int
    BY <2>1
  <2>. DEFINE v == CoverageAt(sim, k)
  <2>. HIDE DEF v
  <2>3. v \in Int
    BY <2>2 DEF v
  <2>4. HigherIsBetter(CoverEdges, v) \in 0..Len(CoverEdges)
    BY <2>3, EdgesReached
  <2>. QED  BY <2>4, CardAssumption DEF CoverRung, v
<1>2. \A e \in E : \E i \in 1..m : e.from = i - 1 /\ e.to = i
  BY CoverageLeads, EventFields
<1>3. ASSUME NEW i \in 1..m PROVE \E e \in E : e.from = i - 1 /\ e.to = i
  <2>1. /\ Event(FirstPrefix(sim, CoverEdges[i]), Coverage, i - 1, i) \in Events(Coverage, sim)
        /\ FirstPrefix(sim, CoverEdges[i]) <= k
    BY CoverageLeads
  <2>2. Event(FirstPrefix(sim, CoverEdges[i]), Coverage, i - 1, i) \in E
    BY <2>1, EventFields
  <2>. HIDE DEF E, m
  <2>. QED  BY <2>2, EventFields
<1>. HIDE DEF E, m
<1>4. E = {} => m = 0
  <2>. SUFFICES ASSUME E = {}, m # 0 PROVE FALSE
    OBVIOUS
  <2>1. m \in 1..m
    BY <1>1
  <2>. QED  BY <1>3, <2>1
<1>5. E # {} => \E e \in E : e.to = m
  <2>. SUFFICES ASSUME E # {} PROVE \E e \in E : e.to = m
    OBVIOUS
  <2>1. PICK i \in 1..m : TRUE
    BY <1>2
  <2>2. m \in 1..m
    BY <1>1, <2>1
  <2>. QED  BY <1>3, <2>2
<1>6. ASSUME NEW e \in E PROVE (\A f \in E : f.from # e.to) <=> e.to = m
  <2>1. PICK i \in 1..m : e.to = i
    BY <1>2
  <2>2. CASE i = m
    <3>1. ASSUME NEW f \in E PROVE f.from # m
      <4>1. PICK j \in 1..m : f.from = j - 1
        BY <1>2
      <4>. QED  BY <1>1, <4>1
    <3>. QED  BY <2>1, <2>2, <3>1
  <2>3. CASE i # m
    <3>1. i + 1 \in 1..m /\ (i + 1) - 1 = i
      BY <1>1, <2>3
    <3>2. \E f \in E : f.from = i
      BY <1>3, <3>1
    <3>. QED  BY <2>1, <2>3, <3>2
  <2>. QED  BY <2>2, <2>3
<1>7. EndsAt(E, 0, m)
  BY <1>4, <1>5, <1>6 DEF EndsAt
<1>. QED  BY <1>7, EndIs DEF E, m

-----------------------------------------------------------------------------
(***************************************************************************)
(* What is scored: the whole simulation, or its part up to the exit.       *)
(***************************************************************************)
LEMMA ExitIsOnThePath ==
    ASSUME NEW sim, Sound(sim)
    PROVE  ExitIndex(sim) \in 0..Len(sim.path)
<1>. DEFINE off == {i \in 1..Len(sim.path) : ~OnIsland(sim.path[i].x)}
<1>1. Len(sim.path) \in Nat
  BY PositionsAreNumbers
<1>2. off \in SUBSET Nat /\ \A i \in off : i \in 0..Len(sim.path)
  BY <1>1
<1>3. ExitIndex(sim) = IF off = {} THEN 0 ELSE Best(off)
  BY DEF ExitIndex
<1>. HIDE DEF off
<1>4. CASE off = {}
  BY <1>1, <1>3, <1>4
<1>5. CASE off # {}
  BY <1>2, <1>3, <1>5, BestIs
<1>. QED  BY <1>4, <1>5

LEMMA ScoredIs ==
    ASSUME TraceInv
    PROVE  /\ Sound(FullSim) /\ Covers(FullSim) /\ FullSim.path = path /\ FullSim.cells = cells
           /\ Len(path) \in Nat /\ ExitIndex(FullSim) \in 0..Len(path)
           /\ Sound(ScoredSim(FullSim)) /\ Covers(ScoredSim(FullSim))
           /\ ScoredLast(FullSim) = Len(ScoredSim(FullSim).path)
           /\ \/ /\ ExitIndex(FullSim) # 0 /\ ~Overridden(FullSim)
                 /\ ScoredSim(FullSim) = Slice(FullSim, ExitIndex(FullSim))
                 /\ ScoredLast(FullSim) = ExitIndex(FullSim)
              \/ /\ ExitIndex(FullSim) = 0 \/ Overridden(FullSim)
                 /\ ScoredSim(FullSim) = FullSim
                 /\ ScoredLast(FullSim) = Len(path)
<1>1. Sound(FullSim) /\ Covers(FullSim) /\ FullSim.path = path /\ FullSim.cells = cells
  BY WholeIsSound, WholeCovers DEF FullSim
<1>2. Len(path) \in Nat /\ ExitIndex(FullSim) \in 0..Len(path)
  BY <1>1, PositionsAreNumbers, ExitIsOnThePath
<1>3. ScoredLast(FullSim) = Len(ScoredSim(FullSim).path)
  BY DEF ScoredLast
<1>4. CASE ExitIndex(FullSim) # 0 /\ ~Overridden(FullSim)
  <2>1. ScoredSim(FullSim) = Slice(FullSim, ExitIndex(FullSim))
    BY <1>4 DEF ScoredSim
  <2>2. /\ Sound(Slice(FullSim, ExitIndex(FullSim)))
        /\ Len(Slice(FullSim, ExitIndex(FullSim)).path) = ExitIndex(FullSim)
        /\ Covers(Slice(FullSim, ExitIndex(FullSim)))
    BY <1>1, <1>2, CutIsSound, CutCovers
  <2>. QED  BY <1>1, <1>2, <1>3, <1>4, <2>1, <2>2
<1>5. CASE ~(ExitIndex(FullSim) # 0 /\ ~Overridden(FullSim))
  <2>1. ScoredSim(FullSim) = FullSim
    BY <1>5 DEF ScoredSim
  <2>. QED  BY <1>1, <1>2, <1>3, <1>5, <2>1
<1>. QED  BY <1>4, <1>5

\* The two exceptions of a finely sampled last entry are the only ones.
Exempt == Finer /\ ExitIndex(FullSim) = Len(path)

LEMMA CoverageAtExit ==
    ASSUME TraceInv, ExitIndex(FullSim) # 0, ~Exempt
    PROVE  CoverageAt(FullSim, ExitIndex(FullSim)) =
               Cardinality(PrefixCells(FullSim, ExitIndex(FullSim)))
BY ScoredIs DEF CoverageAt, Exempt, Finer

LEMMA MainOfRunning ==
    ASSUME TraceInv, NEW name \in Running
    PROVE  /\ MainEvents(name, FullSim) = RungChanges(name, Rungs(name, FullSim), ScoredLast(FullSim))
           /\ MainEvents(name, FullSim) = Events(name, ScoredSim(FullSim))
           /\ Rungs(name, ScoredSim(FullSim))[ScoredLast(FullSim)] = Rungs(name, FullSim)[ScoredLast(FullSim)]
<1>. DEFINE F == FullSim
            S == ScoredSim(FullSim)
            n == Len(path)
            k == ScoredLast(FullSim)
<1>1. /\ Sound(F) /\ Sound(S) /\ F.path = path /\ n \in Nat /\ k = Len(S.path) /\ k \in 0..n
      /\ S = F \/ S = Slice(F, k)
  BY ScoredIs
<1>. HIDE DEF F, S, n, k
<1>2. k \in Nat /\ k \in 0..k
  BY <1>1
<1>3. Events(name, F) = RungChanges(name, Rungs(name, F), n)
  BY <1>1, ScannersReadRungs DEF n
<1>4. Events(name, S) = RungChanges(name, Rungs(name, S), k)
  BY <1>1, ScannersReadRungs
<1>5. MainEvents(name, FullSim) = {e \in RungChanges(name, Rungs(name, F), n) : e.at <= k}
  BY <1>3 DEF MainEvents, F, k
<1>6. MainEvents(name, FullSim) = RungChanges(name, Rungs(name, F), k)
  BY <1>1, <1>5, ChangesUpTo
<1>7. \A i \in 0..k : Rungs(name, S)[i] = Rungs(name, F)[i]
  <2>1. CASE S = F
    BY <2>1
  <2>2. CASE S = Slice(F, k)
    <3>1. k \in 0..Len(F.path)
      BY <1>1 DEF n
    <3>. QED  BY <1>1, <2>2, <3>1, RungsOfCut
  <2>. QED  BY <1>1, <2>1, <2>2
<1>8. RungChanges(name, Rungs(name, S), k) = RungChanges(name, Rungs(name, F), k)
  <2>. DEFINE r == Rungs(name, S)
              t == Rungs(name, F)
  <2>1. \A i \in 0..k : r[i] = t[i]
    BY <1>7
  <2>. HIDE DEF r, t
  <2>2. RungChanges(name, r, k) = RungChanges(name, t, k)
    BY <1>2, <2>1, SameChanges
  <2>. QED  BY <2>2 DEF r, t
<1>. QED  BY <1>2, <1>4, <1>6, <1>7, <1>8 DEF F, S, k

LEMMA RunningEndsAtProfile ==
    ASSUME TraceInv, NEW name \in Running
    PROVE  /\ Final(name) = Profile(FullSim)[name].rung
           /\ Profile(FullSim)[name].abstained = FALSE
<1>. DEFINE F == FullSim
            S == ScoredSim(FullSim)
            k == ScoredLast(FullSim)
            r == Rungs(name, FullSim)
<1>1. /\ Sound(F) /\ Sound(S) /\ F.path = path /\ Len(path) \in Nat /\ k = Len(S.path)
      /\ k \in 0..Len(path)
  BY ScoredIs
<1>2. name \in Indicators
  BY DEF Running, Indicators
<1>3. Profile(FullSim)[name] = Indicator(name, S, FullSim)
  BY <1>2 DEF Profile
<1>4. /\ Profile(FullSim)[name].rung = Rungs(name, S)[k]
      /\ Profile(FullSim)[name].abstained = FALSE
  <2>. HIDE DEF S, k
  <2>. QED  BY <1>1, <1>3, IndicatorReadsLastRung
<1>5. MainEvents(name, FullSim) = RungChanges(name, r, k) /\ Rungs(name, S)[k] = r[k]
  BY MainOfRunning
<1>6. /\ k \in Nat
      /\ \A i \in 0..k : r[i] \in Nat
      /\ StartRung(name) \in Nat /\ r[0] <= StartRung(name)
      /\ \A i, j \in 0..k : i <= j => r[j] <= r[i]
  <2>1. k \in Nat /\ \A i \in 0..k : i \in 0..Len(path)
    BY <1>1
  <2>. HIDE DEF k
  <2>2. /\ r \in [0..Len(path) -> Nat] /\ StartRung(name) \in Nat /\ r[0] <= StartRung(name)
        /\ \A i, j \in 0..Len(path) : i <= j => r[j] <= r[i]
    BY <1>1, RungsGetBetter
  <2>. HIDE DEF r
  <2>. QED  BY <2>1, <2>2
<1>. HIDE DEF r, k
<1>7. EndOf(RungChanges(name, r, k), StartRung(name)) = r[k]
  BY <1>6, ChangesEndAtLast
<1>8. Final(name) = EndOf(MainEvents(name, FullSim), StartRung(name))
  BY DEF Final, EndOf
<1>. QED  BY <1>4, <1>5, <1>7, <1>8

LEMMA NoMovesNoCoverage ==
    ASSUME TraceInv, Len(path) = 0
    PROVE  /\ Events(Coverage, FullSim) = {} /\ Events(Coverage, ScoredSim(FullSim)) = {}
           /\ CoverRung(Cardinality(ScoredSim(FullSim).cells)) = 0
           /\ CoverRung(Cardinality(ScoredSim(FullSim).cells)) \in Nat
<1>1. ScoredSim(FullSim) = FullSim /\ Sound(FullSim) /\ Covers(FullSim) /\ FullSim.cells = {}
      /\ Len(FullSim.path) = 0
  BY ScoredIs DEF TraceInv, Covered
<1>. DEFINE m == CoverRung(Cardinality(FullSim.cells))
<1>2. \A i \in 1..m : FALSE
  BY <1>1, CoverageEvents
<1>3. m \in Nat
  <2>. DEFINE v == Cardinality(FullSim.cells)
  <2>1. v \in Int
    <3>1. v = 0
      BY <1>1, FS_EmptySet
    <3>. QED  BY <3>1
  <2>. HIDE DEF v
  <2>2. HigherIsBetter(CoverEdges, v) \in 0..Len(CoverEdges)
    BY <2>1, EdgesReached
  <2>. QED  BY <2>2, CardAssumption DEF CoverRung, v
<1>4. \A e \in Events(Coverage, FullSim) : \E i \in 1..m : TRUE
  BY <1>1, CoverageEvents
<1>. HIDE DEF m
<1>5. m = 0 /\ Events(Coverage, FullSim) = {}
  BY <1>2, <1>3, <1>4
<1>. QED  BY <1>1, <1>3, <1>5 DEF m

LEMMA CoverageEndsAtProfile ==
    ASSUME TraceInv, ~Exempt
    PROVE  /\ Final(Coverage) = Profile(FullSim)[Coverage].rung
           /\ MainEvents(Coverage, FullSim) = Events(Coverage, ScoredSim(FullSim))
<1>. DEFINE F == FullSim
            S == ScoredSim(FullSim)
            n == Len(path)
            k == ScoredLast(FullSim)
            E == ExitIndex(FullSim)
<1>1. /\ Sound(F) /\ Covers(F) /\ F.path = path /\ F.cells = cells /\ n \in Nat
      /\ \/ E # 0 /\ S = Slice(F, E) /\ k = E
         \/ S = F /\ k = n
      /\ E \in 0..n
  BY ScoredIs
<1>2. Coverage \in Indicators /\ Profile(F)[Coverage].rung = CoverRung(Cardinality(S.cells))
  <2>1. Coverage \in Indicators
    BY DEF Coverage, Indicators
  <2>2. Profile(F)[Coverage] = Indicator(Coverage, S, F)
    BY <2>1 DEF Profile
  <2>3. Indicator(Coverage, S, F) =
          Evidence("simulation", Cardinality(S.cells), HigherIsBetter(CoverEdges, Cardinality(S.cells)))
    BY DEF Indicator, Coverage
  <2>. HIDE DEF S
  <2>. QED  BY <2>1, <2>2, <2>3 DEF Evidence, CoverRung
<1>3. /\ Final(Coverage) = EndOf(MainEvents(Coverage, F), 0)
      /\ MainEvents(Coverage, F) = {e \in Events(Coverage, F) : e.at <= k}
  <2>1. StartRung(Coverage) = 0
    BY DEF StartRung, Coverage
  <2>. QED  BY <2>1 DEF Final, EndOf, MainEvents
<1>4. CASE n = 0
  <2>1. Events(Coverage, F) = {} /\ Events(Coverage, S) = {} /\ CoverRung(Cardinality(S.cells)) = 0
    BY <1>4, NoMovesNoCoverage
  <2>2. MainEvents(Coverage, F) = {}
    BY <1>3, <2>1
  <2>3. EndsAt({}, 0, 0)
    BY DEF EndsAt
  <2>4. EndOf({}, 0) = 0
    BY <2>3, EndIs
  <2>. QED  BY <1>2, <1>3, <2>1, <2>2, <2>4
<1>5. CASE n # 0
  <2>1. k \in 1..n
    BY <1>1, <1>5
  <2>2. CoverageAt(F, k) = Cardinality(S.cells)
    <3>1. CASE S = F /\ k = n
      BY <1>1, <3>1 DEF CoverageAt
    <3>2. CASE E # 0 /\ S = Slice(F, E) /\ k = E
      <4>1. CoverageAt(F, E) = Cardinality(PrefixCells(F, E))
        BY <3>2, CoverageAtExit
      <4>2. Slice(F, E).cells = PrefixCells(F, E)
        BY DEF Slice
      <4>. QED  BY <3>2, <4>1, <4>2
    <3>. QED  BY <1>1, <3>1, <3>2
  <2>. HIDE DEF F, S, n, k, E
  <2>3. EndOf({e \in Events(Coverage, F) : e.at <= k}, 0) = CoverRung(CoverageAt(F, k))
    BY <1>1, <2>1, CoverageEnds DEF n
  <2>4. {e \in Events(Coverage, F) : e.at <= k} = Events(Coverage, S)
    <3>1. CASE S = F /\ k = n
      <4>1. \A e \in Events(Coverage, F) : e.at <= n
        <5>. SUFFICES ASSUME NEW e \in Events(Coverage, F) PROVE e.at <= n
          OBVIOUS
        <5>1. PICK i \in 1..CoverRung(Cardinality(F.cells)) :
                e = Event(FirstPrefix(F, CoverEdges[i]), Coverage, i - 1, i)
          BY <1>1, CoverageEvents
        <5>2. CoverEdges[i] \in Nat /\ Cardinality(F.cells) >= CoverEdges[i] /\ Len(F.path) # 0
          BY <1>1, CoverageEvents
        <5>3. FirstPrefix(F, CoverEdges[i]) \in 1..n
          BY <1>1, <5>2, FirstPrefixIs DEF n
        <5>. QED  BY <1>1, <5>1, <5>3, EventFields
      <4>. QED  BY <3>1, <4>1
    <3>2. CASE E # 0 /\ S = Slice(F, E) /\ k = E
      <4>1. k \in 1..Len(F.path)
        BY <1>1, <2>1 DEF n
      <4>2. CoverageAt(F, k) = Cardinality(PrefixCells(F, k))
        BY <3>2, CoverageAtExit DEF F, E
      <4>. QED  BY <1>1, <3>2, <4>1, <4>2, CutReportsCoverage
    <3>. QED  BY <1>1, <3>1, <3>2
  <2>. QED  BY <1>2, <1>3, <2>2, <2>3, <2>4 DEF F, S, k
<1>. QED  BY <1>4, <1>5

\* The indicators without a scanner of their own.
LEMMA ConstantEndsAtProfile ==
    ASSUME TraceInv, Setting, NEW name \in Indicators \ Scanned
    PROVE  IF Profile(FullSim)[name].abstained THEN MainEvents(name, FullSim) = {}
           ELSE Final(name) = Profile(FullSim)[name].rung
<1>. DEFINE i == Profile(FullSim)[name]
            k == ScoredLast(FullSim)
<1>1. /\ StartRung(name) = 0 /\ Events(name, FullSim) = ScanConstant(name, FullSim)
      /\ k \in Nat
  <2>1. k \in Nat
    BY ScoredIs
  <2>2. /\ name # "plow_approach_intent" /\ name # "plow_proximity_execution"
        /\ name # "debris_zone_coverage"
    BY DEF Scanned
  <2>. QED  BY <2>1, <2>2 DEF StartRung, Events
<1>2. i.abstained \in BOOLEAN
  <2>. DEFINE ind == Indicator(name, ScoredSim(FullSim), FullSim)
  <2>1. i = ind
    BY DEF Profile
  <2>2. name \in {"robot_moved", "magnet_activation_intent", "on_island_observed", "on_island_sim"}
    BY DEF Indicators, Scanned
  <2>3. ind.abstained \in BOOLEAN
    <3>1. CASE name = "robot_moved"
      BY <3>1 DEF Indicator, Displacement, Evidence
    <3>2. CASE name = "magnet_activation_intent"
      BY <3>2 DEF Indicator, Evidence
    <3>3. CASE name = "on_island_observed"
      BY <3>3 DEF Indicator, Observed, Evidence, Abstain
    <3>4. CASE name = "on_island_sim"
      BY <3>4 DEF Indicator, Simulated, Evidence
    <3>. QED  BY <2>2, <3>1, <3>2, <3>3, <3>4
  <2>. QED  BY <2>1, <2>3
<1>3. ScanConstant(name, FullSim) =
        IF i.abstained \/ i.rung = 0 THEN {}
        ELSE {Event(IF i.channel = "code" THEN 0 ELSE k, name, 0, i.rung)}
  BY <1>1 DEF ScanConstant
<1>4. MainEvents(name, FullSim) = {e \in ScanConstant(name, FullSim) : e.at <= k}
  BY <1>1 DEF MainEvents
<1>5. Final(name) = EndOf(MainEvents(name, FullSim), 0)
  BY <1>1 DEF Final, EndOf
<1>. HIDE DEF i, k
<1>6. CASE i.abstained
  BY <1>3, <1>4, <1>6 DEF i
<1>7. CASE ~i.abstained /\ i.rung = 0
  <2>1. MainEvents(name, FullSim) = {}
    BY <1>3, <1>4, <1>7
  <2>2. EndsAt({}, 0, 0)
    BY DEF EndsAt
  <2>. QED  BY <1>5, <1>7, <2>1, <2>2, EndIs DEF i
<1>8. CASE ~i.abstained /\ i.rung # 0
  <2>. DEFINE at == IF i.channel = "code" THEN 0 ELSE k
              e == Event(at, name, 0, i.rung)
  <2>1. at <= k /\ e.at = at /\ e.from = 0 /\ e.to = i.rung
    <3>1. at <= k
      BY <1>1
    <3>. HIDE DEF at
    <3>. QED  BY <3>1, EventFields
  <2>2. ScanConstant(name, FullSim) = {e}
    BY <1>3, <1>8
  <2>. HIDE DEF e, at
  <2>3. MainEvents(name, FullSim) = {e}
    BY <1>4, <2>1, <2>2
  <2>. DEFINE r == i.rung
  <2>4. EndsAt({e}, 0, r)
    BY <1>8, <2>1 DEF EndsAt
  <2>. HIDE DEF r
  <2>5. EndOf({e}, 0) = r
    BY <2>4, EndIs
  <2>. QED  BY <1>5, <1>8, <2>3, <2>5 DEF i, r
<1>. QED  BY <1>2, <1>6, <1>7, <1>8

-----------------------------------------------------------------------------
(***************************************************************************)
(* The theorems about every run.                                           *)
(***************************************************************************)

(***************************************************************************)
(* Where the scored events of the timeline leave an indicator is the rung  *)
(* the profile reports.                                                    *)
(***************************************************************************)
THEOREM TimelineReachesProfile == Spec => []TimelineEndsAtProfile
<1>1. TraceInv /\ Setting => TimelineEndsAtProfile
  <2>. SUFFICES ASSUME TraceInv, Setting, NEW name \in Indicators
                PROVE  IF Profile(FullSim)[name].abstained THEN MainEvents(name, FullSim) = {}
                       ELSE \/ Final(name) = Profile(FullSim)[name].rung
                            \/ name = "debris_zone_coverage" /\ Finer /\ ExitIndex(FullSim) = Len(path)
    BY DEF TimelineEndsAtProfile
  <2>1. CASE name \in Running
    BY <2>1, RunningEndsAtProfile
  <2>2. CASE name = Coverage
    <3>1. Profile(FullSim)[name].abstained = FALSE
      <4>1. Profile(FullSim)[name] = Indicator(name, ScoredSim(FullSim), FullSim)
        BY DEF Profile
      <4>2. Indicator(name, ScoredSim(FullSim), FullSim).abstained = FALSE
        BY <2>2 DEF Indicator, Coverage, Evidence
      <4>. QED  BY <4>1, <4>2
    <3>2. ~Exempt => Final(name) = Profile(FullSim)[name].rung
      BY <2>2, CoverageEndsAtProfile
    <3>. QED  BY <2>2, <3>1, <3>2 DEF Exempt, Coverage
  <2>3. CASE name \notin Running /\ name # Coverage
    <3>1. name \in Indicators \ Scanned
      BY <2>3 DEF Running, Coverage, Scanned
    <3>. QED  BY <3>1, ConstantEndsAtProfile
  <2>. QED  BY <2>1, <2>2, <2>3
<1>. QED  BY <1>1, RunInvariant, PTL

(***************************************************************************)
(* What happens after the exit cannot move an event before it.             *)
(***************************************************************************)
THEOREM ExitMovesNoEvent == Spec => []ExitHidesNothing
<1>1. TraceInv => ExitHidesNothing
  <2>. SUFFICES ASSUME TraceInv, NEW name \in Scanned
                PROVE  \/ MainEvents(name, FullSim) = Events(name, ScoredSim(FullSim))
                       \/ name = "debris_zone_coverage" /\ Finer /\ ExitIndex(FullSim) = Len(path)
    BY DEF ExitHidesNothing
  <2>1. CASE name \in Running
    BY <2>1, MainOfRunning
  <2>2. CASE name = Coverage
    <3>1. ~Exempt => MainEvents(name, FullSim) = Events(name, ScoredSim(FullSim))
      BY <2>2, CoverageEndsAtProfile
    <3>. QED  BY <2>2, <3>1 DEF Exempt, Coverage
  <2>. QED  BY <2>1, <2>2 DEF Scanned, Running, Coverage
<1>. QED  BY <1>1, RunInvariant, PTL

(***************************************************************************)
(* Under an override, a rung earned after the simulated exit is marked.    *)
(***************************************************************************)
LEMMA LateRungIsMarked ==
    ASSUME TraceInv, Overridden(FullSim), NEW name \in Running,
           NEW e \in MainEvents(name, FullSim), e.at > ExitIndex(FullSim)
    PROVE  name \in PostSimExit(FullSim)
<1>. DEFINE F == FullSim
            n == Len(path)
            E == ExitIndex(FullSim)
            C == Slice(F, E)
            r == Rungs(name, F)
<1>1. /\ Sound(F) /\ F.path = path /\ n \in Nat /\ E \in 0..n
      /\ ScoredSim(F) = F /\ ScoredLast(F) = n /\ E # 0
  BY ScoredIs DEF Overridden
<1>2. name \in Indicators
  BY DEF Running, Indicators
<1>3. Profile(F)[name] = Indicator(name, F, F)
  BY <1>1, <1>2 DEF Profile
<1>4. Sound(C) /\ Len(C.path) = E
  BY <1>1, CutIsSound
<1>. HIDE DEF C
<1>5. /\ Profile(F)[name].rung = r[n] /\ Profile(F)[name].channel = "simulation"
      /\ Profile(F)[name].abstained = FALSE
  <2>. HIDE DEF F
  <2>. QED  BY ZenonT(40), <1>1, <1>3, IndicatorReadsLastRung
<1>6. Indicator(name, C, F).rung = r[E]
  <2>1. Indicator(name, C, F).rung = Rungs(name, C)[E]
    BY <1>4, IndicatorReadsLastRung
  <2>2. E \in 0..E
    BY <1>1
  <2>. HIDE DEF F
  <2>. QED  BY <1>1, <2>1, <2>2, RungsOfCut DEF C
<1>7. r[n] < r[E]
  <2>1. MainEvents(name, F) = RungChanges(name, r, n)
    BY <1>1, MainOfRunning
  <2>2. /\ \A i \in 0..n : r[i] \in Nat
        /\ \A i, j \in 0..n : i <= j => r[j] <= r[i]
    <3>. HIDE DEF F
    <3>. QED  BY <1>1, RungsGetBetter
  <2>3. e \in RungChanges(name, r, n) /\ e.at > E
    BY <2>1
  <2>. HIDE DEF F, r, E, n
  <2>4. PICK i \in 0..n : /\ r[i] # Before(name, r, i)
                          /\ e = Event(i, name, Before(name, r, i), r[i])
    BY <1>1, <2>3, ChangesAre
  <2>5. i > E
    BY <2>3, <2>4, EventFields
  <2>6. i # 0 /\ i - 1 \in 0..n /\ E <= i - 1 /\ i <= n /\ n \in 0..n /\ i - 1 <= i
    BY <1>1, <2>5
  <2>7. r[i] # r[i - 1]
    BY <2>4, <2>6 DEF Before
  <2>8. r[i] <= r[i - 1] /\ r[n] <= r[i] /\ r[i - 1] <= r[E]
    BY <1>1, <2>2, <2>6
  <2>9. r[i] \in Nat /\ r[i - 1] \in Nat /\ r[n] \in Nat /\ r[E] \in Nat
    BY <1>1, <2>2, <2>6
  <2>. QED  BY <2>7, <2>8, <2>9
<1>8. r[n] # r[E]
  <2>1. r[n] \in Nat /\ r[E] \in Nat
    <3>1. r \in [0..n -> Nat] /\ n \in 0..n
      BY <1>1, RungsGetBetter
    <3>. HIDE DEF r
    <3>. QED  BY <1>1, <3>1
  <2>. QED  BY <1>7, <2>1
<1>. HIDE DEF r, n
<1>. QED  BY <1>2, <1>5, <1>6, <1>8 DEF PostSimExit, C

LEMMA LateCoverageIsMarked ==
    ASSUME TraceInv, Overridden(FullSim),
           NEW e \in MainEvents(Coverage, FullSim), e.at > ExitIndex(FullSim)
    PROVE  Coverage \in PostSimExit(FullSim)
<1>. DEFINE F == FullSim
            n == Len(path)
            E == ExitIndex(FullSim)
            C == Slice(F, E)
<1>1. /\ Sound(F) /\ Covers(F) /\ F.path = path /\ n \in Nat /\ E \in 0..n
      /\ ScoredSim(F) = F /\ E # 0 /\ F.cells = cells
  BY ScoredIs DEF Overridden
<1>2. Coverage \in Indicators
  BY DEF Coverage, Indicators
<1>3. \A s : Indicator(Coverage, s, F) =
          Evidence("simulation", Cardinality(s.cells), HigherIsBetter(CoverEdges, Cardinality(s.cells)))
  BY DEF Indicator, Coverage
<1>4. /\ Profile(F)[Coverage].channel = "simulation" /\ Profile(F)[Coverage].abstained = FALSE
      /\ Profile(F)[Coverage].value = Cardinality(cells)
  BY <1>1, <1>2, <1>3 DEF Profile, Evidence
<1>5. Indicator(Coverage, C, F).value = Cardinality(PrefixCells(F, E))
  BY <1>3 DEF Evidence, Slice
<1>6. PICK i \in 1..CoverRung(Cardinality(cells)) :
          e = Event(FirstPrefix(F, CoverEdges[i]), Coverage, i - 1, i)
  <2>1. e \in Events(Coverage, F)
    BY DEF MainEvents
  <2>. HIDE DEF F
  <2>. QED  BY <1>1, <2>1, CoverageEvents
<1>7. CoverEdges[i] \in Nat /\ Cardinality(cells) >= CoverEdges[i] /\ Len(F.path) # 0
  <2>. HIDE DEF F
  <2>. QED  BY <1>1, CoverageEvents
<1>8. FirstPrefix(F, CoverEdges[i]) > E
  BY <1>6, EventFields
<1>. HIDE DEF F, n, E
<1>9. E \in 1..Len(F.path) /\ FirstPrefix(F, CoverEdges[i]) \in 1..Len(F.path)
      /\ (FirstPrefix(F, CoverEdges[i]) <= E <=> CoverageAt(F, E) >= CoverEdges[i])
  <2>1. E \in 1..Len(F.path)
    BY <1>1 DEF n
  <2>. QED  BY <1>1, <1>7, <2>1, FirstPrefixIs
<1>10. E # Len(F.path) /\ ~(CoverageAt(F, E) >= CoverEdges[i])
  <2>1. Len(F.path) \in Nat
    BY <1>1, PositionsAreNumbers
  <2>. QED  BY <1>8, <1>9, <2>1
<1>11. Cardinality(PrefixCells(F, E)) # Cardinality(cells)
  BY <1>7, <1>10 DEF CoverageAt
<1>. QED  BY <1>2, <1>4, <1>5, <1>11 DEF PostSimExit, F, E, C

THEOREM LateEvidenceIsMarked == Spec => []PostExitEvidenceIsMarked
<1>1. TraceInv => PostExitEvidenceIsMarked
  <2>. SUFFICES ASSUME TraceInv, Overridden(FullSim), NEW name \in Scanned,
                       NEW e \in MainEvents(name, FullSim), e.at > ExitIndex(FullSim)
                PROVE  name \in PostSimExit(FullSim)
    BY DEF PostExitEvidenceIsMarked
  <2>1. CASE name \in Running
    BY <2>1, LateRungIsMarked
  <2>2. CASE name = Coverage
    BY <2>2, LateCoverageIsMarked
  <2>. QED  BY <2>1, <2>2 DEF Scanned, Running, Coverage
<1>. QED  BY <1>1, RunInvariant, PTL

(***************************************************************************)
(* Execution, profile and verdict agree on an overridden exit.             *)
(***************************************************************************)
THEOREM OverrideIsReportedAsOne == Spec => []OverrideIsAccountedFor
<1>1. TraceInv /\ Setting => OverrideIsAccountedFor
  <2>. SUFFICES ASSUME TraceInv, Setting, Overridden(FullSim)
                PROVE  /\ Agreement(FullSim) /\ PositionError(FullSim) # None
                       /\ \A trouble \in {"none", "capped", "stalled", "sensor", "edge_zone"} :
                              Verdict(FullSim, trouble) \in {"agree", "override"}
    BY DEF OverrideIsAccountedFor
  <2>1. OnIsland(Gps) /\ Gps # None /\ params.stopped = FALSE /\ ~SimOff(FullSim)
    <3>1. params.stopped \in BOOLEAN
      BY CardAssumption DEF Setting
    <3>. QED  BY <3>1 DEF Overridden, SimOff
  <2>2. Gps \in Nat
    BY <2>1, CardAssumption DEF Setting, Gps
  <2>3. Agreement(FullSim)
    <3>1. OnIsland(Gps) \in BOOLEAN /\ SimOff(FullSim) \in BOOLEAN
      BY DEF OnIsland, SimOff
    <3>. QED  BY <2>1, <3>1, Zenon DEF Agreement
  <2>4. PositionError(FullSim) \in Nat
    <3>. DEFINE last == Position(FullSim, Len(FullSim.path))
    <3>1. PositionError(FullSim) = SegmentDistance(last, last, Gps)
      BY <2>1 DEF PositionError
    <3>2. last \in Nat
      <4>1. Sound(FullSim)
        BY WholeIsSound
      <4>2. Len(FullSim.path) \in 0..Len(FullSim.path)
        BY <4>1, PositionsAreNumbers
      <4>. QED  BY <4>1, <4>2, PositionsAreNumbers
    <3>. HIDE DEF last
    <3>. QED  BY <2>2, <3>1, <3>2, DistanceIsNumber
  <2>5. PositionError(FullSim) # None
    BY <2>4 DEF None
  <2>6. ASSUME NEW trouble PROVE Verdict(FullSim, trouble) \in {"agree", "override"}
    <3>1. Comparable /\ ~params.stopped
      BY <2>1 DEF Comparable
    <3>2. Verdict(FullSim, trouble) =
            IF PositionError(FullSim) <= SameSpot THEN "agree" ELSE "override"
      BY <2>3, <3>1 DEF Verdict
    <3>. QED  BY <3>2
  <2>. QED  BY <2>3, <2>5, <2>6
<1>. QED  BY <1>1, RunInvariant, PTL
=============================================================================
