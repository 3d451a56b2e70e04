------------------------- MODULE LearnerSessionProofs -------------------------
(***************************************************************************)
(* What a live session promises, for every workload.  First the workspace  *)
(* tracker alone: split_stacks finds exactly the stacks that can run and   *)
(* comes to no block twice; the session drives it as TrackerSpec allows,   *)
(* so that holds inside the session.  Then what is true of one step of the *)
(* alerts, of one push of a run and of one push into the segmenter, and so *)
(* at every moment: alerts, distances, triggers and the join of runs and   *)
(* RUN episodes mean what the batch functions and the README say.          *)
(***************************************************************************)
EXTENDS LearnerSession, SequenceTheorems, FiniteSetTheorems, WellFoundedInduction, TLAPS

-----------------------------------------------------------------------------
(***************************************************************************)
(* The workspace tracker, for workspaces of any size and any sequence of   *)
(* events.                                                                 *)
(***************************************************************************)
TrackerNext == (\E xml : ProcessLog(xml)) \/ TrackerSteps
TrackerSpec == TrackerInit /\ [][TrackerNext]_trackerVars

\* split_stacks: once process_log has returned, the live stacks are exactly those that
\* the workspace of the latest event can run, also when its rebuild was skipped.
LiveIsWhatRuns ==
    phase = "idle" /\ latest \in Parsed =>
        live = Tops(Parse[latest]) \cap Reached(Parse[latest])

-----------------------------------------------------------------------------
(***************************************************************************)
(* The inductive invariant.  Live stacks are pending, being visited or     *)
(* seen; what follows a seen block has been seen or is being visited, and  *)
(* what it calls is live; nothing is touched that cannot be reached; and a *)
(* block that is not at the top was come to from the one that holds it.    *)
(***************************************************************************)
CameTo == seen \cup visiting

Complete(w) ==
    /\ Hats(w) \subseteq live
    /\ live \subseteq CameTo \cup stacks
    /\ \A b \in seen : Goes(w, b) \subseteq CameTo /\ Called(w, b) \subseteq live

Sound(w) ==
    /\ CameTo \subseteq Reached(w)
    /\ live \subseteq Reached(w) \cap Tops(w)
    /\ stacks \subseteq live
    /\ CameTo \cap Tops(w) \subseteq live

Once(w) ==
    /\ visiting \cap seen = {}
    /\ stacks \cap CameTo = {}
    /\ \A b \in CameTo \ Tops(w) : \E p \in seen : b \in Goes(w, p)

Walk(w) == Complete(w) /\ Sound(w) /\ Once(w)

TrackerInv ==
    /\ latest = workspace
    /\ phase \in {"idle", "splitting"}
    /\ phase = "splitting" => workspace \in Parsed
    /\ phase = "idle" => visiting = {} /\ stacks = {}
    /\ workspace \in Parsed => Walk(Parse[workspace])

-----------------------------------------------------------------------------
\* definitions.setdefault keeps the first definition of a name.
LEMMA CalledIsTheFirst ==
    ASSUME NEW w, NEW b, Enabled(w, b), w.kind[b] = "call"
    PROVE  Called(w, b) = {d \in Tops(w) : FirstOfItsName(w, d) /\ w.proc[d] = w.proc[b]}
BY DEF Called, Definition, FirstOfItsName, Tops

\* A set is closed under the rules when it is closed under what split_stacks does.
LEMMA ClosedUnderSteps ==
    ASSUME NEW w, NEW S
    PROVE  Closed(w, S) <=> /\ Hats(w) \subseteq S
                            /\ \A b \in S : Goes(w, b) \subseteq S /\ Called(w, b) \subseteq S
<1>1. ASSUME NEW b \in S, Enabled(w, b), w.kind[b] = "call"
      PROVE  (Called(w, b) \subseteq S) <=>
               \A d \in Tops(w) : FirstOfItsName(w, d) /\ w.proc[d] = w.proc[b] => d \in S
  BY <1>1, CalledIsTheFirst
<1>2. ASSUME NEW b \in S, ~(Enabled(w, b) /\ w.kind[b] = "call")
      PROVE  Called(w, b) = {}
  BY <1>2 DEF Called
<1>. QED
  BY <1>1, <1>2 DEF Closed, Goes, ValueInputs, Enabled

\* What can be reached is itself closed, and is the least such set.
LEMMA ReachedIsLeast ==
    ASSUME NEW w, IsWorkspace(w)
    PROVE  /\ Reached(w) \subseteq Blocks
           /\ Hats(w) \subseteq Reached(w)
           /\ \A b \in Reached(w) : Goes(w, b) \cup Called(w, b) \subseteq Reached(w)
           /\ \A S \in SUBSET Blocks : Closed(w, S) => Reached(w) \subseteq S
<1>1. Tops(w) \subseteq Blocks
  BY DEF IsWorkspace, Tops
<1>2. Hats(w) \subseteq Blocks
  BY <1>1 DEF Hats
<1>3. ASSUME NEW b \in Blocks PROVE Goes(w, b) \cup Called(w, b) \subseteq Blocks
  <2>1. Goes(w, b) \subseteq Blocks
    BY DEF Goes, ValueInputs, IsWorkspace
  <2>2. Called(w, b) \subseteq Tops(w)
    BY DEF Called, Definition, Tops
  <2>. QED  BY <2>1, <2>2, <1>1
<1>. QED
  BY <1>2, <1>3, ClosedUnderSteps DEF Reached

\* What a block leads to is under it, so never at the top, and no other block leads to it.
LEMMA OneWayIn ==
    ASSUME NEW xml \in Parsed, NEW b \in Blocks
    PROVE  /\ IsWorkspace(Parse[xml])
           /\ Goes(Parse[xml], b) \cap Tops(Parse[xml]) = {}
           /\ \A c \in Blocks : Goes(Parse[xml], b) \cap Goes(Parse[xml], c) # {} => b = c
<1>1. \A c \in Blocks : Goes(Parse[xml], c) \subseteq Under(Parse[xml], c)
  BY DEF Goes, ValueInputs, Under
<1>. QED  BY <1>1, ParseAssumption

-----------------------------------------------------------------------------
\* The rebuild starts from the hats.
LEMMA RebuildStarts ==
    ASSUME TrackerInv, NEW xml, ProcessLog(xml)
    PROVE  TrackerInv'
<1>1. CASE xml = workspace
  BY <1>1 DEF ProcessLog, TrackerInv, mapVars, splitVars, Walk, Complete, Sound, Once, CameTo
<1>2. CASE xml # workspace
  <2>1. /\ latest' = xml /\ workspace' = xml
        /\ phase' = IF xml \in Parsed THEN "splitting" ELSE "idle"
        /\ visiting' = {} /\ seen' = {} /\ stacks' = live'
        /\ live' = IF xml \in Parsed THEN Hats(Parse[xml]) ELSE {}
    BY <1>2 DEF ProcessLog
  <2>2. ASSUME xml \in Parsed PROVE Walk(Parse[xml])'
    <3>1. IsWorkspace(Parse[xml])
      BY <2>2, ParseAssumption
    <3>2. Hats(Parse[xml]) \subseteq Reached(Parse[xml]) \cap Tops(Parse[xml])
      BY <3>1, ReachedIsLeast DEF Hats
    <3>. QED
      BY <2>1, <2>2, <3>2 DEF Walk, Complete, Sound, Once, CameTo
  <2>3. phase' = "idle" => visiting' = {} /\ stacks' = {}
    BY <2>1
  <2>. QED  BY <2>1, <2>2, <2>3 DEF TrackerInv
<1>. QED  BY <1>1, <1>2

LEMMA StackTaken ==
    ASSUME TrackerInv, NEW s \in Blocks, TakeStack(s)
    PROVE  TrackerInv'
<1>. DEFINE w == Parse[workspace]
<1>1. /\ phase = "splitting" /\ workspace \in Parsed /\ latest = workspace
      /\ visiting = {} /\ s \in stacks /\ Walk(w)
  BY DEF TakeStack, TrackerInv
<1>2. /\ UNCHANGED <<workspace, phase, live, seen, latest>>
      /\ stacks' = stacks \ {s} /\ visiting' = {s}
  BY DEF TakeStack
<1>3. Complete(w)'
  BY <1>1, <1>2 DEF Walk, Complete, CameTo
<1>4. Sound(w)'
  BY <1>1, <1>2 DEF Walk, Sound, CameTo
<1>5. Once(w)'
  BY <1>1, <1>2 DEF Walk, Sound, Once, CameTo
<1>. QED
  BY <1>1, <1>2, <1>3, <1>4, <1>5 DEF TrackerInv, Walk

LEMMA BlockVisited ==
    ASSUME TrackerInv, NEW b \in Blocks, VisitBlock(b)
    PROVE  TrackerInv'
<1>. DEFINE w == Parse[workspace]
<1>1. /\ phase = "splitting" /\ workspace \in Parsed /\ latest = workspace
      /\ b \in visiting /\ Walk(w)
  BY DEF VisitBlock, TrackerInv
<1>2. /\ UNCHANGED <<workspace, phase, latest>>
      /\ visiting' = (visiting \ {b}) \cup Goes(w, b)
      /\ seen' = seen \cup {b}
      /\ live' = live \cup Called(w, b)
      /\ stacks' = stacks \cup (Called(w, b) \ live)
  BY DEF VisitBlock, NewlyCalled
<1>3. CameTo' = CameTo \cup Goes(w, b)
  BY <1>1, <1>2 DEF CameTo
<1>4. Complete(w)'
  <2>1. Hats(w) \subseteq live' /\ live' \subseteq CameTo' \cup stacks'
    BY <1>1, <1>2, <1>3 DEF Walk, Complete
  <2>2. \A c \in seen' : Goes(w, c) \subseteq CameTo' /\ Called(w, c) \subseteq live'
    BY <1>1, <1>2, <1>3 DEF Walk, Complete
  <2>. QED  BY <1>2, <2>1, <2>2 DEF Complete
<1>5. /\ IsWorkspace(w)
      /\ Goes(w, b) \cap Tops(w) = {}
      /\ \A c \in Blocks : Goes(w, b) \cap Goes(w, c) # {} => b = c
  BY <1>1, OneWayIn
<1>6. Reached(w) \subseteq Blocks /\ Goes(w, b) \cup Called(w, b) \subseteq Reached(w)
  BY <1>1, <1>5, ReachedIsLeast DEF Walk, Sound, CameTo
<1>7. Called(w, b) \subseteq Tops(w)
  BY DEF Called, Definition, Tops
<1>8. Sound(w)'
  BY <1>1, <1>2, <1>3, <1>5, <1>6, <1>7 DEF Walk, Sound
<1>9. Once(w)'
  \* None of what b leads to was come to before: it would have been from b.
  <2>1. Goes(w, b) \cap CameTo = {}
    <3>. SUFFICES ASSUME NEW c \in Goes(w, b), c \in CameTo PROVE FALSE
      OBVIOUS
    <3>1. PICK p \in seen : c \in Goes(w, p)
      BY <1>1, <1>5 DEF Walk, Once
    <3>2. p \in Blocks
      BY <1>1, <1>6 DEF Walk, Sound, CameTo
    <3>. QED  BY <1>1, <1>5, <3>1, <3>2 DEF Walk, Once
  <2>2. visiting' \cap seen' = {}
    BY <1>1, <1>2, <2>1 DEF Walk, Once, CameTo
  <2>3. stacks' \cap CameTo' = {}
    BY <1>1, <1>2, <1>3, <1>5, <1>7 DEF Walk, Sound, Once
  <2>4. \A c \in CameTo' \ Tops(w) : \E p \in seen' : c \in Goes(w, p)
    BY <1>1, <1>2, <1>3 DEF Walk, Once
  <2>. QED  BY <1>2, <2>2, <2>3, <2>4 DEF Once
<1>. QED
  BY <1>1, <1>2, <1>4, <1>8, <1>9 DEF TrackerInv, Walk

LEMMA TrackerStepKeeps ==
    ASSUME TrackerInv, [TrackerNext]_trackerVars
    PROVE  TrackerInv'
<1>1. ASSUME NEW xml, ProcessLog(xml) PROVE TrackerInv'
  BY <1>1, RebuildStarts
<1>2. ASSUME NEW b \in Blocks, TakeStack(b) PROVE TrackerInv'
  BY <1>2, StackTaken
<1>3. ASSUME NEW b \in Blocks, VisitBlock(b) PROVE TrackerInv'
  BY <1>3, BlockVisited
<1>4. CASE Register
  BY <1>4 DEF Register, TrackerInv, splitVars, Walk, Complete, Sound, Once, CameTo
<1>5. CASE UNCHANGED trackerVars
  BY <1>5 DEF trackerVars, TrackerInv, splitVars, Walk, Complete, Sound, Once, CameTo
<1>. QED
  BY <1>1, <1>2, <1>3, <1>4, <1>5 DEF TrackerNext, TrackerSteps

LEMMA TrackerStarts == ASSUME TrackerInit PROVE TrackerInv
BY ParseAssumption DEF TrackerInit, TrackerInv

LEMMA TrackerAlways == TrackerSpec => []TrackerInv
BY TrackerStarts, TrackerStepKeeps, PTL DEF TrackerSpec

-----------------------------------------------------------------------------
\* split_stacks of liveness.py is exact: for every workspace and every sequence of events,
\* the stacks shown active are those that can run.
THEOREM SplitIsExact == TrackerSpec => []LiveIsWhatRuns
<1>1. ASSUME TrackerInv PROVE LiveIsWhatRuns
  <2>. SUFFICES ASSUME phase = "idle", latest \in Parsed
                PROVE  live = Tops(Parse[latest]) \cap Reached(Parse[latest])
    BY DEF LiveIsWhatRuns
  <2>. DEFINE w == Parse[latest]
  <2>1. Walk(w) /\ visiting = {} /\ stacks = {}
    BY <1>1 DEF TrackerInv
  <2>2. IsWorkspace(w)
    BY ParseAssumption
  <2>3. Closed(w, seen)
    BY <2>1, ClosedUnderSteps DEF Walk, Complete, CameTo
  <2>4. Reached(w) \subseteq seen
    BY <2>1, <2>2, <2>3, ReachedIsLeast DEF Walk, Sound, CameTo
  <2>. QED  BY <2>1, <2>4 DEF Walk, Sound, CameTo
<1>. QED  BY <1>1, TrackerAlways, PTL

\* No definition is walked twice, however definitions call each other, so the rebuild of a
\* finite workspace ends.
THEOREM NoBlockTwice == TrackerSpec => EachBlockOnce
<1>1. ASSUME TrackerInv, NEW b \in Blocks, VisitBlock(b) PROVE b \notin seen
  BY <1>1 DEF TrackerInv, VisitBlock, Walk, Once
<1>2. TrackerInv => [\A b \in Blocks : VisitBlock(b) => b \notin seen]_trackerVars
  BY <1>1
<1>. QED  BY <1>2, TrackerAlways, PTL DEF EachBlockOnce
-----------------------------------------------------------------------------
(***************************************************************************)
(* What the maps say once a rebuild is over: the stacks of all top-level   *)
(* blocks, the orphans those of the ones that are not live, and an edge    *)
(* from every tracked block to each block it holds.                        *)
(***************************************************************************)
EdgesFrom(w, some) ==
    UNION {({b} \X w.next[b] \X {"next"})
             \cup ({b} \X (w.bodies[b] \cup ValueInputs(w, b)) \X {"inside"}) : b \in some}

MapsInv ==
    phase = "idle" =>
        LET w == Parse[workspace]
        IN  IF workspace \in Parsed
            THEN /\ roots = Tops(w)
                 /\ blocks = UNION {StackOf(w, r) : r \in Tops(w)}
                 /\ orphans = UNION {StackOf(w, r) : r \in Tops(w) \ live}
                 /\ parents = EdgesFrom(w, blocks)
            ELSE roots = {} /\ blocks = {} /\ parents = {} /\ orphans = {}

LEMMA MapsStart == ASSUME TrackerInit PROVE MapsInv
BY ParseAssumption DEF TrackerInit, MapsInv

LEMMA MapsKept ==
    ASSUME TrackerInv, MapsInv, [TrackerNext]_trackerVars
    PROVE  MapsInv'
<1>1. ASSUME NEW xml, ProcessLog(xml) PROVE MapsInv'
  <2>1. CASE xml = workspace
    BY <1>1, <2>1 DEF ProcessLog, MapsInv, mapVars, splitVars
  <2>2. CASE xml # workspace
    BY <1>1, <2>2 DEF ProcessLog, MapsInv
  <2>. QED  BY <2>1, <2>2
<1>2. ASSUME NEW b \in Blocks, TakeStack(b) \/ VisitBlock(b) PROVE MapsInv'
  BY <1>2 DEF TakeStack, VisitBlock, MapsInv
<1>3. CASE Register
  <2>1. /\ workspace' = workspace /\ workspace \in Parsed /\ live' = live
        /\ parents' = EdgesFrom(Parse[workspace], blocks')
    BY <1>3 DEF Register, TrackerInv, splitVars, EdgesFrom
  <2>. QED  BY <1>3, <2>1 DEF Register, MapsInv
<1>4. CASE UNCHANGED trackerVars
  BY <1>4 DEF trackerVars, mapVars, splitVars, MapsInv
<1>. QED  BY <1>1, <1>2, <1>3, <1>4 DEF TrackerNext, TrackerSteps

LEMMA MapsAlways == TrackerSpec => []MapsInv
BY MapsStart, MapsKept, TrackerAlways, PTL DEF TrackerSpec

\* The blocks below some are the least set that has them and that no edge leaves.
LEMMA BelowIsLeast ==
    ASSUME NEW some \in SUBSET Blocks, NEW edges, \A e \in edges : e[1] \in Blocks => e[2] \in Blocks
    PROVE  /\ some \subseteq Below(some, edges) /\ Below(some, edges) \subseteq Blocks
           /\ \A e \in edges : e[1] \in Below(some, edges) => e[2] \in Below(some, edges)
           /\ \A S \in SUBSET Blocks :
                some \subseteq S /\ (\A e \in edges : e[1] \in S => e[2] \in S)
                  => Below(some, edges) \subseteq S
BY DEF Below

\* A stack has one block at the top, and all that its blocks hold.
LEMMA StackIsItsOwn ==
    ASSUME NEW xml \in Parsed, NEW r \in Tops(Parse[xml])
    PROVE  /\ StackOf(Parse[xml], r) \subseteq Blocks
           /\ StackOf(Parse[xml], r) \cap Tops(Parse[xml]) = {r}
           /\ \A b \in StackOf(Parse[xml], r) :
                Children(Parse[xml], b) \subseteq StackOf(Parse[xml], r)
<1>. DEFINE w == Parse[xml]
            edges == UNION {{b} \X Children(w, b) : b \in Blocks}
            others == {r} \cup (Blocks \ Tops(w))
<1>1. IsWorkspace(w)
  BY ParseAssumption
<1>2. r \in Blocks
  BY <1>1 DEF IsWorkspace, Tops
<1>3. \A b \in Blocks : Children(w, b) \subseteq Blocks /\ Children(w, b) \cap Tops(w) = {}
  <2>1. \A b \in Blocks : Children(w, b) \subseteq Under(w, b)
    BY DEF Children, ValueInputs, Under
  <2>2. \A b \in Blocks : Under(w, b) \cap Tops(w) = {} /\ Under(w, b) \subseteq Blocks
    BY <1>1, ParseAssumption DEF Under, IsWorkspace
  <2>. QED  BY <2>1, <2>2
<1>4. \A e \in edges : e[1] \in Blocks /\ e[2] \in Children(w, e[1])
  OBVIOUS
<1>5. \A b \in Blocks : \A c \in Children(w, b) : <<b, c>> \in edges
  OBVIOUS
<1>6. StackOf(w, r) = Below({r}, edges)
  BY DEF StackOf
<1>. HIDE DEF edges, w
<1>7. others \in SUBSET Blocks /\ {r} \subseteq others
      /\ \A e \in edges : e[1] \in others => e[2] \in others
  BY <1>2, <1>3, <1>4
<1>8. /\ r \in StackOf(w, r) /\ StackOf(w, r) \subseteq others
      /\ \A e \in edges : e[1] \in StackOf(w, r) => e[2] \in StackOf(w, r)
  <2>1. {r} \in SUBSET Blocks /\ \A e \in edges : e[1] \in Blocks => e[2] \in Blocks
    BY <1>2, <1>3, <1>4
  <2>2. /\ {r} \subseteq Below({r}, edges)
        /\ \A e \in edges : e[1] \in Below({r}, edges) => e[2] \in Below({r}, edges)
        /\ \A S \in SUBSET Blocks :
             {r} \subseteq S /\ (\A e \in edges : e[1] \in S => e[2] \in S)
               => Below({r}, edges) \subseteq S
    BY <2>1, BelowIsLeast
  <2>. QED  BY <1>6, <1>7, <2>2
<1>9. \A b \in StackOf(w, r) : Children(w, b) \subseteq StackOf(w, r)
  <2>1. ASSUME NEW b \in StackOf(w, r), NEW c \in Children(w, b) PROVE c \in StackOf(w, r)
    <3>1. <<b, c>> \in edges
      BY <1>5, <1>7, <1>8
    <3>. QED  BY <1>8, <3>1
  <2>. QED  BY <2>1
<1>. QED  BY <1>2, <1>7, <1>8, <1>9 DEF w

\* The walk over the maps follows the edges that run: to the next block always, into a
\* block only when that one is enabled.
LEMMA FollowedIsGone ==
    ASSUME MapsInv, TrackerInv, phase = "idle", workspace \in Parsed
    PROVE  /\ \A e \in Followed : e[1] \in blocks /\ e[2] \in Goes(Parse[workspace], e[1])
           /\ \A b \in blocks : \A c \in Goes(Parse[workspace], b) : <<b, c>> \in Followed
<1>. DEFINE w == Parse[workspace]
<1>1. parents = EdgesFrom(w, blocks)
  BY DEF MapsInv
<1>2. ASSUME NEW p \in parents
      PROVE  /\ p[1] \in blocks
             /\ \/ p[3] = "next" /\ p[2] \in w.next[p[1]]
                \/ p[3] = "inside" /\ p[2] \in w.bodies[p[1]] \cup ValueInputs(w, p[1])
  BY <1>1 DEF EdgesFrom
<1>3. ASSUME NEW e \in Followed PROVE e[1] \in blocks /\ e[2] \in Goes(w, e[1])
  <2>1. PICK p \in parents : e = <<p[1], p[2]>> /\ (p[3] = "next" \/ Enabled(w, p[1]))
    BY DEF Followed
  <2>. QED  BY <1>2, <2>1 DEF Goes
<1>4. ASSUME NEW b \in blocks, NEW c \in Goes(w, b) PROVE <<b, c>> \in Followed
  <2>1. CASE c \in w.next[b]
    <3>1. <<b, c, "next">> \in parents
      BY <1>1, <2>1 DEF EdgesFrom
    <3>. QED  BY <3>1 DEF Followed
  <2>2. CASE c \notin w.next[b]
    <3>1. Enabled(w, b) /\ <<b, c, "inside">> \in parents
      BY <1>1, <2>2 DEF EdgesFrom, Goes
    <3>. QED  BY <3>1 DEF Followed
  <2>. QED  BY <2>1, <2>2
<1>. QED  BY <1>3, <1>4

\* The roots that are no orphans are the live stacks.
LEMMA ActiveRoots ==
    ASSUME MapsInv, phase = "idle", workspace \in Parsed
    PROVE  roots \ orphans = Tops(Parse[workspace]) \cap live
<1>. DEFINE w == Parse[workspace]
<1>1. /\ roots = Tops(w)
      /\ orphans = UNION {StackOf(w, r) : r \in Tops(w) \ live}
  BY DEF MapsInv
<1>2. \A r \in Tops(w) : StackOf(w, r) \cap Tops(w) = {r}
  BY StackIsItsOwn
<1>. HIDE DEF w
<1>3. ASSUME NEW t \in Tops(w) PROVE t \in orphans <=> t \notin live
  <2>1. t \in live => \A r \in Tops(w) \ live : t \notin StackOf(w, r)
    BY <1>2
  <2>2. t \notin live => t \in StackOf(w, t) /\ t \in Tops(w) \ live
    BY <1>2
  <2>. QED  BY <1>1, <2>1, <2>2
<1>. QED  BY <1>1, <1>3 DEF w

\* What can be reached from the active roots over the maps is what can run.
LEMMA WalkIsExact ==
    ASSUME MapsInv, TrackerInv, phase = "idle", workspace \in Parsed,
           live = Tops(Parse[workspace]) \cap Reached(Parse[workspace])
    PROVE  Below(roots \ orphans, Followed) = Reached(Parse[workspace])
<1>. DEFINE w == Parse[workspace]
            found == Below(roots \ orphans, Followed)
<1>1. roots \ orphans = live
  BY ActiveRoots
<1>2. IsWorkspace(w)
  BY ParseAssumption
<1>3. /\ Reached(w) \subseteq Blocks
      /\ Hats(w) \subseteq live
      /\ \A b \in Reached(w) : Goes(w, b) \cup Called(w, b) \subseteq Reached(w)
      /\ \A S \in SUBSET Blocks : Closed(w, S) => Reached(w) \subseteq S
  BY <1>2, ReachedIsLeast DEF Hats
<1>4. /\ blocks \subseteq Blocks /\ live \subseteq blocks
      /\ \A b \in blocks : Children(w, b) \subseteq blocks
  <2>1. /\ blocks = UNION {StackOf(w, r) : r \in Tops(w)}
        /\ live \subseteq Tops(w)
    BY DEF MapsInv
  <2>2. ASSUME NEW r \in Tops(w)
        PROVE  /\ StackOf(w, r) \subseteq Blocks /\ r \in StackOf(w, r)
               /\ \A b \in StackOf(w, r) : Children(w, b) \subseteq StackOf(w, r)
    BY StackIsItsOwn
  <2>. HIDE DEF w
  <2>. QED  BY <2>1, <2>2
<1>5. \A b : Goes(w, b) \subseteq Children(w, b)
  BY DEF Goes, Children
<1>6. /\ \A e \in Followed : e[1] \in blocks /\ e[2] \in Goes(w, e[1])
      /\ \A b \in blocks : \A c \in Goes(w, b) : <<b, c>> \in Followed
  BY FollowedIsGone
<1>7. \A e \in Followed : e[1] \in blocks => e[2] \in blocks
  BY <1>4, <1>5, <1>6
<1>8. /\ live \subseteq found /\ found \subseteq Blocks
      /\ \A e \in Followed : e[1] \in found => e[2] \in found
      /\ \A S \in SUBSET Blocks :
           live \subseteq S /\ (\A e \in Followed : e[1] \in S => e[2] \in S)
             => found \subseteq S
  <2>1. live \in SUBSET Blocks /\ \A e \in Followed : e[1] \in Blocks => e[2] \in Blocks
    BY <1>4, <1>7, <1>6
  <2>. QED  BY <1>1, <2>1, BelowIsLeast
<1>. HIDE DEF found
<1>9. found \subseteq Reached(w) /\ found \subseteq blocks
  BY <1>3, <1>4, <1>6, <1>7, <1>8
<1>10. ASSUME NEW b \in found PROVE Goes(w, b) \subseteq found /\ Called(w, b) \subseteq found
  <2>1. Called(w, b) \subseteq Tops(w)
    BY DEF Called, Definition, Tops
  <2>2. Called(w, b) \subseteq found
    BY <1>3, <1>8, <1>9, <2>1
  <2>3. \A c \in Goes(w, b) : <<b, c>> \in Followed
    BY <1>6, <1>9
  <2>4. \A c \in Goes(w, b) : c \in found
    BY <1>8, <2>3
  <2>. QED  BY <2>2, <2>4
<1>11. Closed(w, found)
  BY <1>3, <1>8, <1>10, ClosedUnderSteps
<1>. QED  BY <1>3, <1>8, <1>9, <1>11 DEF found

\* get_runnable_block_count and get_active_root_ids agree with the workspace of the latest
\* event, if it parses, however large it is and whatever the events before it were.
THEOREM ActiveIsExact == TrackerSpec => []ActiveIsWhatRuns
<1>1. ASSUME TrackerInv, MapsInv, LiveIsWhatRuns PROVE ActiveIsWhatRuns
  <2>. SUFFICES ASSUME phase = "idle"
                PROVE  LET w == Parse[latest]
                       IN  /\ latest \in Parsed =>
                                 /\ roots \ orphans = Tops(w) \cap Reached(w)
                                 /\ RunnableIds = Reached(w) \ w.disabled
                           /\ latest = Blank =>
                                 roots = {} /\ blocks = {} /\ RunnableIds = {}
    BY DEF ActiveIsWhatRuns
  <2>. DEFINE w == Parse[latest]
  <2>1. latest = workspace
    BY <1>1 DEF TrackerInv
  <2>2. CASE latest \notin Parsed
    BY <1>1, <2>1, <2>2 DEF MapsInv, RunnableIds
  <2>3. Blank \notin Parsed
    BY ParseAssumption
  <2>4. ASSUME latest \in Parsed
        PROVE  /\ roots \ orphans = Tops(w) \cap Reached(w)
               /\ RunnableIds = Reached(w) \ w.disabled
    <3>1. live = Tops(w) \cap Reached(w)
      BY <1>1, <2>4 DEF LiveIsWhatRuns
    <3>2. roots \ orphans = Tops(w) \cap Reached(w)
      BY <1>1, <2>1, <2>4, <3>1, ActiveRoots
    <3>3. Below(roots \ orphans, Followed) = Reached(w)
      BY <1>1, <2>1, <2>4, <3>1, WalkIsExact
    <3>4. CASE roots = {}
      <4>1. Tops(w) = {} /\ IsWorkspace(w)
        BY <1>1, <2>1, <2>4, <3>4, ParseAssumption DEF MapsInv
      <4>2. Closed(w, {})
        BY <4>1 DEF Closed, Hats
      <4>3. Reached(w) = {}
        BY <4>1, <4>2, ReachedIsLeast
      <4>. QED  BY <2>4, <3>2, <3>4, <4>3 DEF RunnableIds
    <3>5. CASE roots # {}
      BY <2>1, <2>4, <3>2, <3>3, <3>5, ReachedIsLeast DEF RunnableIds, Enabled
    <3>. QED  BY <3>4, <3>5
  <2>. QED  BY <2>2, <2>3, <2>4
<1>. QED  BY <1>1, TrackerAlways, MapsAlways, SplitIsExact, PTL

-----------------------------------------------------------------------------
(***************************************************************************)
(* The alerts of an idle student, step by step: what is stored is in the   *)
(* order of the polls, and a new fire is a re-alert time away from all the *)
(* fires of its own streak.                                                *)
(***************************************************************************)

Fire == [index : Int, at : Int, since : Int]

\* Fires are stored in the order of the polls and number themselves downwards; nothing is
\* later than now.
FiresInOrder ==
    /\ now \in Nat /\ lastEvent \in Int /\ polled \in Int
    /\ fires \in Seq(Fire)
    /\ lastEvent <= now /\ polled <= now
    /\ \A i \in DOMAIN fires : fires[i].index = -i /\ fires[i].at <= now
    /\ \A i, j \in DOMAIN fires : i < j => fires[i].at <= fires[j].at

AlertInvariant == FiresInOrder /\ AlertsFollowIdleness

LEMMA FiresAreRecords ==
    FiresInOrder => /\ Len(fires) \in Nat /\ DOMAIN fires = 1..Len(fires)
                    /\ \A i \in 1..Len(fires) : /\ fires[i] \in Fire
                                                /\ fires[i].index \in Int
                                                /\ fires[i].at \in Int
                                                /\ fires[i].since \in Int
<1>. SUFFICES ASSUME FiresInOrder
              PROVE  /\ Len(fires) \in Nat /\ DOMAIN fires = 1..Len(fires)
                     /\ \A i \in 1..Len(fires) : /\ fires[i] \in Fire
                                                 /\ fires[i].index \in Int
                                                 /\ fires[i].at \in Int
                                                 /\ fires[i].since \in Int
  OBVIOUS
<1>1. Len(fires) \in Nat /\ DOMAIN fires = 1..Len(fires) /\ \A i \in 1..Len(fires) : fires[i] \in Fire
  BY DEF FiresInOrder
<1>. QED  BY <1>1 DEF Fire

LEMMA AlertStarts == AlertInit => AlertInvariant
BY AlertAssumption
   DEF AlertInit, AlertInvariant, FiresInOrder, AlertsFollowIdleness, IsIdle, Never, Fire

LEMMA AlertsKept == AlertInvariant /\ UNCHANGED alertVars => AlertInvariant'
BY DEF AlertInvariant, FiresInOrder, AlertsFollowIdleness, IsIdle, alertVars

\* An event or a tick moves the clock on and stores nothing.
LEMMA TimeMovesOn ==
    ASSUME AlertInvariant, now' \in Nat, now' >= now, UNCHANGED <<fires, polled>>,
           \/ lastEvent' = now'
           \/ lastEvent' = lastEvent
    PROVE  AlertInvariant'
<1>1. FiresInOrder'
  <2>1. now' \in Nat /\ lastEvent' \in Int /\ polled' \in Int /\ lastEvent' <= now' /\ polled' <= now'
    BY DEF AlertInvariant, FiresInOrder
  <2>2. \A i \in DOMAIN fires : fires[i].at <= now'
    BY FiresAreRecords DEF AlertInvariant, FiresInOrder
  <2>. QED  BY <2>1, <2>2 DEF AlertInvariant, FiresInOrder
<1>2. (polled = now /\ IsIdle)' => polled = now /\ IsIdle /\ now' = now /\ lastEvent' = lastEvent
  BY AlertAssumption DEF AlertInvariant, FiresInOrder, IsIdle, Never
<1>3. AlertsFollowIdleness'
  BY <1>2 DEF AlertInvariant, AlertsFollowIdleness, Last
<1>. QED  BY <1>1, <1>3 DEF AlertInvariant

\* A poll stores a fire exactly when one is due.
LEMMA PollStores == AlertInvariant /\ Poll => AlertInvariant'
<1>. SUFFICES ASSUME AlertInvariant, Poll PROVE AlertInvariant'
  OBVIOUS
<1>. USE AlertAssumption
<1>1. CASE ~Due
  <2>1. UNCHANGED <<fires, now, lastEvent>> /\ polled' = now
    BY <1>1 DEF Poll
  <2>2. FiresInOrder'
    BY <2>1 DEF AlertInvariant, FiresInOrder
  <2>3. IsIdle => /\ fires # <<>>
                  /\ Last(fires).at >= lastEvent
                  /\ now - Last(fires).at < ReAlertSeconds
    <3>. SUFFICES ASSUME IsIdle
                  PROVE  /\ fires # <<>>
                         /\ Last(fires).at >= lastEvent
                         /\ now - Last(fires).at < ReAlertSeconds
      OBVIOUS
    <3>1. fires # <<>> /\ ~NewStreak /\ ~(now - Last(fires).at >= ReAlertSeconds)
      BY <1>1 DEF Due
    <3>2. Last(fires).at \in Int /\ lastEvent \in Int /\ now \in Int
      BY <3>1, FiresAreRecords DEF AlertInvariant, FiresInOrder, Last
    <3>. QED  BY <3>1, <3>2 DEF NewStreak
  <2>4. AlertsFollowIdleness'
    BY <2>1, <2>3 DEF AlertInvariant, AlertsFollowIdleness, IsIdle
  <2>. QED  BY <2>2, <2>4 DEF AlertInvariant
<1>2. CASE Due
  <2>. DEFINE n == Len(fires)
              new == [index |-> NextIndex, at |-> now, since |-> lastEvent]
  <2>1. /\ fires' = Append(fires, new) /\ polled' = now
        /\ UNCHANGED <<now, lastEvent>>
    BY <1>2 DEF Poll
  <2>2. /\ n \in Nat /\ DOMAIN fires = 1..n /\ fires \in Seq(Fire)
        /\ \A i \in 1..n : fires[i].at \in Int /\ fires[i].index = -i
        /\ now \in Nat /\ lastEvent \in Int /\ lastEvent <= now
    BY FiresAreRecords DEF AlertInvariant, FiresInOrder
  <2>3. NextIndex = -(n + 1)
    <3>1. CASE fires = <<>>
      BY <3>1 DEF NextIndex, InactiveRunIndex
    <3>2. CASE fires # <<>>
      <4>1. n \in 1..n
        BY <2>2, <3>2
      <4>2. fires[n].index = -n
        BY <2>2, <4>1
      <4>. QED  BY <2>2, <3>2, <4>2 DEF NextIndex, Last
    <3>. QED  BY <3>1, <3>2
  <2>4. new \in Fire
    BY <2>2, <2>3 DEF Fire
  <2>5. /\ fires' \in Seq(Fire) /\ Len(fires') = n + 1 /\ DOMAIN fires' = 1..(n + 1)
        /\ \A i \in 1..n : fires'[i] = fires[i]
        /\ fires'[n + 1] = new
    BY <2>1, <2>2, <2>4
  <2>. /\ new.at = now /\ new.since = lastEvent /\ new.index = -(n + 1)
    BY <2>3
  <2>6. FiresInOrder'
    <3>1. \A i \in DOMAIN fires' : fires'[i].index = -i /\ fires'[i].at <= now'
      BY <2>1, <2>2, <2>3, <2>5 DEF AlertInvariant, FiresInOrder
    <3>2. \A i, j \in DOMAIN fires' : i < j => fires'[i].at <= fires'[j].at
      BY <2>1, <2>2, <2>5 DEF AlertInvariant, FiresInOrder
    <3>. QED  BY <2>1, <2>2, <2>5, <3>1, <3>2 DEF FiresInOrder
  <2>7. \A i \in 1..n : now >= fires[i].at + ReAlertSeconds \/ lastEvent > fires[i].at
    <3>. SUFFICES ASSUME NEW i \in 1..n
                  PROVE  now >= fires[i].at + ReAlertSeconds \/ lastEvent > fires[i].at
      OBVIOUS
    <3>1. n \in 1..n /\ fires # <<>> /\ fires[i].at \in Int /\ fires[n].at \in Int
      BY <2>2
    <3>2. fires[i].at <= fires[n].at
      <4>1. CASE i = n
        BY <3>1, <4>1
      <4>2. CASE i # n
        BY <2>2, <3>1, <4>2 DEF AlertInvariant, FiresInOrder
      <4>. QED  BY <4>1, <4>2
    <3>3. lastEvent > fires[n].at \/ now - fires[n].at >= ReAlertSeconds
      BY <1>2, <3>1 DEF Due, NewStreak, Last
    <3>. QED  BY <2>2, <3>1, <3>2, <3>3
  <2>. HIDE DEF n, new
  <2>8. \A i, j \in DOMAIN fires' : i < j =>
           /\ fires'[j].index # fires'[i].index
           /\ fires'[j].at >= fires'[i].at + ReAlertSeconds \/ fires'[j].since > fires'[i].at
    <3>. SUFFICES ASSUME NEW i \in 1..(n + 1), NEW j \in 1..(n + 1), i < j
                  PROVE  /\ fires'[j].index # fires'[i].index
                         /\ \/ fires'[j].at >= fires'[i].at + ReAlertSeconds
                            \/ fires'[j].since > fires'[i].at
      BY <2>5
    <3>1. fires'[j].index # fires'[i].index
      <4>1. fires'[i].index = -i /\ fires'[j].index = -j
        BY <2>5, <2>6 DEF FiresInOrder
      <4>. QED  BY <2>2, <4>1
    <3>2. CASE j = n + 1
      BY <2>2, <2>5, <2>7, <3>1, <3>2
    <3>3. CASE j # n + 1
      <4>1. i \in 1..n /\ j \in 1..n
        BY <2>2, <3>3
      <4>. QED  BY <2>2, <2>5, <3>1, <4>1 DEF AlertInvariant, AlertsFollowIdleness
    <3>. QED  BY <3>2, <3>3
  <2>9. fires' # <<>> /\ Last(fires').at >= lastEvent' /\ now' - Last(fires').at < ReAlertSeconds
    <3>1. fires' # <<>> /\ Last(fires').at = now'
      BY <2>1, <2>2, <2>5 DEF Last
    <3>2. now' >= lastEvent' /\ now' - now' < ReAlertSeconds
      BY <2>1, <2>2 DEF AlertAssumption
    <3>. QED  BY <3>1, <3>2, Zenon
  <2>. QED  BY <2>6, <2>8, <2>9 DEF AlertInvariant, AlertsFollowIdleness
<1>. QED  BY <1>1, <1>2

-----------------------------------------------------------------------------
(***************************************************************************)
(* The distances of a run stream are the true ones for every cache size    *)
(* and every order of hits, evictions and clears: the cache only ever      *)
(* holds what a comparison without it would have computed.                 *)
(***************************************************************************)

\* What may be stored: a pair that is not oversized, at its edit distance.
TrueEntry == {e \in [key : Xmls \X Xmls, dist : Nat] :
                 {e.key[1], e.key[2]} \cap Oversized = {} /\ e.dist = EditDistance[e.key]}
Run == [dist : Int, playground : Playgrounds \cup {NoPlayground}, xml : Xmls]

CacheIsTrue == cache \in Seq(TrueEntry)
RunInvariant == CacheIsTrue /\ runs \in Seq(Run) /\ DistancesAreTrue

TrueDist(a, b) == IF a = b THEN 0
                  ELSE IF {a, b} \cap Oversized # {} THEN NoDist ELSE EditDistance[a, b]

LEMMA RunsStart == RunsInit => RunInvariant
BY DEF RunsInit, RunInvariant, CacheIsTrue, DistancesAreTrue

\* Moving a hit to the young end leaves only what was there.
LEMMA TouchedHolds ==
    ASSUME CacheIsTrue, NEW k, Hit(k)
    PROVE  /\ Touched(k) \in Seq(TrueEntry)
           /\ Last(Touched(k)) \in TrueEntry
           /\ Last(Touched(k)).key = k
<1>. DEFINE i == CHOOSE j \in Positions(k) : TRUE
            rest == RemoveAt(cache, i)
<1>1. i \in 1..Len(cache) /\ cache[i].key = k /\ cache[i] \in TrueEntry /\ Len(cache) \in Nat
  BY DEF Hit, Positions, CacheIsTrue
<1>2. rest \in Seq(TrueEntry)
  <2>. DEFINE front == SubSeq(cache, 1, i - 1)
              back == SubSeq(cache, i + 1, Len(cache))
  <2>. \A j \in 1..Len(cache) : cache[j] \in TrueEntry
    BY DEF CacheIsTrue
  <2>. HIDE DEF i
  <2>1. front \in Seq(TrueEntry)
    <3>1. i - 1 \in Int /\ \A j \in 1..(i - 1) : cache[j] \in TrueEntry
      BY <1>1
    <3>. QED  BY <3>1, SubSeqProperties
  <2>2. back \in Seq(TrueEntry)
    <3>1. i + 1 \in Int /\ Len(cache) \in Int /\ \A j \in (i + 1)..Len(cache) : cache[j] \in TrueEntry
      BY <1>1
    <3>. QED  BY <3>1, SubSeqProperties
  <2>3. rest = front \o back
    BY DEF RemoveAt
  <2>. QED  BY <2>1, <2>2, <2>3, ConcatProperties
<1>3. Touched(k) = Append(rest, cache[i])
  BY DEF Touched
<1>. HIDE DEF i, rest
<1>4. Append(rest, cache[i]) \in Seq(TrueEntry) /\ Last(Append(rest, cache[i])) = cache[i]
  BY <1>1, <1>2, AppendProperties DEF Last
<1>. QED  BY <1>1, <1>3, <1>4

\* A new entry may push the oldest out.
LEMMA StoredHolds ==
    ASSUME CacheIsTrue, NEW k, NEW d, [key |-> k, dist |-> d] \in TrueEntry
    PROVE  Stored(k, d) \in Seq(TrueEntry)
<1>. DEFINE e == [key |-> k, dist |-> d]
            longer == Append(cache, e)
<1>1. longer \in Seq(TrueEntry) /\ longer # <<>>
  BY AppendProperties DEF CacheIsTrue
<1>2. Tail(longer) \in Seq(TrueEntry)
  BY <1>1, HeadTailProperties
<1>. QED  BY <1>1, <1>2 DEF Stored

\* With the cache or without it, a comparison gives the true distance.
LEMMA ComparisonIsTrue ==
    ASSUME CacheIsTrue, NEW a \in Xmls, NEW b \in Xmls, NEW d, Compared(a, b, d)
    PROVE  CacheIsTrue' /\ d = TrueDist(a, b)
<1>. USE DistanceAssumption
<1>1. CASE a = b
  BY <1>1 DEF Compared, CacheIsTrue, TrueDist
<1>2. CASE a # b /\ Hit(Key(a, b))
  <2>1. cache' = Touched(Key(a, b)) /\ d = Last(cache').dist
    BY <1>2 DEF Compared
  <2>2. Last(cache') \in TrueEntry /\ Last(cache').key = <<a, b>> /\ cache' \in Seq(TrueEntry)
    BY <1>2, <2>1, TouchedHolds DEF Key
  <2>3. d = EditDistance[a, b] /\ {a, b} \cap Oversized = {}
    <3>. DEFINE e == Last(cache')
    <3>1. {e.key[1], e.key[2]} \cap Oversized = {} /\ e.dist = EditDistance[e.key]
      BY <2>2 DEF TrueEntry
    <3>2. e.key = <<a, b>> /\ d = e.dist
      BY <2>1, <2>2
    <3>. HIDE DEF e
    <3>3. <<a, b>>[1] = a /\ <<a, b>>[2] = b
      OBVIOUS
    <3>. QED  BY <3>1, <3>2, <3>3, Zenon
  <2>. QED  BY <1>2, <2>2, <2>3 DEF CacheIsTrue, TrueDist
<1>3. CASE a # b /\ ~Hit(Key(a, b)) /\ {a, b} \cap Oversized # {}
  BY <1>3 DEF Compared, CacheIsTrue, TrueDist
<1>4. CASE a # b /\ ~Hit(Key(a, b)) /\ {a, b} \cap Oversized = {}
  <2>1. d = EditDistance[a, b] /\ cache' = Stored(Key(a, b), d)
    BY <1>4 DEF Compared
  <2>2. [key |-> Key(a, b), dist |-> d] \in TrueEntry
    BY <1>4, <2>1 DEF TrueEntry, Key
  <2>. QED  BY <1>4, <2>1, <2>2, StoredHolds DEF CacheIsTrue, TrueDist
<1>. QED  BY <1>1, <1>2, <1>3, <1>4

LEMMA PushedRunIsTrue ==
    ASSUME RunInvariant, NEW xml \in Xmls, NEW pg \in Playgrounds \cup {NoPlayground},
           PushRun(xml, pg)
    PROVE  RunInvariant'
<1>. DEFINE n == Len(runs)
<1>1. PICK d \in Distances :
        /\ IF FirstOfStretch(pg) THEN d = NoDist /\ cache' = cache
                                 ELSE Compared(Last(runs).xml, xml, d)
        /\ runs' = Append(runs, [dist |-> d, playground |-> Effective(pg), xml |-> xml])
  BY DEF PushRun
<1>. DEFINE new == [dist |-> d, playground |-> Effective(pg), xml |-> xml]
<1>2. n \in Nat /\ DOMAIN runs = 1..n /\ \A i \in 1..n : runs[i] \in Run
  BY DEF RunInvariant
<1>3. n = 0 <=> runs = <<>>
  BY DEF RunInvariant
<1>4. n # 0 => n \in 1..n /\ Last(runs) = runs[n] /\ runs[n].xml \in Xmls
               /\ runs[n].playground \in Playgrounds \cup {NoPlayground}
  BY <1>2 DEF Last, Run
<1>5. new \in Run
  <2>1. d \in Int
    <3>1. \A p \in Xmls \X Xmls : EditDistance[p] \in Nat
      BY DistanceAssumption, Zenon
    <3>2. d = NoDist \/ d = 0 \/ \E p \in Xmls \X Xmls : d = EditDistance[p]
      BY Zenon DEF Distances
    <3>. QED  BY <3>1, <3>2 DEF NoDist
  <2>2. Effective(pg) \in Playgrounds \cup {NoPlayground}
    BY <1>3, <1>4 DEF Effective, PrevPlayground
  <2>. QED  BY <2>1, <2>2 DEF Run
<1>6. new.dist = d /\ new.playground = Effective(pg) /\ new.xml = xml
  OBVIOUS
<1>. HIDE DEF n, new
<1>7. /\ runs' \in Seq(Run) /\ DOMAIN runs' = 1..(n + 1)
      /\ \A i \in 1..n : runs'[i] = runs[i]
      /\ runs'[n + 1] = new
  BY <1>1, <1>2, <1>5, AppendProperties DEF RunInvariant, n, new
<1>8. CacheIsTrue' /\ (FirstOfStretch(pg) => d = NoDist)
                   /\ (~FirstOfStretch(pg) => d = TrueDist(runs[n].xml, xml))
  <2>1. CASE FirstOfStretch(pg)
    BY <1>1, <2>1 DEF RunInvariant, CacheIsTrue
  <2>2. CASE ~FirstOfStretch(pg)
    <3>1. n # 0 /\ Compared(runs[n].xml, xml, d)
      BY <1>1, <1>3, <1>4, <2>2 DEF FirstOfStretch
    <3>. QED  BY <1>4, <2>2, <3>1, ComparisonIsTrue DEF RunInvariant
  <2>. QED  BY <2>1, <2>2
<1>9. DistancesAreTrue'
  <2>. SUFFICES ASSUME NEW i \in 1..(n + 1)
                PROVE  runs'[i].dist =
                         IF i = 1 \/ runs'[i - 1].playground # runs'[i].playground THEN NoDist
                         ELSE TrueDist(runs'[i - 1].xml, runs'[i].xml)
    BY <1>7 DEF DistancesAreTrue, Switched, TrueDist
  <2>1. CASE i # n + 1
    <3>1. i \in 1..n /\ runs'[i] = runs[i] /\ (i # 1 => runs'[i - 1] = runs[i - 1])
      BY <1>2, <1>7, <2>1
    <3>2. runs[i].dist =
            IF i = 1 \/ runs[i - 1].playground # runs[i].playground THEN NoDist
            ELSE TrueDist(runs[i - 1].xml, runs[i].xml)
      BY <1>2, <3>1 DEF RunInvariant, DistancesAreTrue, Switched, TrueDist
    <3>. QED  BY <3>1, <3>2
  <2>2. CASE i = n + 1
    <3>1. FirstOfStretch(pg) <=> n = 0 \/ runs[n].playground # Effective(pg)
      BY <1>3, <1>4 DEF FirstOfStretch, PrevPlayground
    <3>2. runs'[i] = new /\ i - 1 = n /\ (n # 0 => runs'[n] = runs[n])
      BY <1>2, <1>4, <1>7, <2>2
    <3>. QED  BY <1>2, <1>6, <1>8, <2>2, <3>1, <3>2
  <2>. QED  BY <2>1, <2>2
<1>. QED  BY <1>7, <1>8, <1>9 DEF RunInvariant

LEMMA RunsKept == RunInvariant /\ UNCHANGED runVars => RunInvariant'
<1>. SUFFICES ASSUME RunInvariant, UNCHANGED runVars PROVE RunInvariant'
  OBVIOUS
<1>1. cache' = cache /\ runs' = runs
  BY DEF runVars
<1>. QED  BY <1>1, Zenon DEF RunInvariant, CacheIsTrue, DistancesAreTrue, Switched

LEMMA ClearingIsHarmless == RunInvariant /\ ClearCache => RunInvariant'
<1>. SUFFICES ASSUME RunInvariant, ClearCache PROVE RunInvariant'
  OBVIOUS
<1>1. cache' = <<>> /\ runs' = runs
  BY DEF ClearCache
<1>2. CacheIsTrue'
  BY <1>1 DEF CacheIsTrue
<1>3. (runs \in Seq(Run))' /\ DistancesAreTrue'
  BY <1>1, Zenon DEF RunInvariant, DistancesAreTrue, Switched
<1>. QED  BY <1>2, <1>3 DEF RunInvariant

-----------------------------------------------------------------------------
(***************************************************************************)
(* The triggers: what detect_run_triggers counts run by run is what the    *)
(* README reads off the rows of distances.                                 *)
(***************************************************************************)

\* A sequence of runs whose distances are counts of edits, where there are any.
AreRuns(rs) == rs \in Seq(Run) /\ \A i \in 1..Len(rs) : rs[i].dist \in Nat \cup {NoDist}

Triggers == {"wheel_spin", "resilience", "explorer", "iterative"}

Fits(kind, d) == IF kind = "zeros" THEN d = 0 ELSE d > 0

\* The row that run k ends, of the stretch that begins at a.
Row(rs, kind, a, k) ==
    {j \in a..k : /\ rs[j].dist # NoDist
                  /\ \A m \in j..k : rs[m].dist # NoDist => Fits(kind, rs[m].dist)}
RowLength(rs, kind, a, k) == Cardinality(Row(rs, kind, a, k))

ThresholdAt(rs, a) == IterativeThreshold[rs[a].playground]

\* The README's table: what fires at run k of the stretch that begins at a.
FiresAt(rs, a, f) ==
    LET k == f[2]
        d == rs[k].dist
    IN  \/ f[1] = "wheel_spin" /\ d = 0 /\ RowLength(rs, "zeros", a, k) = WheelSpinZeroRuns
        \/ f[1] = "resilience" /\ d > 0 /\ RowLength(rs, "zeros", a, k - 1) >= ResilienceZeroRuns
        \/ f[1] = "explorer" /\ d >= ExplorerEditDistance
        \/ f[1] = "iterative" /\ d > 0 /\ RowLength(rs, "edits", a, k) = ThresholdAt(rs, a)
FiredIn(rs, a, k) == {f \in Triggers \X (a..k) : FiresAt(rs, a, f)}

\* The counters and the arming flags after run k.
Counted(rs, a, k) ==
    [zeros |-> RowLength(rs, "zeros", a, k),
     wheelArmed |-> RowLength(rs, "zeros", a, k) < WheelSpinZeroRuns,
     edits |-> RowLength(rs, "edits", a, k),
     iterArmed |-> RowLength(rs, "edits", a, k) < ThresholdAt(rs, a),
     fires |-> FiredIn(rs, a, k)]

LEMMA LeastIsThere ==
    ASSUME NEW S \in SUBSET Nat, S # {}
    PROVE  \E m \in S : \A n \in S : m <= n
<1>1. PICK m \in S : \A y \in S : ~(<<y, m>> \in OpToRel(<, Nat))
  BY NatLessThanWellFounded, WFMin
<1>2. ASSUME NEW y \in S PROVE m <= y
  <2>1. m \in Nat /\ y \in Nat
    OBVIOUS
  <2>2. ~(y < m)
    BY <1>1, <2>1 DEF OpToRel
  <2>. QED  BY <2>1, <2>2
<1>. QED  BY <1>2

LEMMA RowIsFinite ==
    ASSUME NEW rs, NEW kind, NEW a \in Nat, NEW k \in Nat
    PROVE  IsFiniteSet(Row(rs, kind, a, k)) /\ RowLength(rs, kind, a, k) \in Nat
<1>1. IsFiniteSet(a..k)
  BY FS_Interval
<1>2. Row(rs, kind, a, k) \subseteq a..k
  BY DEF Row
<1>. QED  BY <1>1, <1>2, FS_Subset, FS_CardinalityType DEF RowLength

\* A run that was compared goes on with the row or ends it.
LEMMA RowGoesOn ==
    ASSUME NEW rs, NEW kind, NEW a \in Nat \ {0}, NEW k \in Nat, a <= k
    PROVE  RowLength(rs, kind, a, k) =
             IF rs[k].dist = NoDist THEN RowLength(rs, kind, a, k - 1)
             ELSE IF Fits(kind, rs[k].dist) THEN RowLength(rs, kind, a, k - 1) + 1 ELSE 0
<1>. DEFINE d == rs[k].dist
            old == Row(rs, kind, a, k - 1)
            new == Row(rs, kind, a, k)
<1>1. \A j : j \in a..k <=> j \in a..(k - 1) \/ j = k
  OBVIOUS
<1>2. \A j \in a..k : \A m : m \in j..k <=> m \in j..(k - 1) \/ m = k
  OBVIOUS
<1>3. k - 1 \in Nat /\ k \notin old
  BY DEF Row
<1>4. CASE d = NoDist
  <2>1. new = old
    BY <1>1, <1>2, <1>4 DEF Row
  <2>. QED  BY <1>4, <2>1 DEF RowLength
<1>5. CASE d # NoDist /\ Fits(kind, d)
  <2>1. new = old \cup {k}
    <3>1. k \in new
      <4>1. \A m \in k..k : m = k
        OBVIOUS
      <4>. QED  BY <1>5, <4>1 DEF Row
    <3>2. ASSUME NEW j \in a..(k - 1) PROVE j \in new <=> j \in old
      <4>1. j \in a..k /\ \A m : m \in j..k <=> m \in j..(k - 1) \/ m = k
        BY <1>1, <1>2
      <4>. QED  BY <1>5, <4>1 DEF Row
    <3>3. new \subseteq a..k /\ old \subseteq a..(k - 1)
      BY DEF Row
    <3>. HIDE DEF new, old
    <3>. QED  BY <1>1, <3>1, <3>2, <3>3
  <2>2. IsFiniteSet(old)
    BY <1>3, RowIsFinite
  <2>. HIDE DEF new, old
  <2>3. Cardinality(new) = Cardinality(old) + 1
    BY <1>3, <2>1, <2>2, FS_AddElement
  <2>. QED  BY <1>5, <2>3 DEF RowLength, new, old
<1>6. CASE d # NoDist /\ ~Fits(kind, d)
  <2>1. new = {}
    <3>1. \A j \in a..k : k \in j..k
      OBVIOUS
    <3>. QED  BY <1>6, <3>1 DEF Row
  <2>. QED  BY <1>6, <2>1, FS_EmptySet DEF RowLength
<1>. QED  BY <1>4, <1>5, <1>6

LEMMA RowIsShort ==
    ASSUME NEW rs, NEW kind, NEW a \in Nat \ {0}
    PROVE  RowLength(rs, kind, a, a - 1) = 0
<1>1. Row(rs, kind, a, a - 1) = {}
  BY DEF Row
<1>. QED  BY <1>1, FS_EmptySet DEF RowLength

\* One run: the counters, flags and fires are those of the row.
LEMMA RunIsCounted ==
    ASSUME NEW rs, AreRuns(rs), NEW a \in 1..Len(rs), NEW k \in a..Len(rs)
    PROVE  After(Counted(rs, a, k - 1), k, rs[k].dist, ThresholdAt(rs, a)) = Counted(rs, a, k)
<1>. DEFINE d == rs[k].dist
            T == ThresholdAt(rs, a)
            z0 == RowLength(rs, "zeros", a, k - 1)
            z == RowLength(rs, "zeros", a, k)
            e0 == RowLength(rs, "edits", a, k - 1)
            e == RowLength(rs, "edits", a, k)
            old == Counted(rs, a, k - 1)
<1>0. /\ a \in Nat \ {0} /\ k \in Nat /\ k - 1 \in Nat /\ a <= k /\ k \in 1..Len(rs)
      /\ d \in Nat \cup {NoDist} /\ T \in Nat \ {0}
  <2>1. Len(rs) \in Nat /\ rs[a] \in Run
    BY DEF AreRuns
  <2>2. a \in Nat \ {0} /\ k \in Nat /\ k - 1 \in Nat /\ a <= k /\ k \in 1..Len(rs)
    BY <2>1
  <2>3. T \in Nat \ {0}
    BY <2>1, DistanceAssumption DEF ThresholdAt, Run
  <2>. QED  BY <2>2, <2>3 DEF AreRuns
<1>01. WheelSpinZeroRuns \in Nat \ {0} /\ ResilienceZeroRuns \in Nat \ {0} /\ ExplorerEditDistance \in Nat \ {0}
  BY DistanceAssumption
<1>1. /\ z = IF d = NoDist THEN z0 ELSE IF d = 0 THEN z0 + 1 ELSE 0
      /\ e = IF d = NoDist THEN e0 ELSE IF d > 0 THEN e0 + 1 ELSE 0
  <2>1. RowLength(rs, "zeros", a, k) =
             IF rs[k].dist = NoDist THEN RowLength(rs, "zeros", a, k - 1)
             ELSE IF Fits("zeros", rs[k].dist) THEN RowLength(rs, "zeros", a, k - 1) + 1 ELSE 0
    BY <1>0, RowGoesOn
  <2>2. RowLength(rs, "edits", a, k) =
             IF rs[k].dist = NoDist THEN RowLength(rs, "edits", a, k - 1)
             ELSE IF Fits("edits", rs[k].dist) THEN RowLength(rs, "edits", a, k - 1) + 1 ELSE 0
    BY <1>0, RowGoesOn
  <2>. QED  BY <2>1, <2>2 DEF Fits
<1>2. z0 \in Nat /\ e0 \in Nat
  BY <1>0, RowIsFinite
<1>3. /\ old.zeros = z0 /\ old.edits = e0 /\ old.fires = FiredIn(rs, a, k - 1)
      /\ old.wheelArmed = (z0 < WheelSpinZeroRuns) /\ old.iterArmed = (e0 < T)
  BY DEF Counted
<1>4. \A f : f \in FiredIn(rs, a, k)
                <=> f \in FiredIn(rs, a, k - 1) \/ \E t \in Triggers : f = <<t, k>> /\ FiresAt(rs, a, <<t, k>>)
  <2>1. \A j : j \in a..k <=> j \in a..(k - 1) \/ j = k
    BY <1>0
  <2>2. ASSUME NEW f
        PROVE  f \in Triggers \X (a..k)
                 <=> f \in Triggers \X (a..(k - 1)) \/ \E t \in Triggers : f = <<t, k>>
    BY <2>1
  <2>. HIDE DEF T, d, z, z0, e, e0
  <2>4. ASSUME NEW f
        PROVE  /\ f \in FiredIn(rs, a, k) <=> f \in Triggers \X (a..k) /\ FiresAt(rs, a, f)
               /\ f \in FiredIn(rs, a, k - 1) <=> f \in Triggers \X (a..(k - 1)) /\ FiresAt(rs, a, f)
    BY DEF FiredIn
  <2>. QED  BY <2>2, <2>4, Zenon
<1>5. /\ FiresAt(rs, a, <<"wheel_spin", k>>) <=> d = 0 /\ z = WheelSpinZeroRuns
      /\ FiresAt(rs, a, <<"resilience", k>>) <=> d > 0 /\ z0 >= ResilienceZeroRuns
      /\ FiresAt(rs, a, <<"explorer", k>>) <=> d >= ExplorerEditDistance
      /\ FiresAt(rs, a, <<"iterative", k>>) <=> d > 0 /\ e = T
  BY DEF FiresAt
<1>. DEFINE resilience == IF d > 0 /\ z0 >= ResilienceZeroRuns THEN {<<"resilience", k>>} ELSE {}
            wheel == IF d = 0 /\ z = WheelSpinZeroRuns THEN {<<"wheel_spin", k>>} ELSE {}
            explorer == IF d >= ExplorerEditDistance THEN {<<"explorer", k>>} ELSE {}
            iter == IF d > 0 /\ e = T THEN {<<"iterative", k>>} ELSE {}
<1>. HIDE DEF z, z0, e, e0, T, d
<1>6. FiredIn(rs, a, k) = FiredIn(rs, a, k - 1) \cup resilience \cup wheel \cup explorer \cup iter
  BY <1>4, <1>5 DEF Triggers
<1>7. Counted(rs, a, k) =
        [zeros |-> z, wheelArmed |-> z < WheelSpinZeroRuns, edits |-> e, iterArmed |-> e < T,
         fires |-> FiredIn(rs, a, k - 1) \cup resilience \cup wheel \cup explorer \cup iter]
  <2>. HIDE DEF resilience, wheel, explorer, iter
  <2>. QED  BY <1>6 DEF Counted, z, e, T
<1>. HIDE DEF old
<1>8. CASE d = NoDist
  <2>1. resilience = {} /\ wheel = {} /\ explorer = {} /\ iter = {}
    BY <1>0, <1>8, <1>01 DEF NoDist
  <2>2. Counted(rs, a, k) =
        [zeros |-> z0, wheelArmed |-> z0 < WheelSpinZeroRuns, edits |-> e0, iterArmed |-> e0 < T,
         fires |-> FiredIn(rs, a, k - 1)]
    <3>. HIDE DEF resilience, wheel, explorer, iter
    <3>. QED  BY <1>1, <1>7, <1>8, <2>1
  <2>3. Counted(rs, a, k) = old
    BY <2>2 DEF Counted, old, z0, e0, T
  <2>4. After(old, k, d, T) = old
    BY <1>8 DEF After
  <2>. QED  BY <2>3, <2>4 DEF old, d, T
<1>9. CASE d # NoDist
  <2>. DEFINE zeros == IF d = 0 THEN old.zeros + 1 ELSE 0
              edits == IF d = 0 THEN 0 ELSE old.edits + 1
              spins == d = 0 /\ zeros >= WheelSpinZeroRuns /\ old.wheelArmed
              builds == d > 0 /\ edits >= T /\ old.iterArmed
  <2>0. d \in Nat /\ NoDist \notin Nat
    BY <1>0, <1>9 DEF NoDist
  <2>1. zeros = z /\ edits = e
    BY <1>1, <1>3, <1>9, <2>0
  <2>2. spins <=> d = 0 /\ z = WheelSpinZeroRuns
    <3>1. old.wheelArmed <=> z0 < WheelSpinZeroRuns
      BY <1>3, Zenon
    <3>. HIDE DEF resilience, wheel, explorer, iter
    <3>. QED  BY <1>0, <1>1, <1>2, <2>0, <2>1, <3>1, <1>01
  <2>3. builds <=> d > 0 /\ e = T
    <3>1. old.iterArmed <=> e0 < T
      BY <1>3, Zenon
    <3>. HIDE DEF resilience, wheel, explorer, iter
    <3>. QED  BY <1>0, <1>1, <1>2, <2>0, <2>1, <3>1, <1>01
  <2>4. (d > 0 \/ (old.wheelArmed /\ ~spins)) <=> z < WheelSpinZeroRuns
    <3>1. old.wheelArmed <=> z0 < WheelSpinZeroRuns
      BY <1>3, Zenon
    <3>. HIDE DEF resilience, wheel, explorer, iter
    <3>. QED  BY <1>0, <1>1, <1>2, <2>0, <2>1, <2>2, <3>1, <1>01
  <2>5. (d = 0 \/ (old.iterArmed /\ ~builds)) <=> e < T
    <3>1. old.iterArmed <=> e0 < T
      BY <1>3, Zenon
    <3>. HIDE DEF resilience, wheel, explorer, iter
    <3>. QED  BY <1>0, <1>1, <1>2, <2>0, <2>1, <2>3, <3>1, <1>01
  <2>6. Recovered(old, d) <=> d > 0 /\ z0 >= ResilienceZeroRuns
    BY <1>3 DEF Recovered
  <2>7. After(old, k, d, T) =
          [zeros |-> zeros,
           wheelArmed |-> d > 0 \/ (old.wheelArmed /\ ~spins),
           edits |-> edits,
           iterArmed |-> d = 0 \/ (old.iterArmed /\ ~builds),
           fires |-> old.fires
             \cup (IF Recovered(old, d) THEN {<<"resilience", k>>} ELSE {})
             \cup (IF spins THEN {<<"wheel_spin", k>>} ELSE {})
             \cup (IF d >= ExplorerEditDistance THEN {<<"explorer", k>>} ELSE {})
             \cup (IF builds THEN {<<"iterative", k>>} ELSE {})]
    <3>. HIDE DEF resilience, wheel, explorer, iter
    <3>. QED  BY <1>9, Zenon DEF After
  <2>8. (d > 0 \/ (old.wheelArmed /\ ~spins)) = (z < WheelSpinZeroRuns)
    <3>. HIDE DEF spins
    <3>. QED  BY <2>4
  <2>9. (d = 0 \/ (old.iterArmed /\ ~builds)) = (e < T)
    <3>. HIDE DEF builds
    <3>. QED  BY <2>5
  <2>10. /\ resilience = IF Recovered(old, d) THEN {<<"resilience", k>>} ELSE {}
         /\ wheel = IF spins THEN {<<"wheel_spin", k>>} ELSE {}
         /\ iter = IF builds THEN {<<"iterative", k>>} ELSE {}
    <3>. HIDE DEF spins, builds
    <3>. QED  BY <2>2, <2>3, <2>6
  <2>. HIDE DEF zeros, edits, spins, builds, resilience, wheel, iter
  <2>11. After(old, k, d, T) = Counted(rs, a, k)
    BY <1>3, <1>7, <2>1, <2>7, <2>8, <2>9, <2>10, Zenon DEF explorer
  <2>. QED  BY <2>11 DEF old, d, T
<1>. QED  BY <1>8, <1>9

LEMMA NothingCounted ==
    ASSUME NEW rs, AreRuns(rs), NEW a \in 1..Len(rs)
    PROVE  Counted(rs, a, a - 1) = Fresh
<1>1. a \in Nat \ {0} /\ ThresholdAt(rs, a) \in Nat \ {0}
  <2>1. Len(rs) \in Nat /\ rs[a] \in Run
    BY DEF AreRuns
  <2>2. ThresholdAt(rs, a) \in Nat \ {0}
    BY <2>1, DistanceAssumption DEF ThresholdAt, Run
  <2>. QED  BY <2>1, <2>2
<1>2. RowLength(rs, "zeros", a, a - 1) = 0 /\ RowLength(rs, "edits", a, a - 1) = 0
  BY <1>1, RowIsShort
<1>3. FiredIn(rs, a, a - 1) = {}
  BY <1>1 DEF FiredIn
<1>4. WheelSpinZeroRuns \in Nat \ {0}
  BY DistanceAssumption
<1>5. (0 < WheelSpinZeroRuns) = TRUE /\ (0 < ThresholdAt(rs, a)) = TRUE
  BY <1>1, <1>4
<1>. QED  BY <1>2, <1>3, <1>5, Zenon DEF Counted, Fresh

\* detect_run_triggers over a stretch gives what the table says of it.
LEMMA DetectedAre ==
    ASSUME NEW rs, AreRuns(rs), NEW a \in 1..Len(rs), NEW j \in a..Len(rs)
    PROVE  DetectRunTriggers(rs, a, j) = FiredIn(rs, a, j)
<1>. DEFINE Indices == (a - 1)..j
            Step(s, k) == IF k < a THEN Fresh
                          ELSE After(s[k - 1], k, rs[k].dist, IterativeThreshold[rs[a].playground])
            counted == [k \in Indices |-> Counted(rs, a, k)]
            state == CHOOSE s : s = [k \in Indices |-> Step(s, k)]
<1>0. Len(rs) \in Nat
  BY DEF AreRuns
<1>1. DetectRunTriggers(rs, a, j) = state[j].fires
  BY DEF DetectRunTriggers
<1>2. \A k \in Indices : Counted(rs, a, k) = Step(counted, k)
  <2>. SUFFICES ASSUME NEW k \in Indices PROVE Counted(rs, a, k) = Step(counted, k)
    OBVIOUS
  <2>1. CASE k < a
    <3>1. k = a - 1
      BY <1>0, <2>1
    <3>. QED  BY <2>1, <3>1, NothingCounted
  <2>2. CASE ~(k < a)
    <3>1. k \in a..Len(rs) /\ k - 1 \in Indices
      BY <1>0, <2>2
    <3>2. counted[k - 1] = Counted(rs, a, k - 1)
      BY <3>1
    <3>3. After(Counted(rs, a, k - 1), k, rs[k].dist, ThresholdAt(rs, a)) = Counted(rs, a, k)
      BY <3>1, RunIsCounted
    <3>. HIDE DEF counted
    <3>. QED  BY <2>2, <3>2, <3>3 DEF ThresholdAt
  <2>. QED  BY <2>1, <2>2
<1>3. counted = [k \in Indices |-> Step(counted, k)]
  <2>. HIDE DEF Step
  <2>. QED  BY <1>2
<1>4. state = [k \in Indices |-> Step(state, k)]
  <2>. HIDE DEF counted, Step
  <2>1. \E s : s = [k \in Indices |-> Step(s, k)]
    BY <1>3
  <2>. QED  BY <2>1
<1>. DEFINE wrong == {k \in Indices : state[k] # Counted(rs, a, k)}
<1>5. wrong = {}
  <2>. SUFFICES ASSUME wrong # {} PROVE FALSE
    OBVIOUS
  <2>. HIDE DEF state, Step
  <2>1. wrong \in SUBSET Nat
    BY <1>0
  <2>2. PICK k \in wrong : \A m \in wrong : k <= m
    <3>. HIDE DEF wrong
    <3>. QED  BY <2>1, LeastIsThere
  <2>3. k \in Indices /\ state[k] # Counted(rs, a, k) /\ state[k] = Step(state, k)
    BY <1>4
  <2>4. ~(k < a)
    BY <1>2, <2>3 DEF Step
  <2>5. k - 1 \in Indices /\ ~(k <= k - 1)
    BY <1>0, <2>3, <2>4
  <2>6. state[k - 1] = Counted(rs, a, k - 1) /\ counted[k - 1] = Counted(rs, a, k - 1)
    BY <2>2, <2>5
  <2>7. Step(state, k) = Step(counted, k)
    <3>. HIDE DEF counted
    <3>. QED  BY <2>6, Zenon DEF Step
  <2>. QED  BY <1>2, <2>3, <2>7
<1>6. state[j] = Counted(rs, a, j)
  <2>1. j \in Indices
    BY <1>0
  <2>. HIDE DEF state, Indices
  <2>. QED  BY <1>5, <2>1
<1>. HIDE DEF state
<1>7. Counted(rs, a, j).fires = FiredIn(rs, a, j)
  BY DEF Counted
<1>. QED  BY <1>1, <1>6, <1>7, Zenon

SwitchedAt(rs, i) == i = 1 \/ rs[i - 1].playground # rs[i].playground

\* Run m is of the stretch that begins at s, for a walk over the runs from i on.
OfStretch(rs, i, s, m) ==
    /\ s = i \/ SwitchedAt(rs, s)
    /\ \A t \in (s + 1)..m : ~SwitchedAt(rs, t)
FiredFrom(rs, i) ==
    {f \in Triggers \X (i..Len(rs)) :
        \E s \in i..f[2] : OfStretch(rs, i, s, f[2]) /\ FiresAt(rs, s, f)}

\* A stretch ends where the playground changes, and nowhere before.
LEMMA StretchEndIs ==
    ASSUME NEW rs, AreRuns(rs), NEW a \in 1..Len(rs)
    PROVE  /\ StretchEnd(rs, a) \in a..Len(rs)
           /\ \A m \in (a + 1)..StretchEnd(rs, a) : ~SwitchedAt(rs, m)
           /\ StretchEnd(rs, a) < Len(rs) => SwitchedAt(rs, StretchEnd(rs, a) + 1)
<1>. DEFINE n == Len(rs)
            ends == {n} \cup {j \in a..(n - 1) : rs[j + 1].playground # rs[a].playground}
            e == StretchEnd(rs, a)
<1>1. n \in Nat /\ a \in 1..n /\ a \in Nat
  BY DEF AreRuns
<1>2. e \in ends /\ \A j \in ends : e <= j
  <2>1. ends \in SUBSET Nat /\ ends # {}
    BY <1>1
  <2>2. e = CHOOSE m \in ends : \A j \in ends : m <= j
    BY DEF StretchEnd, Min
  <2>. HIDE DEF ends, e
  <2>3. \E m \in ends : \A j \in ends : m <= j
    BY <2>1, LeastIsThere
  <2>. QED  BY <2>2, <2>3
<1>. HIDE DEF e
<1>3. e \in a..n /\ e \in Nat
  BY <1>1, <1>2
<1>4. ASSUME NEW m \in a..e PROVE rs[m].playground = rs[a].playground
  <2>1. CASE m = a
    BY <2>1
  <2>2. CASE m # a
    <3>1. m - 1 \in a..(n - 1) /\ m - 1 \in Nat /\ ~(e <= m - 1) /\ (m - 1) + 1 = m
      BY <1>1, <1>3, <2>2
    <3>. QED  BY <1>2, <3>1
  <2>. QED  BY <2>1, <2>2
<1>5. ASSUME NEW m \in (a + 1)..e PROVE ~SwitchedAt(rs, m)
  <2>1. m \in a..e /\ m - 1 \in a..e /\ m # 1
    BY <1>1, <1>3
  <2>. QED  BY <1>4, <2>1 DEF SwitchedAt
<1>6. ASSUME e < n PROVE SwitchedAt(rs, e + 1)
  <2>1. rs[e + 1].playground # rs[a].playground
    BY <1>1, <1>2, <1>3, <1>6
  <2>2. rs[e].playground = rs[a].playground
    BY <1>3, <1>4
  <2>3. (e + 1) - 1 = e
    BY <1>3
  <2>. QED  BY <2>1, <2>2, <2>3 DEF SwitchedAt
<1>. QED  BY <1>3, <1>5, <1>6 DEF e

\* The fires from a on are those of its stretch and those after it.
LEMMA FiresByStretch ==
    ASSUME NEW rs, AreRuns(rs), NEW a \in 1..Len(rs)
    PROVE  FiredFrom(rs, a) =
             FiredIn(rs, a, StretchEnd(rs, a)) \cup FiredFrom(rs, StretchEnd(rs, a) + 1)
<1>. DEFINE n == Len(rs)
            e == StretchEnd(rs, a)
<1>1. /\ n \in Nat /\ a \in Nat /\ a \in 1..n /\ e \in a..n /\ e \in Nat
      /\ \A m \in (a + 1)..e : ~SwitchedAt(rs, m)
      /\ e < n => SwitchedAt(rs, e + 1)
  BY StretchEndIs DEF AreRuns
<1>. HIDE DEF e
<1>2. ASSUME NEW f \in Triggers \X (a..n), NEW s \in a..f[2], OfStretch(rs, a, s, f[2]), FiresAt(rs, s, f)
      PROVE  f \in FiredIn(rs, a, e) \cup FiredFrom(rs, e + 1)
  <2>. DEFINE m == f[2]
  <2>1. m \in a..n /\ f[1] \in Triggers /\ f = <<f[1], m>>
    OBVIOUS
  <2>. HIDE DEF m
  <2>2. CASE m <= e
    <3>1. s = a
      <4>. SUFFICES ASSUME s # a PROVE FALSE
        OBVIOUS
      <4>1. s \in (a + 1)..e
        BY <1>1, <2>1, <2>2 DEF m
      <4>. QED  BY <1>1, <1>2, <4>1 DEF OfStretch
    <3>2. f \in Triggers \X (a..e)
      BY <1>1, <2>1, <2>2
    <3>. QED  BY <1>2, <3>1, <3>2 DEF FiredIn
  <2>3. CASE ~(m <= e)
    <3>1. e + 1 \in a..m /\ e < n /\ m \in (e + 1)..n
      BY <1>1, <2>1, <2>3
    <3>2. s >= e + 1
      <4>. SUFFICES ASSUME ~(s >= e + 1) PROVE FALSE
        OBVIOUS
      <4>1. e + 1 \in (s + 1)..m
        BY <1>1, <2>1, <3>1 DEF m
      <4>. QED  BY <1>1, <1>2, <3>1, <4>1 DEF OfStretch, m
    <3>3. s \in (e + 1)..f[2] /\ f \in Triggers \X ((e + 1)..n)
      BY <1>1, <2>1, <3>1, <3>2 DEF m
    <3>4. OfStretch(rs, e + 1, s, f[2])
      <4>1. CASE s = e + 1
        BY <1>2, <4>1 DEF OfStretch
      <4>2. CASE s # e + 1
        <5>1. s # a
          BY <1>1, <3>2, <4>2
        <5>. QED  BY <1>2, <5>1 DEF OfStretch
      <4>. QED  BY <4>1, <4>2
    <3>. QED  BY <1>2, <3>3, <3>4 DEF FiredFrom
  <2>. QED  BY <2>2, <2>3
<1>3. ASSUME NEW f \in FiredIn(rs, a, e) PROVE f \in FiredFrom(rs, a)
  <2>1. f \in Triggers \X (a..e) /\ FiresAt(rs, a, f)
    BY DEF FiredIn
  <2>2. f \in Triggers \X (a..n) /\ a \in a..f[2] /\ f[2] \in a..e
    BY <1>1, <2>1
  <2>3. OfStretch(rs, a, a, f[2])
    <3>1. \A t \in (a + 1)..f[2] : t \in (a + 1)..e
      BY <1>1, <2>2
    <3>. QED  BY <1>1, <3>1 DEF OfStretch
  <2>. QED  BY <2>1, <2>2, <2>3 DEF FiredFrom
<1>4. ASSUME NEW f \in FiredFrom(rs, e + 1) PROVE f \in FiredFrom(rs, a)
  <2>1. /\ f \in Triggers \X ((e + 1)..n)
        /\ \E s \in (e + 1)..f[2] : OfStretch(rs, e + 1, s, f[2]) /\ FiresAt(rs, s, f)
    BY DEF FiredFrom
  <2>2. PICK s \in (e + 1)..f[2] : OfStretch(rs, e + 1, s, f[2]) /\ FiresAt(rs, s, f)
    BY <2>1
  <2>3. f \in Triggers \X (a..n) /\ s \in a..f[2] /\ e < n
    BY <1>1, <2>1
  <2>4. OfStretch(rs, a, s, f[2])
    BY <1>1, <2>2, <2>3 DEF OfStretch
  <2>. QED  BY <2>2, <2>3, <2>4 DEF FiredFrom
<1>5. \A f \in FiredFrom(rs, a) : f \in FiredIn(rs, a, e) \cup FiredFrom(rs, e + 1)
  BY <1>2 DEF FiredFrom
<1>. QED  BY <1>3, <1>4, <1>5 DEF e

\* Over all playgrounds: what the table says, stretch by stretch.
LEMMA FiresAreThese ==
    ASSUME NEW rs, AreRuns(rs)
    PROVE  DetectRunTriggersByPlayground(rs) = FiredFrom(rs, 1)
<1>. DEFINE n == Len(rs)
            Step(g, i) == IF i > Len(rs) THEN {}
                          ELSE DetectRunTriggers(rs, i, StretchEnd(rs, i)) \cup g[StretchEnd(rs, i) + 1]
            fired == [i \in 1..(n + 1) |-> FiredFrom(rs, i)]
            from == CHOOSE g : g = [i \in 1..(Len(rs) + 1) |-> Step(g, i)]
<1>0. n \in Nat
  BY DEF AreRuns
<1>1. DetectRunTriggersByPlayground(rs) = from[1]
  BY DEF DetectRunTriggersByPlayground
<1>2. ASSUME NEW i \in 1..n PROVE StretchEnd(rs, i) \in i..n /\ StretchEnd(rs, i) + 1 \in 1..(n + 1)
  <2>1. StretchEnd(rs, i) \in i..n
    BY StretchEndIs
  <2>. HIDE DEF n
  <2>. QED  BY <1>0, <2>1
<1>3. ASSUME NEW i \in 1..(n + 1) PROVE FiredFrom(rs, i) = Step(fired, i)
  <2>1. CASE i > n
    <3>1. i..n = {}
      BY <1>0, <2>1
    <3>. QED  BY <2>1, <3>1 DEF FiredFrom
  <2>2. CASE ~(i > n)
    <3>1. i \in 1..n
      BY <1>0, <2>2
    <3>2. DetectRunTriggers(rs, i, StretchEnd(rs, i)) = FiredIn(rs, i, StretchEnd(rs, i))
      BY <1>2, <3>1, DetectedAre
    <3>3. fired[StretchEnd(rs, i) + 1] = FiredFrom(rs, StretchEnd(rs, i) + 1)
      BY <1>2, <3>1
    <3>. HIDE DEF fired
    <3>. QED  BY <2>2, <3>1, <3>2, <3>3, FiresByStretch
  <2>. QED  BY <2>1, <2>2
<1>4. from = [i \in 1..(n + 1) |-> Step(from, i)]
  <2>1. fired = [i \in 1..(n + 1) |-> Step(fired, i)]
    <3>. HIDE DEF Step
    <3>. QED  BY <1>3
  <2>. HIDE DEF fired, Step
  <2>2. \E g : g = [i \in 1..(n + 1) |-> Step(g, i)]
    BY <2>1
  <2>. QED  BY <2>2
<1>. DEFINE wrong == {d \in 0..n : \E i \in 1..(n + 1) : i + d = n + 1 /\ from[i] # FiredFrom(rs, i)}
<1>5. wrong = {}
  <2>. SUFFICES ASSUME wrong # {} PROVE FALSE
    OBVIOUS
  <2>. HIDE DEF from, Step
  <2>1. wrong \in SUBSET Nat
    BY <1>0
  <2>2. PICK d \in wrong : \A m \in wrong : d <= m
    <3>. HIDE DEF wrong
    <3>. QED  BY <2>1, LeastIsThere
  <2>3. PICK i \in 1..(n + 1) : i + d = n + 1 /\ from[i] # FiredFrom(rs, i)
    BY <2>2
  <2>4. from[i] = Step(from, i)
    BY <1>4
  <2>5. ~(i > n)
    BY <1>3, <2>3, <2>4 DEF Step
  <2>6. i \in 1..n
    BY <1>0, <2>5
  <2>. DEFINE j == StretchEnd(rs, i) + 1
  <2>7. j \in 1..(n + 1) /\ j > i
    BY <1>0, <1>2, <2>6
  <2>8. from[j] = FiredFrom(rs, j)
    <3>1. n + 1 - j \in 0..n /\ j + (n + 1 - j) = n + 1 /\ ~(d <= n + 1 - j)
      <4>. HIDE DEF j
      <4>. QED  BY <1>0, <2>1, <2>2, <2>3, <2>7
    <3>. HIDE DEF j
    <3>. QED  BY <2>2, <2>7, <3>1
  <2>9. fired[j] = FiredFrom(rs, j)
    <3>. HIDE DEF j
    <3>. QED  BY <2>7
  <2>10. Step(from, i) = Step(fired, i)
    <3>. HIDE DEF fired
    <3>. QED  BY <2>8, <2>9, Zenon DEF Step
  <2>. QED  BY <1>3, <2>3, <2>4, <2>10
<1>6. from[1] = FiredFrom(rs, 1)
  <2>. HIDE DEF from
  <2>1. n \in 0..n /\ 1 \in 1..(n + 1) /\ 1 + n = n + 1
    BY <1>0
  <2>. QED  BY <1>5, <2>1
<1>. QED  BY <1>1, <1>6

\* Every run is of one stretch, which is on its playground.
LEMMA StretchIsThere ==
    ASSUME NEW rs, NEW i \in Nat \ {0}
    PROVE  \E s \in 1..i : SwitchedAt(rs, s) /\ OfStretch(rs, 1, s, i)
<1>. DEFINE back == {b \in 0..(i - 1) : SwitchedAt(rs, i - b)}
<1>1. back \in SUBSET Nat /\ i - 1 \in back
  <2>1. i - 1 \in 0..(i - 1) /\ i - (i - 1) = 1
    OBVIOUS
  <2>. QED  BY <2>1 DEF SwitchedAt
<1>2. PICK b \in back : \A c \in back : b <= c
  <2>. HIDE DEF back
  <2>. QED  BY <1>1, LeastIsThere
<1>. DEFINE s == i - b
<1>3. s \in 1..i /\ SwitchedAt(rs, s) /\ b \in 0..(i - 1)
  OBVIOUS
<1>4. ASSUME NEW t \in (s + 1)..i PROVE ~SwitchedAt(rs, t)
  <2>1. i - t \in 0..(i - 1) /\ ~(b <= i - t) /\ i - (i - t) = t
    BY <1>3
  <2>2. i - t \notin back
    <3>. HIDE DEF back, s
    <3>. QED  BY <1>2, <2>1
  <2>. HIDE DEF s
  <2>. QED  BY <2>1, <2>2
<1>. HIDE DEF s
<1>. QED  BY <1>3, <1>4 DEF OfStretch

LEMMA StretchIsOnOnePlayground ==
    ASSUME NEW rs, NEW s \in Nat \ {0}, NEW i \in Nat, s <= i, OfStretch(rs, 1, s, i)
    PROVE  rs[s].playground = rs[i].playground
<1>. DEFINE elsewhere == {m \in s..i : rs[m].playground # rs[s].playground}
<1>1. elsewhere = {}
  <2>. SUFFICES ASSUME elsewhere # {} PROVE FALSE
    OBVIOUS
  <2>1. elsewhere \in SUBSET Nat
    OBVIOUS
  <2>2. PICK m \in elsewhere : \A j \in elsewhere : m <= j
    <3>. HIDE DEF elsewhere
    <3>. QED  BY <2>1, LeastIsThere
  <2>3. m \in (s + 1)..i /\ m - 1 \in s..i /\ ~(m <= m - 1) /\ m # 1
    OBVIOUS
  <2>4. rs[m - 1].playground = rs[s].playground
    BY <2>2, <2>3
  <2>. QED  BY <2>3, <2>4 DEF OfStretch, SwitchedAt
<1>2. i \in s..i
  OBVIOUS
<1>. QED  BY <1>1, <1>2

\* What fires at run i is told by its stretch.
LEMMA FiredByStretch ==
    ASSUME NEW rs, AreRuns(rs), NEW i \in 1..Len(rs), NEW s \in 1..i,
           SwitchedAt(rs, s), OfStretch(rs, 1, s, i), NEW t \in Triggers
    PROVE  <<t, i>> \in FiredFrom(rs, 1) <=> FiresAt(rs, s, <<t, i>>)
<1>1. Len(rs) \in Nat /\ i \in Nat /\ s \in Nat
  BY DEF AreRuns
<1>2. <<t, i>>[2] = i /\ <<t, i>> \in Triggers \X (1..Len(rs))
  OBVIOUS
<1>3. ASSUME NEW u \in 1..i, OfStretch(rs, 1, u, i) PROVE u = s
  <2>1. ~(u < s)
    <3>1. u < s => s \in (u + 1)..i
      BY <1>1
    <3>. QED  BY <1>3, <3>1 DEF OfStretch
  <2>2. ~(s < u)
    <3>1. s < u => u \in (s + 1)..i /\ u # 1
      BY <1>1
    <3>. QED  BY <1>3, <3>1 DEF OfStretch
  <2>. QED  BY <1>1, <2>1, <2>2
<1>4. <<t, i>> \in FiredFrom(rs, 1)
        <=> \E u \in 1..i : OfStretch(rs, 1, u, i) /\ FiresAt(rs, u, <<t, i>>)
  BY <1>2 DEF FiredFrom
<1>. QED  BY <1>3, <1>4

\* The rows of the README are those of the stretch.
LEMMA RowsAre ==
    ASSUME NEW i \in Nat \ {0}, NEW s \in 1..i, SwitchedAt(runs, s), OfStretch(runs, 1, s, i)
    PROVE  Zeros(i) = RowLength(runs, "zeros", s, i) /\ Edits(i) = RowLength(runs, "edits", s, i)
<1>. DEFINE same == {j \in 1..i : \A k \in (j + 1)..i : ~Switched(k)}
<1>1. same = s..i
  <2>1. ASSUME NEW j \in 1..i, \A k \in (j + 1)..i : ~Switched(k) PROVE j \in s..i
    <3>1. ~(j < s)
      <4>1. j < s => s \in (j + 1)..i
        OBVIOUS
      <4>. QED  BY <2>1, <4>1 DEF SwitchedAt, Switched
    <3>. QED  BY <3>1
  <2>2. ASSUME NEW j \in s..i PROVE j \in same
    <3>1. j \in 1..i /\ \A k \in (j + 1)..i : k \in (s + 1)..i
      OBVIOUS
    <3>. QED  BY <3>1 DEF OfStretch, SwitchedAt, Switched
  <2>. QED  BY <2>1, <2>2
<1>2. Zeros(i) = Cardinality({j \in same : runs[j].dist # NoDist /\ \A k \in j..i : runs[k].dist # NoDist
                                                                     => runs[k].dist = 0})
  BY DEF Zeros, InARow
<1>3. Edits(i) = Cardinality({j \in same : runs[j].dist # NoDist /\ \A k \in j..i : runs[k].dist # NoDist
                                                                     => runs[k].dist > 0})
  BY DEF Edits, InARow
<1>4. Zeros(i) = RowLength(runs, "zeros", s, i)
  <2>. HIDE DEF same
  <2>. QED  BY <1>1, <1>2 DEF RowLength, Row, Fits
<1>5. Edits(i) = RowLength(runs, "edits", s, i)
  <2>. HIDE DEF same
  <2>. QED  BY <1>1, <1>3 DEF RowLength, Row, Fits
<1>. QED  BY <1>4, <1>5

LEMMA TriggersFollowRows == AreRuns(runs) => TriggersMeanWhatTheySay
<1>. SUFFICES ASSUME AreRuns(runs), NEW i \in DOMAIN runs
     PROVE  LET d == runs[i].dist
            IN  /\ <<"wheel_spin", i>> \in Fires <=> d = 0 /\ Zeros(i) = WheelSpinZeroRuns
                /\ <<"resilience", i>> \in Fires
                     <=> d > 0 /\ i > 1 /\ ~Switched(i) /\ Zeros(i - 1) >= ResilienceZeroRuns
                /\ <<"explorer", i>> \in Fires <=> d >= ExplorerEditDistance
                /\ <<"iterative", i>> \in Fires
                     <=> d > 0 /\ Edits(i) = IterativeThreshold[runs[i].playground]
  BY DEF TriggersMeanWhatTheySay
<1>. DEFINE d == runs[i].dist
<1>1. i \in 1..Len(runs) /\ i \in Nat \ {0} /\ Len(runs) \in Nat
  BY DEF AreRuns
<1>2. PICK s \in 1..i : SwitchedAt(runs, s) /\ OfStretch(runs, 1, s, i)
  BY <1>1, StretchIsThere
<1>3. \A t \in Triggers : <<t, i>> \in Fires <=> FiresAt(runs, s, <<t, i>>)
  <2>1. Fires = FiredFrom(runs, 1)
    BY FiresAreThese DEF Fires
  <2>. QED  BY <1>1, <1>2, <2>1, FiredByStretch
<1>4. /\ FiresAt(runs, s, <<"wheel_spin", i>>)
           <=> d = 0 /\ RowLength(runs, "zeros", s, i) = WheelSpinZeroRuns
      /\ FiresAt(runs, s, <<"resilience", i>>)
           <=> d > 0 /\ RowLength(runs, "zeros", s, i - 1) >= ResilienceZeroRuns
      /\ FiresAt(runs, s, <<"explorer", i>>) <=> d >= ExplorerEditDistance
      /\ FiresAt(runs, s, <<"iterative", i>>)
           <=> d > 0 /\ RowLength(runs, "edits", s, i) = ThresholdAt(runs, s)
  BY DEF FiresAt
<1>5. Zeros(i) = RowLength(runs, "zeros", s, i) /\ Edits(i) = RowLength(runs, "edits", s, i)
  BY <1>1, <1>2, RowsAre
<1>6. ThresholdAt(runs, s) = IterativeThreshold[runs[i].playground]
  <2>1. s \in Nat \ {0} /\ s <= i /\ i \in Nat
    BY <1>1
  <2>2. runs[s].playground = runs[i].playground
    BY <1>2, <2>1, StretchIsOnOnePlayground
  <2>. QED  BY <2>2 DEF ThresholdAt
<1>7. RowLength(runs, "zeros", s, i - 1) >= ResilienceZeroRuns
        <=> i > 1 /\ ~Switched(i) /\ Zeros(i - 1) >= ResilienceZeroRuns
  <2>1. CASE s = i
    <3>1. Switched(i)
      BY <1>2, <2>1 DEF Switched, SwitchedAt
    <3>2. RowLength(runs, "zeros", s, i - 1) = 0
      BY <1>1, <2>1, RowIsShort
    <3>3. ResilienceZeroRuns \in Nat \ {0}
      BY DistanceAssumption
    <3>. QED  BY <3>1, <3>2, <3>3
  <2>2. CASE s # i
    <3>1. i \in (s + 1)..i /\ i > 1 /\ i - 1 \in Nat \ {0} /\ s \in 1..(i - 1)
      BY <1>1, <2>2
    <3>2. ~Switched(i)
      BY <1>2, <3>1 DEF OfStretch, Switched, SwitchedAt
    <3>3. OfStretch(runs, 1, s, i - 1)
      <4>1. \A t \in (s + 1)..(i - 1) : t \in (s + 1)..i
        BY <1>1
      <4>. QED  BY <1>2, <4>1 DEF OfStretch
    <3>4. Zeros(i - 1) = RowLength(runs, "zeros", s, i - 1)
      BY <1>2, <3>1, <3>3, RowsAre
    <3>. QED  BY <3>1, <3>2, <3>4
  <2>. QED  BY <2>1, <2>2
<1>. QED  BY <1>3, <1>4, <1>5, <1>6, <1>7 DEF Triggers

\* Further runs change nothing of what fired at those before.
LEMMA FiresStay ==
    ASSUME NEW rs, AreRuns(rs), NEW more, AreRuns(more), Len(rs) <= Len(more),
           \A i \in 1..Len(rs) : more[i] = rs[i]
    PROVE  FiredFrom(rs, 1) = {f \in FiredFrom(more, 1) : f[2] \in 1..Len(rs)}
<1>. DEFINE n == Len(rs)
<1>1. n \in Nat /\ Len(more) \in Nat
  BY DEF AreRuns
<1>2. ASSUME NEW kind, NEW a \in 1..n, NEW k \in 0..n
      PROVE  RowLength(more, kind, a, k) = RowLength(rs, kind, a, k)
  <2>1. \A j \in a..k : j \in 1..n /\ \A m \in j..k : m \in 1..n
    BY <1>1
  <2>2. Row(more, kind, a, k) = Row(rs, kind, a, k)
    BY <2>1 DEF Row
  <2>. QED  BY <2>2 DEF RowLength
<1>3. ASSUME NEW t \in Triggers, NEW k \in 1..n, NEW a \in 1..k
      PROVE  FiresAt(more, a, <<t, k>>) <=> FiresAt(rs, a, <<t, k>>)
  <2>1. a \in 1..n /\ k \in 0..n /\ k - 1 \in 0..n
    BY <1>1
  <2>2. \A kind : /\ RowLength(more, kind, a, k) = RowLength(rs, kind, a, k)
                  /\ RowLength(more, kind, a, k - 1) = RowLength(rs, kind, a, k - 1)
    BY <1>2, <2>1
  <2>3. ThresholdAt(more, a) = ThresholdAt(rs, a) /\ more[k] = rs[k]
    BY <2>1 DEF ThresholdAt
  <2>4. <<t, k>>[2] = k
    OBVIOUS
  <2>. QED  BY <2>2, <2>3, <2>4, Zenon DEF FiresAt
<1>4. ASSUME NEW m \in 1..n, NEW s \in 1..m
      PROVE  OfStretch(more, 1, s, m) <=> OfStretch(rs, 1, s, m)
  <2>1. ASSUME NEW t \in 1..n PROVE SwitchedAt(more, t) <=> SwitchedAt(rs, t)
    <3>1. t # 1 => t - 1 \in 1..n
      BY <1>1
    <3>. QED  BY <3>1 DEF SwitchedAt
  <2>2. s \in 1..n /\ \A t \in (s + 1)..m : t \in 1..n
    BY <1>1
  <2>. QED  BY <2>1, <2>2 DEF OfStretch
<1>5. ASSUME NEW f \in Triggers \X (1..n)
      PROVE  f \in FiredFrom(rs, 1) <=> f \in FiredFrom(more, 1)
  <2>. DEFINE m == f[2]
  <2>1. m \in 1..n /\ f[1] \in Triggers /\ f = <<f[1], m>> /\ f \in Triggers \X (1..Len(more))
    BY <1>1
  <2>2. \A s \in 1..m : /\ OfStretch(more, 1, s, m) <=> OfStretch(rs, 1, s, m)
                        /\ FiresAt(more, s, f) <=> FiresAt(rs, s, f)
    <3>. HIDE DEF m
    <3>1. \A s \in 1..m : FiresAt(more, s, <<f[1], m>>) <=> FiresAt(rs, s, <<f[1], m>>)
      BY <1>3, <2>1
    <3>. QED  BY <1>4, <2>1, <3>1
  <2>. QED  BY <2>1, <2>2 DEF FiredFrom
<1>6. FiredFrom(rs, 1) \subseteq Triggers \X (1..n)
  BY DEF FiredFrom
<1>7. \A f \in FiredFrom(more, 1) : f[2] \in 1..n => f \in Triggers \X (1..n)
  BY DEF FiredFrom
<1>8. \A f \in Triggers \X (1..n) : f[2] \in 1..n
  OBVIOUS
<1>. HIDE DEF n
<1>. QED  BY <1>5, <1>6, <1>7, <1>8 DEF n

\* The runs of a session are such runs, and a step adds at most one.
LEMMA RunsAreRuns == RunInvariant => AreRuns(runs)
<1>. SUFFICES ASSUME RunInvariant PROVE AreRuns(runs)
  OBVIOUS
<1>1. runs \in Seq(Run) /\ Len(runs) \in Nat /\ DOMAIN runs = 1..Len(runs)
  BY DEF RunInvariant
<1>2. ASSUME NEW i \in 1..Len(runs) PROVE runs[i].dist \in Nat \cup {NoDist}
  <2>1. CASE i = 1
    BY <1>1, <2>1 DEF RunInvariant, DistancesAreTrue, Switched
  <2>2. CASE i # 1
    <3>. DEFINE a == runs[i - 1].xml
                b == runs[i].xml
                e == EditDistance[a, b]
    <3>1. i \in 1..Len(runs) /\ i - 1 \in 1..Len(runs)
      BY <1>1, <2>2
    <3>2. a \in Xmls /\ b \in Xmls
      <4>1. runs[i - 1] \in Run /\ runs[i] \in Run
        BY <1>1, <3>1
      <4>. QED  BY <4>1 DEF Run
    <3>3. \A p \in Xmls \X Xmls : EditDistance[p] \in Nat
      BY DistanceAssumption, Zenon
    <3>4. runs[i].dist = NoDist \/ runs[i].dist = 0 \/ runs[i].dist = e
      BY <1>1, <3>1, Zenon DEF RunInvariant, DistancesAreTrue
    <3>. HIDE DEF a, b
    <3>5. e \in Nat
      BY <3>2, <3>3
    <3>. HIDE DEF e
    <3>. QED  BY <3>4, <3>5
  <2>. QED  BY <2>1, <2>2
<1>. QED  BY <1>1, <1>2 DEF AreRuns

LEMMA PushTakesNothingBack ==
    ASSUME RunInvariant, RunInvariant', NEW xml, NEW pg, PushRun(xml, pg)
    PROVE  Fires = {f \in Fires' : f[2] \in DOMAIN runs}
<1>1. PICK r : runs' = Append(runs, r)
  BY DEF PushRun
<1>2. AreRuns(runs) /\ AreRuns(runs')
  <2>1. RunInvariant' => (AreRuns(runs))'
    BY RunsAreRuns, PTL
  <2>. QED  BY <2>1, RunsAreRuns
<1>3. /\ Len(runs) \in Nat /\ Len(runs') = Len(runs) + 1 /\ DOMAIN runs = 1..Len(runs)
      /\ \A i \in 1..Len(runs) : runs'[i] = runs[i]
  BY <1>1 DEF RunInvariant
<1>4. FiredFrom(runs, 1) = {f \in FiredFrom(runs', 1) : f[2] \in 1..Len(runs)}
  BY <1>2, <1>3, FiresStay
<1>5. Fires = FiredFrom(runs, 1) /\ Fires' = FiredFrom(runs', 1)
  BY <1>2, FiresAreThese DEF Fires
<1>. QED  BY <1>3, <1>4, <1>5

-----------------------------------------------------------------------------
(***************************************************************************)
(* The members of a sequence that are in a set.                            *)
(***************************************************************************)
OnlyStep(s, S, f, i) ==
    IF i = 0 THEN <<>> ELSE IF s[i] \in S THEN Append(f[i - 1], s[i]) ELSE f[i - 1]
OnlyUpTo(s, S, f, n) == f = [i \in 0..n |-> OnlyStep(s, S, f, i)]

LEMMA OnlyExists ==
    ASSUME NEW s, NEW S, NEW n \in Nat
    PROVE  \E f : OnlyUpTo(s, S, f, n)
<1>. DEFINE bad == {m \in Nat : ~\E f : OnlyUpTo(s, S, f, m)}
<1>. SUFFICES ASSUME bad # {} PROVE FALSE
  OBVIOUS
<1>1. PICK m \in bad : \A k \in bad : m <= k
  <2>. HIDE DEF bad
  <2>1. bad \in SUBSET Nat
    BY DEF bad
  <2>. QED  BY <2>1, LeastIsThere
<1>2. m \in Nat /\ ~\E f : OnlyUpTo(s, S, f, m)
  OBVIOUS
<1>3. CASE m = 0
  <2>. DEFINE f == [i \in 0..0 |-> <<>>]
  <2>1. \A i \in 0..0 : OnlyStep(s, S, f, i) = <<>>
    BY DEF OnlyStep
  <2>2. f = [i \in 0..0 |-> OnlyStep(s, S, f, i)]
    <3>. HIDE DEF OnlyStep
    <3>. QED  BY <2>1
  <2>. HIDE DEF f
  <2>. QED  BY <1>2, <1>3, <2>2 DEF OnlyUpTo
<1>4. CASE m # 0
  <2>1. m - 1 \in Nat /\ ~(m <= m - 1)
    BY <1>2, <1>4
  <2>2. PICK f : OnlyUpTo(s, S, f, m - 1)
    BY <1>1, <2>1
  <2>. DEFINE g == [i \in 0..m |-> IF i = m THEN OnlyStep(s, S, f, m) ELSE f[i]]
  <2>3. \A i \in 0..(m - 1) : f[i] = OnlyStep(s, S, f, i) /\ g[i] = f[i]
    <3>1. \A i \in 0..(m - 1) : f[i] = OnlyStep(s, S, f, i)
      BY <2>2 DEF OnlyUpTo
    <3>2. \A i \in 0..(m - 1) : i \in 0..m /\ i # m
      BY <1>2
    <3>. QED  BY <3>1, <3>2
  <2>4. ASSUME NEW i \in 0..m PROVE g[i] = OnlyStep(s, S, g, i)
    <3>1. g[i] = OnlyStep(s, S, f, i)
      <4>1. i = m \/ i \in 0..(m - 1)
        BY <1>2
      <4>2. g[m] = OnlyStep(s, S, f, m)
        BY <1>2
      <4>. HIDE DEF g
      <4>. QED  BY <2>3, <4>1, <4>2
    <3>. HIDE DEF g
    <3>2. CASE i = 0
      BY <3>1, <3>2 DEF OnlyStep
    <3>3. CASE i # 0
      <4>1. i - 1 \in 0..(m - 1)
        BY <1>2, <3>3
      <4>2. g[i - 1] = f[i - 1]
        BY <2>3, <4>1
      <4>. QED  BY <3>1, <4>2 DEF OnlyStep
    <3>. QED  BY <3>2, <3>3
  <2>5. g = [i \in 0..m |-> OnlyStep(s, S, g, i)]
    <3>. DEFINE h(x) == OnlyStep(s, S, g, x)
    <3>1. \A i \in 0..m : g[i] = h(i)
      BY <2>4
    <3>2. g = [i \in 0..m |-> g[i]]
      OBVIOUS
    <3>. HIDE DEF g, h
    <3>3. g = [i \in 0..m |-> h(i)]
      BY <3>1, <3>2
    <3>. QED  BY <3>3 DEF h
  <2>. HIDE DEF g
  <2>. QED  BY <1>2, <2>5 DEF OnlyUpTo
<1>. QED  BY <1>3, <1>4

\* The intermediate results are the selections of the prefixes.
LEMMA OnlyOf ==
    ASSUME NEW s, NEW S, Len(s) \in Nat
    PROVE  \E f : OnlyUpTo(s, S, f, Len(s)) /\ Only(s, S) = f[Len(s)]
<1>. DEFINE F == CHOOSE f : f = [i \in 0..Len(s) |-> OnlyStep(s, S, f, i)]
<1>1. Only(s, S) = F[Len(s)]
  BY DEF Only, OnlyStep
<1>2. OnlyUpTo(s, S, F, Len(s))
  <2>1. \E f : f = [i \in 0..Len(s) |-> OnlyStep(s, S, f, i)]
    BY OnlyExists DEF OnlyUpTo
  <2>2. F = [i \in 0..Len(s) |-> OnlyStep(s, S, F, i)]
    <3>. HIDE DEF OnlyStep
    <3>. QED  BY <2>1
  <2>. HIDE DEF F
  <2>. QED  BY <2>2 DEF OnlyUpTo
<1>. HIDE DEF F
<1>. QED  BY <1>1, <1>2

\* They depend on the prefix only, and on which of its members are in the set.
LEMMA OnlyAgrees ==
    ASSUME NEW s, NEW S, NEW f, NEW n \in Nat, OnlyUpTo(s, S, f, n),
           NEW t, NEW T, NEW g, NEW m \in Nat, OnlyUpTo(t, T, g, m), m <= n,
           \A i \in 1..m : s[i] = t[i] /\ (s[i] \in S <=> t[i] \in T)
    PROVE  f[m] = g[m]
<1>. DEFINE bad == {k \in 0..m : f[k] # g[k]}
<1>. SUFFICES ASSUME bad # {} PROVE FALSE
  BY DEF bad
<1>1. PICK k \in bad : \A j \in bad : k <= j
  <2>. HIDE DEF bad
  <2>1. bad \in SUBSET Nat
    BY DEF bad
  <2>. QED  BY <2>1, LeastIsThere
<1>2. k \in 0..m /\ k \in 0..n /\ f[k] # g[k]
  OBVIOUS
<1>3. f[k] = OnlyStep(s, S, f, k) /\ g[k] = OnlyStep(t, T, g, k)
  BY <1>2 DEF OnlyUpTo
<1>4. k # 0
  BY <1>2, <1>3 DEF OnlyStep
<1>5. k - 1 \in 0..m /\ ~(k <= k - 1) /\ k \in 1..m
  BY <1>2, <1>4
<1>6. f[k - 1] = g[k - 1]
  BY <1>1, <1>5
<1>. QED  BY <1>2, <1>3, <1>4, <1>5, <1>6 DEF OnlyStep

LEMMA OnlyOfEmpty == ASSUME NEW S PROVE Only(<<>>, S) = <<>>
<1>. DEFINE s == <<>>
<1>1. Len(s) = 0
  OBVIOUS
<1>. HIDE DEF s
<1>2. PICK f : OnlyUpTo(s, S, f, Len(s)) /\ Only(s, S) = f[Len(s)]
  BY <1>1, OnlyOf
<1>3. f[0] = OnlyStep(s, S, f, 0)
  BY <1>1, <1>2 DEF OnlyUpTo
<1>. QED  BY <1>1, <1>2, <1>3 DEF OnlyStep, s

LEMMA OnlyOfLonger ==
    ASSUME NEW V, NEW s \in Seq(V), NEW e \in V, NEW S, NEW T,
           \A i \in 1..Len(s) : s[i] \in S <=> s[i] \in T
    PROVE  Only(Append(s, e), S) = IF e \in S THEN Append(Only(s, T), e) ELSE Only(s, T)
<1>. DEFINE t == Append(s, e)
            n == Len(s)
<1>1. /\ n \in Nat /\ Len(t) = n + 1 /\ t[n + 1] = e
      /\ \A i \in 1..n : t[i] = s[i]
  OBVIOUS
<1>. HIDE DEF t, n
<1>2. PICK f : OnlyUpTo(t, S, f, n + 1) /\ Only(t, S) = f[n + 1]
  BY <1>1, OnlyOf
<1>3. PICK g : OnlyUpTo(s, T, g, n) /\ Only(s, T) = g[n]
  BY <1>1, OnlyOf DEF n
<1>4. f[n] = g[n]
  BY <1>1, <1>2, <1>3, OnlyAgrees DEF n
<1>5. f[n + 1] = OnlyStep(t, S, f, n + 1)
  BY <1>1, <1>2 DEF OnlyUpTo
<1>6. f[n + 1] = IF e \in S THEN Append(f[n], e) ELSE f[n]
  <2>1. n + 1 # 0 /\ (n + 1) - 1 = n
    BY <1>1
  <2>. QED  BY <1>1, <1>5, <2>1 DEF OnlyStep
<1>. QED  BY <1>2, <1>3, <1>4, <1>6 DEF t

LEMMA OnlyType ==
    ASSUME NEW V, NEW s \in Seq(V), NEW S
    PROVE  Only(s, S) \in Seq(V)
<1>1. Len(s) \in Nat /\ \A i \in 1..Len(s) : s[i] \in V
  OBVIOUS
<1>2. PICK f : OnlyUpTo(s, S, f, Len(s)) /\ Only(s, S) = f[Len(s)]
  BY <1>1, OnlyOf
<1>. DEFINE bad == {k \in 0..Len(s) : f[k] \notin Seq(V)}
<1>. SUFFICES ASSUME bad # {} PROVE FALSE
  BY <1>1, <1>2
<1>3. PICK k \in bad : \A j \in bad : k <= j
  <2>. HIDE DEF bad
  <2>1. bad \in SUBSET Nat
    BY DEF bad
  <2>. QED  BY <2>1, LeastIsThere
<1>4. f[k] = OnlyStep(s, S, f, k) /\ k \in 0..Len(s) /\ f[k] \notin Seq(V)
  BY <1>2 DEF OnlyUpTo
<1>5. k # 0
  BY <1>4 DEF OnlyStep
<1>6. k - 1 \in 0..Len(s) /\ ~(k <= k - 1) /\ k \in 1..Len(s)
  BY <1>1, <1>4, <1>5
<1>7. f[k - 1] \in Seq(V) /\ s[k] \in V
  BY <1>1, <1>3, <1>6
<1>8. Append(f[k - 1], s[k]) \in Seq(V)
  BY <1>7
<1>. QED  BY <1>4, <1>5, <1>7, <1>8 DEF OnlyStep

-----------------------------------------------------------------------------
(***************************************************************************)
(* Runs and RUN episodes.                                                  *)
(***************************************************************************)
Event == [type : EventTypes, ts : Int]
Episode == [kind : {"CODE", "RUN", "RESET"}, start : Nat, end : Nat, startTs : Int, endTs : Int,
            soft : SUBSET Nat]

ProjectRuns(es) == Only(es, {ev \in ToSet(es) : ev.type = "runProject"})
EpisodeRuns(eps) == Only(eps, {ep \in ToSet(eps) : ep.kind = "RUN"})

LEMMA LongerEvents ==
    ASSUME NEW es \in Seq(Event), NEW e \in Event
    PROVE  /\ ProjectRuns(es) \in Seq(Event)
           /\ ProjectRuns(Append(es, e)) =
                IF e.type = "runProject" THEN Append(ProjectRuns(es), e) ELSE ProjectRuns(es)
<1>. DEFINE S == {ev \in ToSet(Append(es, e)) : ev.type = "runProject"}
            T == {ev \in ToSet(es) : ev.type = "runProject"}
<1>1. /\ Len(es) \in Nat /\ DOMAIN es = 1..Len(es)
      /\ DOMAIN Append(es, e) = 1..(Len(es) + 1)
      /\ \A i \in 1..Len(es) : i \in 1..(Len(es) + 1) /\ Append(es, e)[i] = es[i]
      /\ Len(es) + 1 \in 1..(Len(es) + 1) /\ Append(es, e)[Len(es) + 1] = e
  OBVIOUS
<1>2. \A i \in 1..Len(es) : es[i] \in S <=> es[i] \in T
  BY <1>1, Zenon DEF ToSet
<1>3. e \in S <=> e.type = "runProject"
  BY <1>1, Zenon DEF ToSet
<1>. HIDE DEF S, T
<1>4. Only(Append(es, e), S) = IF e \in S THEN Append(Only(es, T), e) ELSE Only(es, T)
  BY <1>2, OnlyOfLonger
<1>5. Only(es, T) \in Seq(Event)
  BY OnlyType
<1>. QED  BY <1>3, <1>4, <1>5 DEF ProjectRuns, S, T

LEMMA LongerEpisodes ==
    ASSUME NEW eps \in Seq(Episode), NEW e \in Episode
    PROVE  /\ EpisodeRuns(eps) \in Seq(Episode)
           /\ EpisodeRuns(Append(eps, e)) =
                IF e.kind = "RUN" THEN Append(EpisodeRuns(eps), e) ELSE EpisodeRuns(eps)
<1>. DEFINE S == {ep \in ToSet(Append(eps, e)) : ep.kind = "RUN"}
            T == {ep \in ToSet(eps) : ep.kind = "RUN"}
<1>1. /\ Len(eps) \in Nat /\ DOMAIN eps = 1..Len(eps)
      /\ DOMAIN Append(eps, e) = 1..(Len(eps) + 1)
      /\ \A i \in 1..Len(eps) : i \in 1..(Len(eps) + 1) /\ Append(eps, e)[i] = eps[i]
      /\ Len(eps) + 1 \in 1..(Len(eps) + 1) /\ Append(eps, e)[Len(eps) + 1] = e
  OBVIOUS
<1>2. \A i \in 1..Len(eps) : eps[i] \in S <=> eps[i] \in T
  BY <1>1, Zenon DEF ToSet
<1>3. e \in S <=> e.kind = "RUN"
  BY <1>1, Zenon DEF ToSet
<1>. HIDE DEF S, T
<1>4. Only(Append(eps, e), S) = IF e \in S THEN Append(Only(eps, T), e) ELSE Only(eps, T)
  BY <1>2, OnlyOfLonger
<1>5. Only(eps, T) \in Seq(Episode)
  BY OnlyType
<1>. QED  BY <1>3, <1>4, <1>5 DEF EpisodeRuns, S, T

\* The k-th of n runs is the k-th RUN episode.
Joined(es, eps, n) ==
    /\ Len(ProjectRuns(es)) = n /\ Len(EpisodeRuns(eps)) = n
    /\ \A k \in 1..n : EpisodeRuns(eps)[k].startTs = ProjectRuns(es)[k].ts

LEMMA JoinedByOtherEvent ==
    ASSUME NEW es \in Seq(Event), NEW eps \in Seq(Episode), NEW n \in Nat, Joined(es, eps, n),
           NEW e \in Event, e.type # "runProject"
    PROVE  Joined(Append(es, e), eps, n)
BY LongerEvents DEF Joined

LEMMA JoinedByExtension ==
    ASSUME NEW es \in Seq(Event), NEW eps \in Seq(Episode), NEW n \in Nat, NEW old \in Episode,
           Joined(es, Append(eps, old), n),
           NEW new \in Episode, new.kind = old.kind, new.startTs = old.startTs
    PROVE  Joined(es, Append(eps, new), n)
<1>1. /\ EpisodeRuns(eps) \in Seq(Episode)
      /\ EpisodeRuns(Append(eps, old)) =
           IF old.kind = "RUN" THEN Append(EpisodeRuns(eps), old) ELSE EpisodeRuns(eps)
      /\ EpisodeRuns(Append(eps, new)) =
           IF new.kind = "RUN" THEN Append(EpisodeRuns(eps), new) ELSE EpisodeRuns(eps)
  BY LongerEpisodes
<1>. DEFINE rs == EpisodeRuns(eps)
<1>2. CASE old.kind = "RUN"
  <2>1. /\ EpisodeRuns(Append(eps, old)) = Append(rs, old)
        /\ EpisodeRuns(Append(eps, new)) = Append(rs, new)
    BY <1>1, <1>2
  <2>. HIDE DEF rs
  <2>2. /\ Len(Append(rs, old)) = Len(Append(rs, new))
        /\ \A k \in 1..Len(Append(rs, old)) : Append(rs, new)[k].startTs = Append(rs, old)[k].startTs
    BY <1>1 DEF rs
  <2>. QED  BY <2>1, <2>2 DEF Joined
<1>3. CASE old.kind # "RUN"
  BY <1>1, <1>3 DEF Joined
<1>. QED  BY <1>2, <1>3

LEMMA JoinedByOtherEpisode ==
    ASSUME NEW es \in Seq(Event), NEW eps \in Seq(Episode), NEW n \in Nat, Joined(es, eps, n),
           NEW new \in Episode, new.kind # "RUN"
    PROVE  Joined(es, Append(eps, new), n)
BY LongerEpisodes DEF Joined

LEMMA JoinedByRun ==
    ASSUME NEW es \in Seq(Event), NEW eps \in Seq(Episode), NEW n \in Nat, Joined(es, eps, n),
           NEW e \in Event, e.type = "runProject",
           NEW new \in Episode, new.kind = "RUN", new.startTs = e.ts
    PROVE  Joined(Append(es, e), Append(eps, new), n + 1)
<1>1. /\ ProjectRuns(es) \in Seq(Event) /\ EpisodeRuns(eps) \in Seq(Episode)
      /\ ProjectRuns(Append(es, e)) = Append(ProjectRuns(es), e)
      /\ EpisodeRuns(Append(eps, new)) = Append(EpisodeRuns(eps), new)
  BY LongerEvents, LongerEpisodes
<1>. DEFINE rs == EpisodeRuns(eps)
            ps == ProjectRuns(es)
<1>. HIDE DEF rs, ps
<1>2. /\ ps \in Seq(Event) /\ rs \in Seq(Episode) /\ Len(ps) = n /\ Len(rs) = n
      /\ \A k \in 1..n : rs[k].startTs = ps[k].ts
  BY <1>1 DEF Joined, rs, ps
<1>3. /\ Len(Append(ps, e)) = n + 1 /\ Len(Append(rs, new)) = n + 1
      /\ \A k \in 1..n : Append(ps, e)[k] = ps[k] /\ Append(rs, new)[k] = rs[k]
      /\ Append(ps, e)[n + 1] = e /\ Append(rs, new)[n + 1] = new
  BY <1>2
<1>4. \A k \in 1..(n + 1) : Append(rs, new)[k].startTs = Append(ps, e)[k].ts
  <2>. SUFFICES ASSUME NEW k \in 1..(n + 1)
                PROVE  Append(rs, new)[k].startTs = Append(ps, e)[k].ts
    OBVIOUS
  <2>1. k \in 1..n \/ k = n + 1
    OBVIOUS
  <2>. QED  BY <1>2, <1>3, <2>1
<1>. QED  BY <1>1, <1>3, <1>4 DEF Joined, rs, ps

SegmenterTypes ==
    /\ events \in Seq(Event)
    /\ closed \in Seq(Episode)
    /\ open \in Episode \cup {NoEpisode}
    /\ open # NoEpisode => open.kind \in {"CODE", "RUN"}
    /\ window \in Nat

NewEpisode(type, ts) ==
    [kind |-> Kind(type), start |-> Count + 1, end |-> Count + 2,
     startTs |-> ts, endTs |-> ts, soft |-> {}]

LEMMA NewEpisodeType ==
    ASSUME SegmenterTypes, NEW type \in EventTypes, NEW ts \in Int, Kind(type) # "none"
    PROVE  NewEpisode(type, ts) \in Episode
<1>1. Count \in Nat
  BY DEF SegmenterTypes, Count
<1>2. Kind(type) \in {"CODE", "RUN", "RESET"}
  BY DEF Kind
<1>. QED  BY <1>1, <1>2 DEF NewEpisode, Episode

LEMMA ExtendedType ==
    ASSUME SegmenterTypes, open # NoEpisode, NEW type, NEW ts \in Int
    PROVE  /\ Extended(type, ts) \in Episode
           /\ Extended(type, ts).kind = open.kind
           /\ Extended(type, ts).startTs = open.startTs
<1>1. Count \in Nat /\ open \in Episode
  BY DEF SegmenterTypes, Count
<1>. DEFINE marked == IF type \in Soft THEN open.soft \cup {Count + 1} ELSE open.soft
<1>2. marked \in SUBSET Nat
  BY <1>1 DEF Episode
<1>3. Extended(type, ts) = [open EXCEPT !.end = Count + 2, !.endTs = ts, !.soft = marked]
  BY DEF Extended
<1>. HIDE DEF marked
<1>4. Count + 2 \in Nat
  BY <1>1
<1>. QED  BY <1>1, <1>2, <1>3, <1>4 DEF Episode

\* The three ways in which an event is taken.
LEMMA EventTaken ==
    ASSUME SegmenterTypes, NEW type \in EventTypes, NEW ts \in Int, SegmenterPush(type, ts)
    PROVE  /\ SegmenterTypes'
           /\ \/ /\ open # NoEpisode /\ type # "runProject"
                 /\ Result.episodes = Append(closed, open)
                 /\ Result.episodes' = Append(closed, Extended(type, ts))
              \/ /\ Kind(type) = "none"
                 /\ Result.episodes' = Result.episodes
              \/ /\ Kind(type) # "none"
                 /\ Result.episodes' = Append(Result.episodes, NewEpisode(type, ts))
<1>. DEFINE ext == Extended(type, ts)
            new == NewEpisode(type, ts)
            before == IF open = NoEpisode THEN closed ELSE Append(closed, open)
<1>0. Result.episodes = before /\ before \in Seq(Episode)
      /\ Result.episodes' = IF open' = NoEpisode THEN closed' ELSE Append(closed', open')
  BY DEF Result, SegmenterTypes
<1>1. events' \in Seq(Event) /\ window' \in Nat
  <2>1. [type |-> type, ts |-> ts] \in Event
    BY DEF Event
  <2>. QED  BY <2>1 DEF SegmenterPush, SegmenterTypes
<1>2. \A ep \in Episode : ep # NoEpisode
  BY DEF Episode, NoEpisode
<1>3. CASE Absorb(type, ts)
  <2>1. open # NoEpisode /\ type # "runProject"
    BY <1>3 DEF Absorb, GoesOn, Absorbs, Soft
  <2>2. ext \in Episode /\ ext.kind = open.kind
    BY <2>1, ExtendedType
  <2>3. open' = ext /\ closed' = closed
    BY <1>3 DEF Absorb
  <2>. HIDE DEF ext
  <2>. QED  BY <1>0, <1>1, <1>2, <2>1, <2>2, <2>3 DEF SegmenterTypes, ext
<1>4. CASE EndRunEpisode(type, ts)
  <2>1. open # NoEpisode /\ type = "projectEnd"
    BY <1>4 DEF EndRunEpisode, EndsRun
  <2>2. ext \in Episode /\ ext.kind = open.kind
    BY <2>1, ExtendedType
  <2>3. open' = NoEpisode /\ closed' = Append(closed, ext)
    BY <1>4 DEF EndRunEpisode
  <2>. HIDE DEF ext
  <2>. QED  BY <1>0, <1>1, <1>2, <2>1, <2>2, <2>3 DEF SegmenterTypes, ext
<1>5. CASE CloseAndOpen(type, ts)
  <2>1. /\ closed' = IF new.kind = "RESET" THEN Append(before, new) ELSE before
        /\ open' = IF new.kind \in {"CODE", "RUN"} THEN new ELSE NoEpisode
    BY <1>5 DEF CloseAndOpen, NewEpisode
  <2>2. new.kind = Kind(type) /\ Kind(type) \in {"CODE", "RUN", "RESET", "none"}
    BY DEF NewEpisode, Kind
  <2>3. Kind(type) # "none" => new \in Episode
    BY NewEpisodeType
  <2>. HIDE DEF new, before
  <2>4. CASE Kind(type) = "none"
    BY <1>0, <1>1, <2>1, <2>2, <2>4 DEF SegmenterTypes
  <2>5. CASE Kind(type) = "RESET"
    BY <1>0, <1>1, <2>1, <2>2, <2>3, <2>5 DEF SegmenterTypes, new
  <2>6. CASE Kind(type) \in {"CODE", "RUN"}
    BY <1>0, <1>1, <1>2, <2>1, <2>2, <2>3, <2>6 DEF SegmenterTypes, new
  <2>. QED  BY <2>2, <2>4, <2>5, <2>6
<1>. QED  BY <1>3, <1>4, <1>5 DEF SegmenterPush

\* One event: a run is joined with the episode it opens.
LEMMA PushJoins ==
    ASSUME SegmenterTypes, NEW type \in EventTypes, NEW ts \in Int, SegmenterPush(type, ts),
           NEW n \in Nat, Joined(events, Result.episodes, n)
    PROVE  Joined(events', Result.episodes', IF type = "runProject" THEN n + 1 ELSE n)
<1>. DEFINE e == [type |-> type, ts |-> ts]
            eps == Result.episodes
<1>1. events' = Append(events, e) /\ events \in Seq(Event) /\ closed \in Seq(Episode)
  BY DEF SegmenterPush, SegmenterTypes
<1>2. e \in Event /\ e.type = type /\ e.ts = ts
  BY DEF Event
<1>3. eps \in Seq(Episode)
  BY DEF Result, SegmenterTypes
<1>4. (type = "runProject" <=> Kind(type) = "RUN") /\ (Kind(type) = "none" => type # "runProject")
  BY DEF Kind
<1>. HIDE DEF e, eps
<1>5. CASE /\ open # NoEpisode /\ type # "runProject"
           /\ Result.episodes = Append(closed, open)
           /\ Result.episodes' = Append(closed, Extended(type, ts))
  <2>. DEFINE ext == Extended(type, ts)
  <2>1. ext \in Episode /\ ext.kind = open.kind /\ ext.startTs = open.startTs /\ open \in Episode
    BY <1>5, ExtendedType DEF SegmenterTypes
  <2>. HIDE DEF ext
  <2>2. Joined(events, Append(closed, ext), n)
    BY <1>1, <1>5, <2>1, JoinedByExtension
  <2>3. Append(closed, ext) \in Seq(Episode)
    BY <1>1, <2>1
  <2>4. Joined(events', Append(closed, ext), n)
    BY <1>1, <1>2, <1>5, <2>2, <2>3, JoinedByOtherEvent
  <2>. QED  BY <1>5, <2>4 DEF ext
<1>6. CASE Kind(type) = "none" /\ Result.episodes' = Result.episodes
  BY <1>1, <1>2, <1>3, <1>4, <1>6, JoinedByOtherEvent DEF eps
<1>7. CASE Kind(type) # "none" /\ Result.episodes' = Append(Result.episodes, NewEpisode(type, ts))
  <2>. DEFINE new == NewEpisode(type, ts)
  <2>1. new \in Episode /\ new.kind = Kind(type) /\ new.startTs = ts
    BY <1>7, NewEpisodeType DEF NewEpisode
  <2>2. Result.episodes' = Append(eps, new) /\ Joined(events, eps, n)
    BY <1>7 DEF eps
  <2>. HIDE DEF new
  <2>3. CASE type = "runProject"
    BY <1>1, <1>2, <1>3, <1>4, <2>1, <2>2, <2>3, JoinedByRun
  <2>4. CASE type # "runProject"
    <3>1. Joined(Append(events, e), eps, n)
      BY <1>1, <1>2, <1>3, <2>2, <2>4, JoinedByOtherEvent
    <3>2. Append(events, e) \in Seq(Event)
      BY <1>1, <1>2
    <3>3. Joined(Append(events, e), Append(eps, new), n)
      BY <1>3, <1>4, <2>1, <2>4, <3>1, <3>2, JoinedByOtherEpisode
    <3>. QED  BY <1>1, <2>2, <2>4, <3>3
  <2>. QED  BY <2>3, <2>4
<1>. QED  BY <1>5, <1>6, <1>7, EventTaken

\* forget_before keeps types, and from then on the window is not the whole session.
LEMMA ForgettingKeepsTypes ==
    ASSUME SegmenterTypes, NEW i \in Nat, ForgetBefore(i)
    PROVE  SegmenterTypes' /\ window' >= i
<1>1. window' \in Nat /\ window' >= i
  <2>1. \E m \in {window, i} : \A k \in {window, i} : m >= k
    BY DEF SegmenterTypes
  <2>2. window' = Max({window, i})
    BY DEF ForgetBefore
  <2>3. window' \in {window, i} /\ \A k \in {window, i} : window' >= k
    BY <2>1, <2>2 DEF Max
  <2>. QED  BY <2>3 DEF SegmenterTypes
<1>2. closed' \in Seq(Episode)
  BY OnlyType DEF ForgetBefore, SegmenterTypes
<1>. QED  BY <1>1, <1>2 DEF ForgetBefore, SegmenterTypes

-----------------------------------------------------------------------------
(***************************************************************************)
(* The session.                                                            *)
(***************************************************************************)

\* Every step of the session is a step of the tracker or leaves it alone, whatever the
\* events, the polls and the host's calls that come between.
THEOREM SessionTracks == SessionSpec => TrackerSpec
<1>1. SessionInit => TrackerInit
  BY DEF SessionInit
<1>2. SessionNext => [TrackerNext]_trackerVars
  <2>1. ASSUME NEW ev, Push(ev) PROVE [TrackerNext]_trackerVars
    BY <2>1 DEF Push, TrackerNext
  <2>2. HostTracks => TrackerNext
    BY DEF HostTracks, TrackerNext
  <2>3. HostPolls \/ TimePasses \/ HostForgets \/ HostClears => UNCHANGED trackerVars
    BY DEF HostPolls, TimePasses, HostForgets, HostClears
  <2>. QED  BY <2>1, <2>2, <2>3 DEF SessionNext
<1>3. UNCHANGED sessionVars => UNCHANGED trackerVars
  BY DEF sessionVars
<1>. QED  BY <1>1, <1>2, <1>3, PTL DEF SessionSpec, TrackerSpec

\* In a live session too the stacks shown active are those that can run, the rebuild comes
\* to no block twice, and ...
THEOREM SessionSplitIsExact == SessionSpec => []LiveIsWhatRuns /\ EachBlockOnce
BY SessionTracks, SplitIsExact, NoBlockTwice

\* ... what the host reads off the maps is what the latest workspace can run.
THEOREM SessionActiveIsExact == SessionSpec => []ActiveIsWhatRuns
BY SessionTracks, ActiveIsExact

-----------------------------------------------------------------------------
\* The runs of the distances are joined with the episodes, as long as none was forgotten.
SegmenterInvariant == SegmenterTypes /\ (window = 0 => Joined(events, Result.episodes, Len(runs)))

SessionInvariant ==
    workload \in Workloads /\ AlertInvariant /\ RunInvariant /\ SegmenterInvariant

LEMMA SegmenterStarts == SegmenterInit /\ RunsInit => SegmenterInvariant
<1>. SUFFICES ASSUME SegmenterInit, RunsInit PROVE SegmenterInvariant
  OBVIOUS
<1>1. SegmenterTypes
  BY DEF SegmenterInit, SegmenterTypes
<1>2. Result.episodes = <<>> /\ events = <<>> /\ runs = <<>>
  BY DEF SegmenterInit, RunsInit, Result
<1>3. ProjectRuns(<<>>) = <<>> /\ EpisodeRuns(<<>>) = <<>>
  BY OnlyOfEmpty DEF ProjectRuns, EpisodeRuns
<1>. QED  BY <1>1, <1>2, <1>3 DEF SegmenterInvariant, Joined

LEMMA SegmenterKept ==
    SegmenterInvariant /\ UNCHANGED <<segmenterVars, runs>> => SegmenterInvariant'
<1>. SUFFICES ASSUME SegmenterInvariant, UNCHANGED <<segmenterVars, runs>> PROVE SegmenterInvariant'
  OBVIOUS
<1>1. UNCHANGED <<events, closed, open, inactive, postRun, awaiting, window, runs>>
  BY DEF segmenterVars
<1>. QED  BY <1>1, Zenon DEF SegmenterInvariant, SegmenterTypes, Result

LEMMA SessionStarts == SessionInit => SessionInvariant
BY AlertStarts, RunsStart, SegmenterStarts DEF SessionInit, SessionInvariant

\* What an event does to the alerts and to the runs.
LEMMA EventsAreTaken ==
    ASSUME SessionInvariant, NEW ev \in workload.events, Push(ev)
    PROVE  SessionInvariant'
<1>1. ev.gap \in Nat /\ workload' = workload /\ workload \in Workloads
  BY WorkloadAssumption DEF SessionInvariant, Push
<1>2. AlertInvariant'
  <2>1. now' = now + ev.gap /\ Act(ev.timed)
    BY DEF Push
  <2>2. now' \in Nat /\ now' >= now
    BY <1>1, <2>1 DEF SessionInvariant, AlertInvariant, FiresInOrder
  <2>3. UNCHANGED <<fires, polled>> /\ (lastEvent' = now' \/ lastEvent' = lastEvent)
    BY <2>1 DEF Act
  <2>. QED  BY <2>2, <2>3, TimeMovesOn DEF SessionInvariant
<1>3. RunInvariant'
  <2>1. CASE ev.type = "runProject"
    <3>1. ev.xml \in Xmls /\ ev.playground \in Playgrounds \cup {NoPlayground}
      BY <1>1, <2>1, WorkloadAssumption
    <3>. QED  BY <2>1, <3>1, PushedRunIsTrue DEF Push, SessionInvariant
  <2>2. CASE ev.type # "runProject"
    BY <2>2, RunsKept DEF Push, SessionInvariant
  <2>. QED  BY <2>1, <2>2
<1>4. SegmenterInvariant'
  <2>. DEFINE ts == IF ev.timed THEN now' ELSE NoTs
  <2>1. ev.type \in EventTypes
    BY <1>1, WorkloadAssumption
  <2>2. ts \in Int
    BY <1>2 DEF AlertInvariant, FiresInOrder, NoTs
  <2>3. SegmenterPush(ev.type, ts)
    BY DEF Push
  <2>. HIDE DEF ts
  <2>4. SegmenterTypes'
    BY <2>1, <2>2, <2>3, EventTaken DEF SessionInvariant, SegmenterInvariant
  <2>5. ASSUME window' = 0 PROVE Joined(events', Result.episodes', Len(runs'))
    <3>1. window = 0 /\ SegmenterTypes /\ Joined(events, Result.episodes, Len(runs)) /\ Len(runs) \in Nat
      BY <2>3, <2>5 DEF SessionInvariant, SegmenterInvariant, SegmenterPush, RunInvariant
    <3>2. Joined(events', Result.episodes', IF ev.type = "runProject" THEN Len(runs) + 1 ELSE Len(runs))
      BY <2>1, <2>2, <2>3, <3>1, PushJoins
    <3>3. CASE ev.type = "runProject"
      <4>1. PICK r : runs' = Append(runs, r)
        BY <3>3 DEF Push, PushRun
      <4>2. Len(runs') = Len(runs) + 1
        BY <4>1 DEF SessionInvariant, RunInvariant
      <4>. QED  BY <3>2, <3>3, <4>2
    <3>4. CASE ev.type # "runProject"
      BY <3>2, <3>4 DEF Push, runVars
    <3>. QED  BY <3>3, <3>4
  <2>. QED  BY <2>4, <2>5 DEF SegmenterInvariant
<1>. QED  BY <1>1, <1>2, <1>3, <1>4 DEF SessionInvariant

LEMMA SessionGoesOn == SessionInvariant /\ [SessionNext]_sessionVars => SessionInvariant'
<1>. SUFFICES ASSUME SessionInvariant, [SessionNext]_sessionVars PROVE SessionInvariant'
  OBVIOUS
<1>1. ASSUME NEW ev \in workload.events, Push(ev) PROVE SessionInvariant'
  BY <1>1, EventsAreTaken
<1>2. CASE HostTracks
  BY <1>2, RunsKept, AlertsKept, SegmenterKept DEF HostTracks, SessionInvariant, runVars
<1>3. CASE HostPolls
  BY <1>3, RunsKept, PollStores, SegmenterKept DEF HostPolls, SessionInvariant, runVars
<1>4. CASE TimePasses
  <2>1. now' \in Nat /\ now' >= now /\ UNCHANGED <<fires, polled>> /\ lastEvent' = lastEvent
    BY <1>4 DEF TimePasses, Tick, SessionInvariant, AlertInvariant, FiresInOrder
  <2>. QED  BY <1>4, <2>1, RunsKept, TimeMovesOn, SegmenterKept DEF TimePasses, SessionInvariant, runVars
<1>5. CASE HostForgets
  <2>1. PICK i \in 2..Count : ForgetBefore(i)
    BY <1>5 DEF HostForgets
  <2>2. i \in Nat /\ i # 0 /\ SegmenterTypes
    BY DEF SessionInvariant, SegmenterInvariant, SegmenterTypes, Count
  <2>3. SegmenterTypes' /\ window' # 0
    BY <2>1, <2>2, ForgettingKeepsTypes DEF SegmenterTypes
  <2>4. SegmenterInvariant'
    BY <2>3 DEF SegmenterInvariant
  <2>. QED  BY <1>5, <2>4, RunsKept, AlertsKept DEF HostForgets, SessionInvariant
<1>6. CASE HostClears
  BY <1>6, ClearingIsHarmless, AlertsKept, SegmenterKept DEF HostClears, ClearCache, SessionInvariant
<1>7. CASE UNCHANGED sessionVars
  BY <1>7, RunsKept, AlertsKept, SegmenterKept DEF sessionVars, SessionInvariant, runVars
<1>. QED  BY <1>1, <1>2, <1>3, <1>4, <1>5, <1>6, <1>7 DEF SessionNext

LEMMA SessionInvariantHolds == SessionSpec => []SessionInvariant
BY SessionStarts, SessionGoesOn, PTL DEF SessionSpec

\* An idle student has an alert that is of this idleness and not too old, nobody is
\* alerted twice for the same idleness and no two fires share an index, whenever the host
\* polls and whatever the events.
THEOREM IdlenessIsAlertedOnce == SessionSpec => []AlertsFollowIdleness
<1>1. SessionInvariant => AlertsFollowIdleness
  BY DEF SessionInvariant, AlertInvariant
<1>. QED  BY <1>1, SessionInvariantHolds, PTL

\* Every run's distance is the true one to the run before it, None exactly where the
\* docstring says, for every size of the cache and whenever it is cleared.
THEOREM CachedDistancesAreTrue == SessionSpec => []DistancesAreTrue
<1>1. SessionInvariant => DistancesAreTrue
  BY DEF SessionInvariant, RunInvariant
<1>. QED  BY <1>1, SessionInvariantHolds, PTL

\* The four triggers fire at exactly the runs the README's table names, however the runs
\* are spread over playgrounds: a row of re-runs or edits is counted over the runs that
\* were compared, fires once, at the run that completes it, and is armed again by the
\* run that ends it.
THEOREM TriggersFollowTheTable == SessionSpec => []TriggersMeanWhatTheySay
<1>1. SessionInvariant => TriggersMeanWhatTheySay
  BY RunsAreRuns, TriggersFollowRows DEF SessionInvariant
<1>. QED  BY <1>1, SessionInvariantHolds, PTL

\* A host that polls late or polls twice sees the same fires: detecting again after
\* further runs adds fires at those runs only and takes none back.
THEOREM FiresStandForGood == SessionSpec => FiresAreFinal
<1>1. SessionInvariant /\ SessionInvariant' /\ [SessionNext]_sessionVars
        => [Fires = {f \in Fires' : f[2] \in DOMAIN runs}]_runs
  <2>. SUFFICES ASSUME SessionInvariant, SessionInvariant', [SessionNext]_sessionVars,
                       runs' # runs
                PROVE  Fires = {f \in Fires' : f[2] \in DOMAIN runs}
    OBVIOUS
  <2>1. PICK ev \in workload.events : Push(ev)
    BY DEF SessionNext, HostTracks, HostPolls, TimePasses, HostForgets, HostClears, ClearCache,
           runVars, sessionVars
  <2>2. PushRun(ev.xml, ev.playground)
    BY <2>1 DEF Push, runVars
  <2>. QED  BY <2>2, PushTakesNothingBack DEF SessionInvariant
<1>. QED  BY <1>1, SessionInvariantHolds, PTL DEF SessionSpec, FiresAreFinal

\* The two counts of a session's runs agree: the k-th run of the distances is the k-th RUN
\* episode, whatever events, pauses and playground switches come between them, until the
\* host forgets episodes.
THEOREM RunsAreEpisodes == SessionSpec => []RunsJoinEpisodes
<1>1. SessionInvariant => RunsJoinEpisodes
  <2>. SUFFICES ASSUME SessionInvariant PROVE RunsJoinEpisodes
    OBVIOUS
  <2>1. window = 0 => Joined(events, Result.episodes, Len(runs))
    BY DEF SessionInvariant, SegmenterInvariant
  <2>2. DOMAIN runs = 1..Len(runs)
    BY DEF SessionInvariant, RunInvariant
  <2>. QED  BY <2>1, <2>2, Zenon DEF RunsJoinEpisodes, Joined, ProjectRuns, EpisodeRuns
<1>. QED  BY <1>1, SessionInvariantHolds, PTL

-----------------------------------------------------------------------------
(***************************************************************************)
(* Sequences that rise: f tells where their members belong.                *)
(***************************************************************************)
Rising(s, f) == \A i, j \in 1..Len(s) : i < j => f[s[i]] < f[s[j]]

LEMMA RisingIsDistinct ==
    ASSUME NEW V, NEW f \in [V -> Int], NEW s \in Seq(V), Rising(s, f),
           NEW i \in 1..Len(s), NEW j \in 1..Len(s)
    PROVE  /\ i < j <=> f[s[i]] < f[s[j]]
           /\ s[i] = s[j] => i = j
<1>1. f[s[i]] \in Int /\ f[s[j]] \in Int /\ i \in Int /\ j \in Int
  OBVIOUS
<1>2. /\ i < j => f[s[i]] < f[s[j]]
      /\ j < i => f[s[j]] < f[s[i]]
  BY DEF Rising
<1>. QED  BY <1>1, <1>2

\* There is one way to line up a set.
LEMMA RisingIsUnique ==
    ASSUME NEW V, NEW f \in [V -> Int], NEW s \in Seq(V), NEW t \in Seq(V),
           Rising(s, f), Rising(t, f), ToSet(s) = ToSet(t)
    PROVE  s = t
<1>1. /\ Len(s) \in Nat /\ DOMAIN s = 1..Len(s) /\ \A i \in 1..Len(s) : s[i] \in V
      /\ Len(t) \in Nat /\ DOMAIN t = 1..Len(t) /\ \A i \in 1..Len(t) : t[i] \in V
  OBVIOUS
<1>2. /\ \A i \in 1..Len(s) : \E j \in 1..Len(t) : s[i] = t[j]
      /\ \A i \in 1..Len(t) : \E j \in 1..Len(s) : t[i] = s[j]
  BY <1>1, Zenon DEF ToSet
<1>. DEFINE bad == {k \in Nat : /\ k \in 1..Len(s) \/ k \in 1..Len(t)
                                /\ ~(k \in 1..Len(s) /\ k \in 1..Len(t) /\ s[k] = t[k])}
<1>3. bad = {}
  <2>. SUFFICES ASSUME bad # {} PROVE FALSE
    OBVIOUS
  <2>1. PICK k \in bad : \A j \in bad : k <= j
    <3>. HIDE DEF bad
    <3>1. bad \in SUBSET Nat
      BY DEF bad
    <3>. QED  BY <3>1, LeastIsThere
  <2>2. /\ k \in Nat /\ (k \in 1..Len(s) \/ k \in 1..Len(t))
        /\ ~(k \in 1..Len(s) /\ k \in 1..Len(t) /\ s[k] = t[k])
    OBVIOUS
  <2>3. \A i \in Nat : i < k /\ (i \in 1..Len(s) \/ i \in 1..Len(t))
                         => i \in 1..Len(s) /\ i \in 1..Len(t) /\ s[i] = t[i]
    BY <2>1, <2>2
  <2>. HIDE DEF bad
  <2>4. k \in 1..Len(s) => \E j \in 1..Len(t) : s[k] = t[j] /\ k < j
    <3>. SUFFICES ASSUME k \in 1..Len(s) PROVE \E j \in 1..Len(t) : s[k] = t[j] /\ k < j
      OBVIOUS
    <3>1. PICK j \in 1..Len(t) : s[k] = t[j]
      BY <1>2
    <3>2. j # k
      BY <2>2, <3>1
    <3>3. ~(j < k)
      <4>1. j < k => s[j] = t[j] /\ j \in 1..Len(s)
        BY <2>3
      <4>2. j < k => j = k
        BY <3>1, <4>1, RisingIsDistinct
      <4>. QED  BY <3>2, <4>2
    <3>. QED  BY <2>2, <3>1, <3>2, <3>3
  <2>5. k \in 1..Len(t) => \E j \in 1..Len(s) : t[k] = s[j] /\ k < j
    <3>. SUFFICES ASSUME k \in 1..Len(t) PROVE \E j \in 1..Len(s) : t[k] = s[j] /\ k < j
      OBVIOUS
    <3>1. PICK j \in 1..Len(s) : t[k] = s[j]
      BY <1>2
    <3>2. j # k
      BY <2>2, <3>1
    <3>3. ~(j < k)
      <4>1. j < k => t[j] = s[j] /\ j \in 1..Len(t)
        BY <2>3
      <4>2. j < k => j = k
        BY <3>1, <4>1, RisingIsDistinct, SMTT(40)
      <4>. QED  BY <3>2, <4>2
    <3>. QED  BY <2>2, <3>1, <3>2, <3>3
  <2>6. k \in 1..Len(s) /\ k \in 1..Len(t)
    BY <1>1, <2>2, <2>4, <2>5
  <2>7. PICK i \in 1..Len(t) : s[k] = t[i] /\ k < i
    BY <2>4, <2>6
  <2>8. PICK j \in 1..Len(s) : t[k] = s[j] /\ k < j
    BY <2>5, <2>6
  <2>9. f[t[k]] < f[s[k]] /\ f[s[k]] < f[t[k]]
    BY <2>6, <2>7, <2>8 DEF Rising
  <2>10. f[t[k]] \in Int /\ f[s[k]] \in Int
    BY <1>1, <2>6
  <2>. QED  BY <2>9, <2>10
<1>4. \A k \in 1..Len(s) : k \in 1..Len(t) /\ s[k] = t[k]
  <2>1. ASSUME NEW k \in 1..Len(s) PROVE k \in 1..Len(t) /\ s[k] = t[k]
    <3>. HIDE DEF bad
    <3>1. k \notin bad
      BY <1>3
    <3>2. k \in Nat
      BY <1>1
    <3>. QED  BY <3>1, <3>2 DEF bad
  <2>. QED  BY <2>1
<1>5. \A k \in 1..Len(t) : k \in 1..Len(s)
  <2>1. ASSUME NEW k \in 1..Len(t) PROVE k \in 1..Len(s)
    <3>. HIDE DEF bad
    <3>1. k \notin bad
      BY <1>3
    <3>2. k \in Nat
      BY <1>1
    <3>. QED  BY <3>1, <3>2 DEF bad
  <2>. QED  BY <2>1
<1>. HIDE DEF bad
<1>6. Len(s) = Len(t)
  <2>1. /\ Len(s) # 0 => Len(s) \in 1..Len(s)
        /\ Len(t) # 0 => Len(t) \in 1..Len(t)
    BY <1>1
  <2>2. Len(s) <= Len(t) /\ Len(t) <= Len(s)
    BY <1>1, <1>4, <1>5, <2>1
  <2>. DEFINE m == Len(s)
              n == Len(t)
  <2>3. m \in Int /\ n \in Int /\ m <= n /\ n <= m
    BY <1>1, <2>2
  <2>4. m = n
    <3>. HIDE DEF m, n
    <3>. QED  BY <2>3
  <2>. QED  BY <2>4
<1>. QED  BY <1>1, <1>4, <1>6

LEMMA RisingWithOneMore ==
    ASSUME NEW V, NEW f \in [V -> Int], NEW s \in Seq(V), Rising(s, f),
           NEW v \in V, \A x \in ToSet(s) : f[x] < f[v]
    PROVE  /\ Append(s, v) \in Seq(V) /\ Rising(Append(s, v), f)
           /\ ToSet(Append(s, v)) = ToSet(s) \cup {v}
<1>. DEFINE t == Append(s, v)
            n == Len(s)
<1>1. /\ n \in Nat /\ DOMAIN s = 1..n /\ t \in Seq(V) /\ Len(t) = n + 1 /\ DOMAIN t = 1..(n + 1)
      /\ t[n + 1] = v /\ \A i \in 1..n : t[i] = s[i] /\ s[i] \in V
  OBVIOUS
<1>. HIDE DEF t, n
<1>2. ToSet(t) = ToSet(s) \cup {v}
  <2>1. \A i \in 1..(n + 1) : i \in 1..n \/ i = n + 1
    BY <1>1
  <2>2. \A i \in 1..n : i \in 1..(n + 1)
    BY <1>1
  <2>3. n + 1 \in 1..(n + 1)
    BY <1>1
  <2>. QED  BY <1>1, <2>1, <2>2, <2>3, Zenon DEF ToSet
<1>3. ASSUME NEW i \in 1..(n + 1), NEW j \in 1..(n + 1), i < j PROVE f[t[i]] < f[t[j]]
  <2>1. i \in 1..n
    BY <1>1, <1>3
  <2>2. s[i] \in ToSet(s)
    BY <1>1, <2>1, Zenon DEF ToSet
  <2>3. CASE j \in 1..n
    BY <1>1, <1>3, <2>1, <2>3 DEF Rising, n
  <2>4. CASE j = n + 1
    BY <1>1, <2>1, <2>2, <2>4
  <2>. QED  BY <1>1, <2>3, <2>4
<1>4. Rising(t, f)
  BY <1>1, <1>3 DEF Rising
<1>. QED  BY <1>1, <1>2, <1>4 DEF t

\* A selection from a sequence that rises.
LEMMA OnlyRises ==
    ASSUME NEW V, NEW f \in [V -> Int], NEW s \in Seq(V), Rising(s, f), NEW S
    PROVE  /\ Only(s, S) \in Seq(V) /\ Rising(Only(s, S), f)
           /\ ToSet(Only(s, S)) = ToSet(s) \cap S
<1>. DEFINE n == Len(s)
            Set(k) == {x \in V : \E i \in 1..k : s[i] = x /\ x \in S}
<1>1. n \in Nat /\ DOMAIN s = 1..n /\ \A i \in 1..n : s[i] \in V
  OBVIOUS
<1>2. PICK g : OnlyUpTo(s, S, g, n) /\ Only(s, S) = g[n]
  BY <1>1, OnlyOf
<1>. DEFINE Good(k) == g[k] \in Seq(V) /\ Rising(g[k], f) /\ ToSet(g[k]) = Set(k)
            bad == {k \in 0..n : ~Good(k)}
<1>3. bad = {}
  <2>. SUFFICES ASSUME bad # {} PROVE FALSE
    OBVIOUS
  <2>1. PICK k \in bad : \A j \in bad : k <= j
    <3>. HIDE DEF bad
    <3>1. bad \in SUBSET Nat
      BY <1>1 DEF bad
    <3>. QED  BY <3>1, LeastIsThere
  <2>2. k \in 0..n /\ ~Good(k)
    OBVIOUS
  <2>. HIDE DEF n
  <2>3. g[k] = OnlyStep(s, S, g, k)
    BY <1>2, <2>2 DEF OnlyUpTo
  <2>4. CASE k = 0
    <3>1. g[k] = <<>>
      BY <2>3, <2>4 DEF OnlyStep
    <3>2. Set(k) = {}
      BY <2>4
    <3>3. ToSet(<<>>) = {} /\ <<>> \in Seq(V) /\ Rising(<<>>, f)
      BY DEF ToSet, Rising
    <3>. QED  BY <2>2, <3>1, <3>2, <3>3
  <2>5. CASE k # 0
    <3>1. k - 1 \in 0..n /\ ~(k <= k - 1) /\ k \in 1..n
      BY <1>1, <2>2, <2>5
    <3>2. Good(k - 1)
      <4>1. k - 1 \notin bad
        BY <2>1, <3>1
      <4>. HIDE DEF Good
      <4>. QED  BY <3>1, <4>1
    <3>3. g[k] = IF s[k] \in S THEN Append(g[k - 1], s[k]) ELSE g[k - 1]
      BY <2>3, <2>5 DEF OnlyStep
    <3>4. Set(k) = IF s[k] \in S THEN Set(k - 1) \cup {s[k]} ELSE Set(k - 1)
      <4>1. \A i \in Int : i \in 1..k <=> (i \in 1..(k - 1) \/ i = k)
        BY <3>1
      <4>2. \A x \in V : (\E i \in 1..k : s[i] = x /\ x \in S)
                          <=> (\E i \in 1..(k - 1) : s[i] = x /\ x \in S) \/ (s[k] = x /\ x \in S)
        BY <4>1
      <4>3. s[k] \in V
        BY <1>1, <3>1
      <4>. QED  BY <4>2, <4>3
    <3>5. \A x \in Set(k - 1) : f[x] < f[s[k]]
      <4>. SUFFICES ASSUME NEW i \in 1..(k - 1) PROVE f[s[i]] < f[s[k]]
        OBVIOUS
      <4>1. i \in 1..n /\ i < k
        BY <1>1, <3>1
      <4>. QED  BY <3>1, <4>1 DEF Rising, n
    <3>6. s[k] \in V
      BY <1>1, <3>1
    <3>. HIDE DEF Set
    <3>7. CASE s[k] \in S
      <4>1. /\ g[k - 1] \in Seq(V) /\ Rising(g[k - 1], f) /\ ToSet(g[k - 1]) = Set(k - 1)
            /\ \A x \in ToSet(g[k - 1]) : f[x] < f[s[k]]
        BY <3>2, <3>5
      <4>. DEFINE more == Append(g[k - 1], s[k])
      <4>2. more \in Seq(V) /\ Rising(more, f) /\ ToSet(more) = ToSet(g[k - 1]) \cup {s[k]}
        <5>. DEFINE h == g[k - 1]
                    v == s[k]
        <5>1. h \in Seq(V) /\ Rising(h, f) /\ v \in V /\ \A x \in ToSet(h) : f[x] < f[v]
          BY <3>6, <4>1
        <5>. HIDE DEF h, v, more
        <5>2. /\ Append(h, v) \in Seq(V) /\ Rising(Append(h, v), f)
              /\ ToSet(Append(h, v)) = ToSet(h) \cup {v}
          BY <5>1, RisingWithOneMore, SMTT(40)
        <5>. QED  BY <5>2 DEF more, h, v
      <4>3. g[k] = more /\ Set(k) = Set(k - 1) \cup {s[k]}
        BY <3>3, <3>4, <3>7
      <4>. HIDE DEF more
      <4>. QED  BY <2>2, <4>1, <4>2, <4>3
    <3>8. CASE s[k] \notin S
      BY <2>2, <3>2, <3>3, <3>4, <3>8
    <3>. QED  BY <3>7, <3>8
  <2>. QED  BY <2>4, <2>5
<1>4. Good(n)
  <2>. HIDE DEF Good
  <2>. QED  BY <1>1, <1>3
<1>5. Set(n) = ToSet(s) \cap S
  BY <1>1 DEF ToSet
<1>. QED  BY <1>2, <1>4, <1>5

\* Whatever rises and is from a sequence that rises is a selection from it.
LEMMA RisingIsSelected ==
    ASSUME NEW V, NEW f \in [V -> Int], NEW all \in Seq(V), Rising(all, f),
           NEW kept \in Seq(V), Rising(kept, f), ToSet(kept) \subseteq ToSet(all)
    PROVE  kept = Only(all, ToSet(kept))
<1>. DEFINE s == Only(all, ToSet(kept))
<1>1. s \in Seq(V) /\ Rising(s, f) /\ ToSet(s) = ToSet(all) \cap ToSet(kept)
  BY OnlyRises
<1>. HIDE DEF s
<1>2. ToSet(s) = ToSet(kept)
  BY <1>1
<1>. QED  BY <1>1, <1>2, RisingIsUnique DEF s

-----------------------------------------------------------------------------
(***************************************************************************)
(* Pauses in their order.                                                  *)
(***************************************************************************)
PauseType == [type : {"INACTIVE_PAUSE", "POST_RUN_PAUSE"}, after : Int, duration : Int]
PausedAfter == [p \in PauseType |-> p.after]

LEMMA AfterIs == PausedAfter \in [PauseType -> Int] /\ \A p \in PauseType : PausedAfter[p] = p.after /\ p.after \in Int
BY DEF PausedAfter, PauseType

\* The pauses of s that are not behind the i-th.
NotBehind(s, i) ==
    {j \in DOMAIN s : s[j].after < s[i].after \/ (s[j].after = s[i].after /\ j <= i)}

LEMMA PlacesAre ==
    ASSUME NEW s \in Seq(PauseType),
           \A i, j \in 1..Len(s) : s[i].after = s[j].after => i = j
    PROVE  /\ \A i \in 1..Len(s) : Place(s, i) \in 1..Len(s)
           /\ \A i, j \in 1..Len(s) : s[i].after < s[j].after => Place(s, i) < Place(s, j)
           /\ \A k \in 1..Len(s) : \E i \in 1..Len(s) : Place(s, i) = k
<1>. DEFINE n == Len(s)
            at(i) == s[i].after
<1>1. n \in Nat /\ DOMAIN s = 1..n /\ \A i \in 1..n : at(i) \in Int
  <2>1. \A i \in 1..n : s[i] \in PauseType
    OBVIOUS
  <2>. QED  BY <2>1, AfterIs
<1>2. \A i \in 1..n : Place(s, i) = Cardinality(NotBehind(s, i))
  BY DEF Place, NotBehind
<1>3. \A i \in 1..n : NotBehind(s, i) = {j \in 1..n : at(j) <= at(i)}
  BY <1>1 DEF NotBehind
<1>. HIDE DEF n, at
<1>4. IsFiniteSet(1..n) /\ Cardinality(1..n) = n
  BY <1>1, FS_Interval
<1>5. ASSUME NEW i \in 1..n
      PROVE  /\ NotBehind(s, i) \in SUBSET (1..n) /\ i \in NotBehind(s, i)
             /\ IsFiniteSet(NotBehind(s, i)) /\ Place(s, i) \in 1..n
  <2>1. NotBehind(s, i) \in SUBSET (1..n) /\ i \in NotBehind(s, i)
    BY <1>1, <1>3
  <2>2. IsFiniteSet(NotBehind(s, i)) /\ Cardinality(NotBehind(s, i)) <= n
    <3>. DEFINE S == 1..n
                T == NotBehind(s, i)
    <3>1. IsFiniteSet(S) /\ T \in SUBSET S /\ Cardinality(S) = n
      BY <1>4, <2>1
    <3>. HIDE DEF S, T
    <3>2. IsFiniteSet(T) /\ Cardinality(T) <= Cardinality(S)
      BY <3>1, FS_Subset
    <3>. QED  BY <3>1, <3>2 DEF T
  <2>3. Cardinality(NotBehind(s, i)) \in Nat /\ Cardinality(NotBehind(s, i)) # 0
    BY <2>1, <2>2, FS_CardinalityType, FS_EmptySet
  <2>. QED  BY <1>1, <1>2, <2>1, <2>2, <2>3
<1>6. ASSUME NEW i \in 1..n, NEW j \in 1..n, at(i) < at(j)
      PROVE  Place(s, i) < Place(s, j)
  <2>1. NotBehind(s, i) \in SUBSET NotBehind(s, j) /\ j \notin NotBehind(s, i) /\ j \in NotBehind(s, j)
    BY <1>1, <1>3, <1>6
  <2>2. /\ Cardinality(NotBehind(s, i)) <= Cardinality(NotBehind(s, j))
        /\ Cardinality(NotBehind(s, j)) = Cardinality(NotBehind(s, i)) => NotBehind(s, j) = NotBehind(s, i)
    BY <1>5, <2>1, FS_Subset
  <2>3. Cardinality(NotBehind(s, i)) \in Int /\ Cardinality(NotBehind(s, j)) \in Int
    BY <1>5, FS_CardinalityType
  <2>. QED  BY <1>2, <2>1, <2>2, <2>3
<1>7. ASSUME NEW k \in 1..n PROVE \E i \in 1..n : Place(s, i) = k
  <2>. DEFINE P == [i \in 1..n |-> Place(s, i)]
  <2>1. P \in [1..n -> 1..n]
    BY <1>5
  <2>2. ASSUME NEW i \in 1..n, NEW j \in 1..n, P[i] = P[j] PROVE i = j
    <3>1. Place(s, i) = Place(s, j) /\ Place(s, i) \in Int
      BY <1>5, <2>2
    <3>2. at(i) = at(j)
      BY <1>1, <1>6, <3>1
    <3>. QED  BY <3>2 DEF at, n
  <2>. HIDE DEF P
  <2>3. P \in Injection(1..n, 1..n)
    BY <2>1, <2>2 DEF Injection, IsInjective
  <2>4. P \in Surjection(1..n, 1..n)
    BY <1>4, <2>3, FS_Injection
  <2>5. \E i \in 1..n : P[i] = k
    BY <2>4 DEF Surjection
  <2>. QED  BY <2>5 DEF P
<1>. QED  BY <1>5, <1>6, <1>7 DEF at, n

\* Sorting pauses of different places.
LEMMA OrderedIs ==
    ASSUME NEW s \in Seq(PauseType),
           \A i, j \in 1..Len(s) : s[i].after = s[j].after => i = j
    PROVE  /\ Ordered(s) \in Seq(PauseType) /\ Rising(Ordered(s), PausedAfter)
           /\ ToSet(Ordered(s)) = ToSet(s)
<1>. DEFINE n == Len(s)
            at(k) == CHOOSE i \in 1..n : Place(s, i) = k
            t == Ordered(s)
<1>1. n \in Nat /\ DOMAIN s = 1..n /\ \A i \in 1..n : s[i] \in PauseType
  OBVIOUS
<1>2. /\ \A i \in 1..n : Place(s, i) \in 1..n
      /\ \A i, j \in 1..n : s[i].after < s[j].after => Place(s, i) < Place(s, j)
      /\ \A k \in 1..n : \E i \in 1..n : Place(s, i) = k
  BY PlacesAre
<1>3. t = [k \in 1..n |-> s[at(k)]]
  BY <1>1 DEF Ordered
<1>4. \A k \in 1..n : at(k) \in 1..n /\ Place(s, at(k)) = k
  BY <1>2
<1>. HIDE DEF at, t, n
<1>5. t \in Seq(PauseType) /\ Len(t) = n /\ DOMAIN t = 1..n
  BY <1>1, <1>3, <1>4
<1>6. ASSUME NEW k \in 1..n, NEW l \in 1..n, k < l PROVE PausedAfter[t[k]] < PausedAfter[t[l]]
  <2>1. /\ at(k) \in 1..n /\ at(l) \in 1..n /\ t[k] = s[at(k)] /\ t[l] = s[at(l)]
        /\ Place(s, at(k)) = k /\ Place(s, at(l)) = l
    BY <1>3, <1>4
  <2>2. /\ s[at(k)] \in PauseType /\ s[at(l)] \in PauseType
    BY <1>1, <2>1
  <2>3. /\ PausedAfter[t[k]] = s[at(k)].after /\ PausedAfter[t[l]] = s[at(l)].after
        /\ s[at(k)].after \in Int /\ s[at(l)].after \in Int
    BY <2>1, <2>2, AfterIs
  <2>4. s[at(k)].after # s[at(l)].after
    BY <1>6, <2>1 DEF n
  <2>5. ~(s[at(l)].after < s[at(k)].after)
    <3>1. ~(l < k)
      BY <1>1, <1>6
    <3>2. s[at(l)].after < s[at(k)].after => Place(s, at(l)) < Place(s, at(k))
      BY <1>2, <2>1
    <3>3. s[at(l)].after < s[at(k)].after => l < k
      BY <2>1, <3>2
    <3>. QED  BY <3>1, <3>3
  <2>. QED  BY <2>3, <2>4, <2>5
<1>7. Rising(t, PausedAfter)
  BY <1>5, <1>6 DEF Rising
<1>8. ToSet(t) = ToSet(s)
  <2>1. \A k \in 1..n : \E i \in 1..n : t[k] = s[i]
    BY <1>3, <1>4
  <2>2. \A i \in 1..n : \E k \in 1..n : t[k] = s[i]
    <3>. SUFFICES ASSUME NEW i \in 1..n PROVE \E k \in 1..n : t[k] = s[i]
      OBVIOUS
    <3>. DEFINE k == Place(s, i)
    <3>1. k \in 1..n /\ at(k) \in 1..n /\ Place(s, at(k)) = k
      BY <1>2, <1>4
    <3>2. ~(s[i].after < s[at(k)].after) /\ ~(s[at(k)].after < s[i].after)
      <4>1. ~(k < k)
        BY <3>1
      <4>. QED  BY <1>2, <3>1, <4>1
    <3>3. s[i].after \in Int /\ s[at(k)].after \in Int
      BY <1>1, <3>1, AfterIs
    <3>4. i = at(k)
      <4>1. s[i].after = s[at(k)].after
        BY <3>2, <3>3
      <4>. QED  BY <3>1, <4>1 DEF n
    <3>. QED  BY <1>3, <3>1, <3>4
  <2>3. ToSet(t) = {t[k] : k \in 1..n} /\ ToSet(s) = {s[i] : i \in 1..n}
    BY <1>1, <1>5 DEF ToSet
  <2>4. \A x \in ToSet(t) : x \in ToSet(s)
    BY <2>1, <2>3
  <2>5. \A x \in ToSet(s) : x \in ToSet(t)
    BY <2>2, <2>3
  <2>. QED  BY <2>4, <2>5
<1>. QED  BY <1>5, <1>7, <1>8 DEF t

LEMMA InOrderIs ==
    ASSUME NEW S \in SUBSET PauseType, IsFiniteSet(S),
           \A p, q \in S : p.after = q.after => p = q
    PROVE  /\ InOrder(S) \in Seq(PauseType) /\ Rising(InOrder(S), PausedAfter)
           /\ ToSet(InOrder(S)) = S
<1>. DEFINE n == Cardinality(S)
            s == SetToSeq(S)
<1>1. n \in Nat /\ ExistsBijection(1..n, S)
  BY FS_CardinalityType
<1>2. PICK b : b \in Bijection(1..n, S)
  BY <1>1 DEF ExistsBijection
<1>3. /\ b \in [1..n -> S] /\ \A i, j \in 1..n : b[i] = b[j] => i = j
  BY <1>2 DEF Bijection, Injection, IsInjective
<1>4. s \in [1..n -> S] /\ IsInjective(s)
  <2>1. IsInjective(b)
    BY <1>3 DEF IsInjective
  <2>2. s = CHOOSE f \in [1..n -> S] : IsInjective(f)
    BY DEF SetToSeq
  <2>3. \E f \in [1..n -> S] : IsInjective(f)
    BY <1>3, <2>1
  <2>. HIDE DEF s, n
  <2>. QED  BY <2>2, <2>3
<1>. HIDE DEF s
<1>5. s \in Injection(1..n, S)
  BY <1>4 DEF Injection
<1>6. Cardinality(1..n) = n
  BY <1>1, FS_Interval
<1>7. s \in Surjection(1..n, S)
  BY <1>5, <1>6, FS_Injection
<1>. HIDE DEF n
<1>8. s \in Seq(PauseType) /\ Len(s) = n /\ DOMAIN s = 1..n
  BY <1>1, <1>4
<1>9. ToSet(s) = S
  <2>1. \A p \in S : \E i \in 1..n : s[i] = p
    BY <1>7 DEF Surjection
  <2>2. \A i \in 1..n : s[i] \in S
    BY <1>4
  <2>. QED  BY <1>8, <2>1, <2>2 DEF ToSet
<1>10. \A i, j \in 1..Len(s) : s[i].after = s[j].after => i = j
  <2>1. \A i, j \in 1..n : s[i] = s[j] => i = j
    BY <1>4, <1>8 DEF IsInjective
  <2>2. \A i \in 1..n : s[i] \in S
    BY <1>4
  <2>. QED  BY <1>8, <2>1, <2>2
<1>. QED  BY <1>8, <1>9, <1>10, OrderedIs DEF InOrder, s

-----------------------------------------------------------------------------
(***************************************************************************)
(* An episode of the batch form, and what a further event does to it.      *)
(***************************************************************************)

\* The episode that starts at i absorbs no event at j.
StopsAt(es, i, j) == \/ IsInactive(es[j - 1].ts, es[j].ts)
                     \/ ~Absorbs(Kind(es[i].type), es[j].type)
Marks(es, i, last) == {j \in (i + 1)..last : es[j].type \in Soft}

LEMMA StopIs ==
    ASSUME NEW es \in Seq(Event), NEW i \in 1..Len(es)
    PROVE  /\ Stop(es, i) \in (i + 1)..(Len(es) + 1)
           /\ \A j \in (i + 1)..(Stop(es, i) - 1) : ~StopsAt(es, i, j)
           /\ Stop(es, i) <= Len(es) => StopsAt(es, i, Stop(es, i))
<1>. DEFINE n == Len(es)
            stops == {n + 1} \cup {j \in (i + 1)..n : StopsAt(es, i, j)}
            m == Stop(es, i)
<1>1. n \in Nat /\ i \in 1..n /\ i \in Nat
  OBVIOUS
<1>2. m \in stops /\ \A j \in stops : m <= j
  <2>1. stops \in SUBSET Nat /\ stops # {}
    BY <1>1
  <2>2. m = CHOOSE k \in stops : \A j \in stops : k <= j
    BY DEF Stop, StopsAt, Min
  <2>. HIDE DEF stops, m
  <2>3. \E k \in stops : \A j \in stops : k <= j
    BY <2>1, LeastIsThere
  <2>. QED  BY <2>2, <2>3
<1>. HIDE DEF m, n
<1>3. m \in (i + 1)..(n + 1)
  BY <1>1, <1>2
<1>4. ASSUME NEW j \in (i + 1)..(m - 1) PROVE ~StopsAt(es, i, j)
  <2>1. j \in (i + 1)..n /\ ~(m <= j)
    BY <1>1, <1>3
  <2>. QED  BY <1>2, <2>1
<1>5. m <= n => StopsAt(es, i, m)
  BY <1>1, <1>2
<1>. QED  BY <1>3, <1>4, <1>5 DEF m, n

LEMMA StopIsThis ==
    ASSUME NEW es \in Seq(Event), NEW i \in 1..Len(es), NEW m \in (i + 1)..(Len(es) + 1),
           \A j \in (i + 1)..(m - 1) : ~StopsAt(es, i, j),
           m <= Len(es) => StopsAt(es, i, m)
    PROVE  Stop(es, i) = m
<1>. DEFINE k == Stop(es, i)
<1>1. /\ k \in (i + 1)..(Len(es) + 1)
      /\ \A j \in (i + 1)..(k - 1) : ~StopsAt(es, i, j)
      /\ k <= Len(es) => StopsAt(es, i, k)
  BY StopIs
<1>. HIDE DEF k
<1>2. Len(es) \in Nat /\ k \in Nat /\ m \in Nat
  BY <1>1
<1>3. ~(k < m)
  <2>1. k < m => k \in (i + 1)..(m - 1) /\ k <= Len(es)
    BY <1>1, <1>2
  <2>. QED  BY <1>1, <2>1
<1>4. ~(m < k)
  <2>1. m < k => m \in (i + 1)..(k - 1) /\ m <= Len(es)
    BY <1>1, <1>2
  <2>. QED  BY <1>1, <2>1
<1>. QED  BY <1>2, <1>3, <1>4 DEF k

\* Where an episode of this kind ends that stops at m.
EndAt(es, kind, i, m) ==
    CASE kind = "RESET" -> i + 1
      [] kind = "RUN" /\ m <= Len(es) /\ es[m].type = "projectEnd"
           /\ ~IsInactive(es[m - 1].ts, es[m].ts) -> m + 1
      [] OTHER -> m
EpisodeTo(es, i, end) ==
    [kind |-> Kind(es[i].type), start |-> i, end |-> end, startTs |-> es[i].ts,
     endTs |-> es[end - 1].ts, soft |-> Marks(es, i, end - 1)]

LEMMA EpisodeIs ==
    ASSUME NEW es, NEW i
    PROVE  EpisodeAt(es, i) = EpisodeTo(es, i, EndAt(es, Kind(es[i].type), i, Stop(es, i)))
BY DEF EpisodeAt, EpisodeTo, EndAt, Marks

LEMMA EpisodeEnds ==
    ASSUME NEW es \in Seq(Event), NEW i \in 1..Len(es)
    PROVE  EpisodeAt(es, i).end \in (i + 1)..(Len(es) + 1)
<1>1. Stop(es, i) \in (i + 1)..(Len(es) + 1) /\ Len(es) \in Nat
  BY StopIs
<1>2. EndAt(es, Kind(es[i].type), i, Stop(es, i)) \in (i + 1)..(Len(es) + 1)
  BY <1>1 DEF EndAt
<1>3. EpisodeAt(es, i).end = EndAt(es, Kind(es[i].type), i, Stop(es, i))
  BY EpisodeIs DEF EpisodeTo
<1>. QED  BY <1>2, <1>3

LEMMA EpisodeType ==
    ASSUME NEW es \in Seq(Event), NEW i \in 1..Len(es), Kind(es[i].type) # "none"
    PROVE  /\ EpisodeAt(es, i) \in Episode
           /\ EpisodeAt(es, i).start = i /\ EpisodeAt(es, i).kind = Kind(es[i].type)
<1>. DEFINE end == EndAt(es, Kind(es[i].type), i, Stop(es, i))
<1>1. EpisodeAt(es, i) = EpisodeTo(es, i, end)
  BY EpisodeIs
<1>2. end \in (i + 1)..(Len(es) + 1)
  BY <1>1, EpisodeEnds DEF EpisodeTo
<1>. HIDE DEF end
<1>3. Len(es) \in Nat /\ end - 1 \in 1..Len(es) /\ end \in Nat /\ i \in Nat
  BY <1>2
<1>4. es[i] \in Event /\ es[end - 1] \in Event
  BY <1>3
<1>5. es[i].ts \in Int /\ es[end - 1].ts \in Int
  BY <1>4 DEF Event
<1>6. Kind(es[i].type) \in {"CODE", "RUN", "RESET"}
  BY DEF Kind
<1>7. Marks(es, i, end - 1) \in SUBSET Nat
  BY <1>3 DEF Marks
<1>. QED  BY <1>1, <1>3, <1>5, <1>6, <1>7 DEF EpisodeTo, Episode

-----------------------------------------------------------------------------
\* An episode that no further event can change.
Settled(es, i) == Kind(es[i].type) = "RESET" \/ Stop(es, i) <= Len(es)

LEMMA SameUpToHere ==
    ASSUME NEW es \in Seq(Event), NEW e \in Event
    PROVE  /\ Append(es, e) \in Seq(Event) /\ Len(Append(es, e)) = Len(es) + 1 /\ Len(es) \in Nat
           /\ \A j \in 1..Len(es) : Append(es, e)[j] = es[j] /\ es[j] \in Event
           /\ Append(es, e)[Len(es) + 1] = e
OBVIOUS

LEMMA SettledStays ==
    ASSUME NEW es \in Seq(Event), NEW e \in Event, NEW i \in 1..Len(es), Settled(es, i)
    PROVE  /\ EpisodeAt(Append(es, e), i) = EpisodeAt(es, i)
           /\ Settled(Append(es, e), i)
<1>. DEFINE more == Append(es, e)
            n == Len(es)
            kind == Kind(es[i].type)
            m == Stop(es, i)
<1>1. /\ more \in Seq(Event) /\ Len(more) = n + 1 /\ n \in Nat
      /\ \A j \in 1..n : more[j] = es[j]
      /\ i \in 1..n /\ i \in 1..(n + 1) /\ more[i] = es[i]
  BY SameUpToHere
<1>. HIDE DEF more, n
<1>2. CASE kind = "RESET"
  <2>1. EpisodeAt(more, i) = EpisodeTo(more, i, i + 1) /\ EpisodeAt(es, i) = EpisodeTo(es, i, i + 1)
    BY <1>1, <1>2, EpisodeIs DEF EndAt
  <2>2. EpisodeTo(more, i, i + 1) = EpisodeTo(es, i, i + 1)
    <3>1. (i + 1) - 1 = i /\ Marks(more, i, i) = {} /\ Marks(es, i, i) = {}
      BY <1>1 DEF Marks
    <3>. QED  BY <1>1, <3>1 DEF EpisodeTo
  <2>. QED  BY <1>1, <1>2, <2>1, <2>2 DEF Settled, more
<1>3. CASE kind # "RESET"
  <2>1. /\ m \in (i + 1)..(n + 1) /\ m <= n
        /\ \A j \in (i + 1)..(m - 1) : ~StopsAt(es, i, j)
        /\ StopsAt(es, i, m)
    BY <1>3, StopIs DEF Settled, n
  <2>. HIDE DEF m
  <2>2. \A j \in (i + 1)..n : StopsAt(more, i, j) <=> StopsAt(es, i, j)
    <3>1. \A j \in (i + 1)..n : j \in 1..n /\ j - 1 \in 1..n
      BY <1>1
    <3>. QED  BY <1>1, <3>1 DEF StopsAt
  <2>3. Stop(more, i) = m
    <3>1. m \in (i + 1)..(Len(more) + 1) /\ i \in 1..Len(more)
      BY <1>1, <2>1
    <3>2. \A j \in (i + 1)..(m - 1) : j \in (i + 1)..n
      BY <1>1, <2>1
    <3>3. StopsAt(more, i, m)
      BY <1>1, <2>1, <2>2
    <3>4. \A j \in (i + 1)..(m - 1) : ~StopsAt(more, i, j)
      BY <2>1, <2>2, <3>2
    <3>. QED  BY <1>1, <3>1, <3>3, <3>4, StopIsThis
  <2>. DEFINE end == EndAt(es, kind, i, m)
  <2>4. EndAt(more, kind, i, m) = end /\ end \in (i + 1)..(n + 1)
    <3>1. m \in 1..n /\ m - 1 \in 1..n /\ m <= n + 1
      BY <1>1, <2>1
    <3>. QED  BY <1>1, <2>1, <3>1 DEF EndAt, n
  <2>. HIDE DEF end
  <2>5. EpisodeAt(more, i) = EpisodeTo(more, i, end) /\ EpisodeAt(es, i) = EpisodeTo(es, i, end)
    BY <1>1, <2>3, <2>4, EpisodeIs DEF end, m
  <2>6. EpisodeTo(more, i, end) = EpisodeTo(es, i, end)
    <3>1. end - 1 \in 1..n /\ \A j \in (i + 1)..(end - 1) : j \in 1..n
      BY <1>1, <2>4
    <3>2. Marks(more, i, end - 1) = Marks(es, i, end - 1)
      BY <1>1, <3>1 DEF Marks
    <3>. QED  BY <1>1, <3>1, <3>2 DEF EpisodeTo
  <2>. QED  BY <1>1, <2>1, <2>3, <2>5, <2>6 DEF Settled, more
<1>. QED  BY <1>2, <1>3

-----------------------------------------------------------------------------
(***************************************************************************)
(* Episodes as a whole: which events start one.                            *)
(***************************************************************************)
Start == [ep \in Episode |-> ep.start]

\* The events of S start the episodes of es: each opens one, none of these reaches into
\* the next, and an event that could open one and does not lies in one.
Tiles(es, S) ==
    /\ S \in SUBSET (1..Len(es))
    /\ \A i \in S : Kind(es[i].type) # "none"
    /\ \A i, k \in S : i < k => EpisodeAt(es, i).end <= k
    /\ \A j \in 1..Len(es) : Kind(es[j].type) # "none" =>
           \E i \in S : i <= j /\ j < EpisodeAt(es, i).end

From(es, S, p) == {EpisodeAt(es, i) : i \in {k \in S : k >= p}}

SegmentStep(es, f, i) ==
    IF i > Len(es) THEN <<>>
    ELSE IF Kind(es[i].type) = "none" THEN f[i + 1]
    ELSE LET ep == EpisodeAt(es, i) IN <<ep>> \o f[ep.end]
SegmentsFrom(es, f, p) == f = [i \in p..(Len(es) + 1) |-> SegmentStep(es, f, i)]

LEMMA StartIs == Start \in [Episode -> Int] /\ \A ep \in Episode : Start[ep] = ep.start
BY DEF Start, Episode

LEMMA RisingWithOneBefore ==
    ASSUME NEW V, NEW f \in [V -> Int], NEW s \in Seq(V), Rising(s, f),
           NEW v \in V, \A x \in ToSet(s) : f[v] < f[x]
    PROVE  /\ <<v>> \o s \in Seq(V) /\ Rising(<<v>> \o s, f)
           /\ ToSet(<<v>> \o s) = {v} \cup ToSet(s)
<1>. DEFINE t == <<v>> \o s
            n == Len(s)
<1>1. /\ n \in Nat /\ DOMAIN s = 1..n /\ t \in Seq(V) /\ Len(t) = n + 1 /\ DOMAIN t = 1..(n + 1)
      /\ t[1] = v /\ \A i \in 2..(n + 1) : t[i] = s[i - 1]
      /\ \A i \in 1..n : s[i] \in V
  OBVIOUS
<1>. HIDE DEF t, n
<1>2. ToSet(t) = {v} \cup ToSet(s)
  <2>1. \A i \in 1..(n + 1) : i = 1 \/ (i \in 2..(n + 1) /\ i - 1 \in 1..n)
    BY <1>1
  <2>2. \A i \in 1..n : i + 1 \in 1..(n + 1) /\ i + 1 \in 2..(n + 1) /\ (i + 1) - 1 = i
    BY <1>1
  <2>3. 1 \in 1..(n + 1)
    BY <1>1
  <2>4. ToSet(t) = {t[i] : i \in 1..(n + 1)} /\ ToSet(s) = {s[i] : i \in 1..n}
    BY <1>1 DEF ToSet
  <2>5. \A i \in 1..(n + 1) : t[i] = v \/ t[i] \in ToSet(s)
    BY <1>1, <2>1, <2>4
  <2>6. \A i \in 1..n : t[i + 1] = s[i]
    BY <1>1, <2>2
  <2>7. \A i \in 1..n : s[i] \in ToSet(t)
    <3>. SUFFICES ASSUME NEW i \in 1..n PROVE s[i] \in ToSet(t)
      OBVIOUS
    <3>. DEFINE j == i + 1
    <3>1. j \in 1..(n + 1) /\ t[j] = s[i]
      BY <2>2, <2>6
    <3>. HIDE DEF j
    <3>. QED  BY <2>4, <3>1
  <2>8. v \in ToSet(t)
    BY <1>1, <2>3, <2>4
  <2>9. \A x \in ToSet(t) : x \in {v} \cup ToSet(s)
    BY <2>4, <2>5
  <2>10. \A x \in ToSet(s) : x \in ToSet(t)
    BY <2>4, <2>7
  <2>. QED  BY <2>8, <2>9, <2>10
<1>3. ASSUME NEW i \in 1..(n + 1), NEW j \in 1..(n + 1), i < j PROVE f[t[i]] < f[t[j]]
  <2>1. j \in 2..(n + 1) /\ j - 1 \in 1..n /\ t[j] = s[j - 1]
    BY <1>1, <1>3
  <2>2. CASE i = 1
    <3>1. s[j - 1] \in ToSet(s)
      BY <1>1, <2>1, Zenon DEF ToSet
    <3>. QED  BY <1>1, <2>1, <2>2, <3>1
  <2>3. CASE i # 1
    <3>1. i \in 2..(n + 1) /\ i - 1 \in 1..n /\ i - 1 < j - 1
      <4>1. n \in Nat
        BY <1>1
      <4>. QED  BY <1>3, <2>3, <4>1
    <3>2. t[i] = s[i - 1]
      BY <1>1, <3>1
    <3>. QED  BY <2>1, <3>1, <3>2 DEF Rising, n
  <2>. QED  BY <2>2, <2>3
<1>4. Rising(t, f)
  BY <1>1, <1>3 DEF Rising
<1>. QED  BY <1>1, <1>2, <1>4 DEF t

LEMMA OneEpisodeBefore ==
    ASSUME NEW s \in Seq(Episode), Rising(s, Start),
           NEW ep \in Episode, \A x \in ToSet(s) : Start[ep] < Start[x]
    PROVE  /\ <<ep>> \o s \in Seq(Episode) /\ Rising(<<ep>> \o s, Start)
           /\ ToSet(<<ep>> \o s) = {ep} \cup ToSet(s)
BY StartIs, RisingWithOneBefore

LEMMA SegmentsExist ==
    ASSUME NEW es \in Seq(Event)
    PROVE  \E f : SegmentsFrom(es, f, 1)
<1>. DEFINE n == Len(es)
            bad == {m \in 0..n : ~\E f : SegmentsFrom(es, f, n + 1 - m)}
<1>1. n \in Nat
  OBVIOUS
<1>2. bad = {}
  <2>. SUFFICES ASSUME bad # {} PROVE FALSE
    OBVIOUS
  <2>1. PICK m \in bad : \A k \in bad : m <= k
    <3>. HIDE DEF bad
    <3>1. bad \in SUBSET Nat
      BY <1>1 DEF bad
    <3>. QED  BY <3>1, LeastIsThere
  <2>2. m \in 0..n /\ ~\E f : SegmentsFrom(es, f, n + 1 - m)
    OBVIOUS
  <2>. HIDE DEF n
  <2>3. CASE m = 0
    <3>. DEFINE g == [i \in (n + 1)..(n + 1) |-> <<>>]
    <3>1. \A i \in (n + 1)..(n + 1) : SegmentStep(es, g, i) = <<>>
      BY <1>1 DEF SegmentStep, n
    <3>2. SegmentsFrom(es, g, n + 1)
      <4>. HIDE DEF SegmentStep
      <4>. QED  BY <3>1 DEF SegmentsFrom, n
    <3>3. n + 1 - m = n + 1
      BY <1>1, <2>3
    <3>. QED  BY <2>2, <3>2, <3>3
  <2>4. CASE m # 0
    <3>. DEFINE p == n + 1 - m
    <3>1. m - 1 \in 0..n /\ ~(m <= m - 1) /\ n + 1 - (m - 1) = p + 1 /\ p \in 1..n
      BY <1>1, <2>2, <2>4
    <3>2. PICK f : SegmentsFrom(es, f, p + 1)
      BY <2>1, <3>1
    <3>. HIDE DEF p
    <3>. DEFINE g == [i \in p..(n + 1) |-> IF i = p THEN SegmentStep(es, f, p) ELSE f[i]]
    <3>3. \A i \in (p + 1)..(n + 1) : f[i] = SegmentStep(es, f, i) /\ g[i] = f[i]
      <4>1. \A i \in (p + 1)..(n + 1) : f[i] = SegmentStep(es, f, i)
        <5>. HIDE DEF SegmentStep, g
        <5>. QED  BY <3>2 DEF SegmentsFrom, n
      <4>2. \A i \in (p + 1)..(n + 1) : i \in p..(n + 1) /\ i # p
        BY <1>1, <3>1
      <4>3. \A i \in (p + 1)..(n + 1) : g[i] = f[i]
        BY <4>2
      <4>. QED  BY <4>1, <4>3
    <3>4. ASSUME NEW i \in p..(n + 1) PROVE SegmentStep(es, g, i) = SegmentStep(es, f, i)
      <4>1. i <= n => i \in 1..n
        BY <1>1, <3>1, <3>4
      <4>2. i <= n => i + 1 \in (p + 1)..(n + 1) /\ EpisodeAt(es, i).end \in (p + 1)..(n + 1)
        <5>1. i <= n => EpisodeAt(es, i).end \in (i + 1)..(n + 1)
          BY <4>1, EpisodeEnds DEF n
        <5>. QED  BY <1>1, <3>1, <3>4, <5>1
      <4>. HIDE DEF g
      <4>3. i <= n => g[i + 1] = f[i + 1] /\ g[EpisodeAt(es, i).end] = f[EpisodeAt(es, i).end]
        BY <3>3, <4>2
      <4>4. i > n \/ i <= n
        BY <1>1, <3>1
      <4>. QED  BY <4>3, <4>4 DEF SegmentStep, n
    <3>5. \A i \in p..(n + 1) : g[i] = SegmentStep(es, f, i)
      <4>1. g[p] = SegmentStep(es, f, p)
        BY <1>1, <3>1
      <4>2. \A i \in p..(n + 1) : i = p \/ i \in (p + 1)..(n + 1)
        BY <1>1, <3>1
      <4>. HIDE DEF g, SegmentStep
      <4>. QED  BY <3>3, <4>1, <4>2
    <3>6. SegmentsFrom(es, g, p)
      <4>1. g = [i \in p..(n + 1) |-> g[i]]
        OBVIOUS
      <4>2. \A i \in p..(n + 1) : g[i] = SegmentStep(es, g, i)
        BY <3>4, <3>5
      <4>. HIDE DEF g
      <4>3. g = [i \in p..(n + 1) |-> SegmentStep(es, g, i)]
        BY <4>1, <4>2
      <4>. QED  BY <4>3 DEF SegmentsFrom, n
    <3>. QED  BY <2>2, <3>6 DEF p
  <2>. QED  BY <2>3, <2>4
<1>3. n \in 0..n /\ n + 1 - n = 1
  BY <1>1
<1>. HIDE DEF n
<1>. QED  BY <1>2, <1>3

\* Where the scan from p has its start, whatever it finds starts at p or later.
Boundary(es, S, p) == \A i \in S : i < p => EpisodeAt(es, i).end <= p

LEMMA ScanGoesOn ==
    ASSUME NEW es \in Seq(Event), NEW S, Tiles(es, S), NEW p \in 1..Len(es), Boundary(es, S, p)
    PROVE  /\ Kind(es[p].type) = "none" =>
                 Boundary(es, S, p + 1) /\ From(es, S, p) = From(es, S, p + 1)
           /\ Kind(es[p].type) # "none" =>
                 /\ p \in S /\ Boundary(es, S, EpisodeAt(es, p).end)
                 /\ From(es, S, p) = {EpisodeAt(es, p)} \cup From(es, S, EpisodeAt(es, p).end)
<1>. DEFINE n == Len(es)
            q == EpisodeAt(es, p).end
<1>1. n \in Nat /\ p \in 1..n /\ S \in SUBSET (1..n)
  BY DEF Tiles
<1>2. q \in (p + 1)..(n + 1)
  BY EpisodeEnds
<1>3. \A i \in S : i \in 1..n /\ EpisodeAt(es, i).end \in (i + 1)..(n + 1)
  BY <1>1, EpisodeEnds
<1>. HIDE DEF n, q
<1>4. CASE Kind(es[p].type) = "none"
  <2>1. p \notin S
    BY <1>4 DEF Tiles
  <2>2. \A i \in S : /\ i >= p <=> i >= p + 1
                     /\ i < p + 1 => i < p
    BY <1>1, <1>3, <2>1
  <2>3. Boundary(es, S, p + 1)
    <3>. SUFFICES ASSUME NEW i \in S, i < p + 1 PROVE EpisodeAt(es, i).end <= p + 1
      BY DEF Boundary
    <3>1. EpisodeAt(es, i).end <= p
      BY <2>2 DEF Boundary
    <3>. QED  BY <1>1, <1>3, <3>1
  <2>4. From(es, S, p) = From(es, S, p + 1)
    BY <2>2 DEF From
  <2>. QED  BY <1>4, <2>3, <2>4
<1>5. CASE Kind(es[p].type) # "none"
  <2>1. PICK i \in S : i <= p /\ p < EpisodeAt(es, i).end
    BY <1>5 DEF Tiles
  <2>2. i = p
    <3>1. i < p => EpisodeAt(es, i).end <= p
      BY DEF Boundary
    <3>. QED  BY <1>1, <1>3, <2>1, <3>1
  <2>3. \A k \in S : k > p => q <= k
    BY <2>2 DEF Tiles, q
  <2>4. Boundary(es, S, q)
    <3>. SUFFICES ASSUME NEW k \in S, k < q PROVE EpisodeAt(es, k).end <= q
      BY DEF Boundary
    <3>1. CASE k < p
      <4>1. EpisodeAt(es, k).end <= p
        BY <3>1 DEF Boundary
      <4>. QED  BY <1>1, <1>2, <1>3, <4>1
    <3>2. CASE k = p
      BY <1>1, <1>2, <3>2 DEF q
    <3>3. CASE k > p
      BY <1>1, <1>2, <1>3, <2>3, <3>3
    <3>. QED  BY <1>1, <1>3, <3>1, <3>2, <3>3
  <2>5. \A k \in S : k >= p <=> (k = p \/ k >= q)
    BY <1>1, <1>2, <1>3, <2>3
  <2>6. From(es, S, p) = {EpisodeAt(es, p)} \cup From(es, S, q)
    BY <2>1, <2>2, <2>5 DEF From
  <2>. QED  BY <1>5, <2>1, <2>2, <2>4, <2>6 DEF q
<1>. QED  BY <1>4, <1>5

LEMMA SegmentIs ==
    ASSUME NEW es \in Seq(Event), NEW S, Tiles(es, S)
    PROVE  /\ SegmentEpisodes(es) \in Seq(Episode) /\ Rising(SegmentEpisodes(es), Start)
           /\ ToSet(SegmentEpisodes(es)) = {EpisodeAt(es, i) : i \in S}
<1>. DEFINE n == Len(es)
            F == CHOOSE f : f = [i \in 1..(Len(es) + 1) |-> SegmentStep(es, f, i)]
<1>1. SegmentEpisodes(es) = F[1]
  BY DEF SegmentEpisodes, SegmentStep
<1>2. SegmentsFrom(es, F, 1)
  <2>1. \E f : f = [i \in 1..(Len(es) + 1) |-> SegmentStep(es, f, i)]
    BY SegmentsExist DEF SegmentsFrom
  <2>2. F = [i \in 1..(Len(es) + 1) |-> SegmentStep(es, F, i)]
    <3>. HIDE DEF SegmentStep
    <3>. QED  BY <2>1
  <2>. HIDE DEF F
  <2>. QED  BY <2>2 DEF SegmentsFrom
<1>. HIDE DEF F
<1>3. n \in Nat /\ S \in SUBSET (1..n)
  BY DEF Tiles
<1>4. \A i \in S : i \in 1..n /\ EpisodeAt(es, i) \in Episode /\ EpisodeAt(es, i).start = i
  BY <1>3, EpisodeType DEF Tiles
<1>. DEFINE Good(p) == Boundary(es, S, p) => /\ F[p] \in Seq(Episode) /\ Rising(F[p], Start)
                                             /\ ToSet(F[p]) = From(es, S, p)
            bad == {m \in 0..n : ~Good(n + 1 - m)}
<1>5. bad = {}
  <2>. SUFFICES ASSUME bad # {} PROVE FALSE
    OBVIOUS
  <2>1. PICK m \in bad : \A k \in bad : m <= k
    <3>. HIDE DEF bad
    <3>1. bad \in SUBSET Nat
      BY <1>3 DEF bad
    <3>. QED  BY <3>1, LeastIsThere
  <2>. DEFINE p == n + 1 - m
  <2>2. m \in 0..n /\ ~Good(p)
    OBVIOUS
  <2>. HIDE DEF n
  <2>3. p \in 1..(n + 1)
    BY <1>3, <2>2
  <2>4. \A r \in (p + 1)..(n + 1) : Good(r)
    <3>. SUFFICES ASSUME NEW r \in (p + 1)..(n + 1) PROVE Good(r)
      OBVIOUS
    <3>. DEFINE k == n + 1 - r
    <3>1. k \in 0..n /\ ~(m <= k) /\ n + 1 - k = r
      BY <1>3, <2>2
    <3>2. k \notin bad
      BY <2>1, <3>1
    <3>. HIDE DEF Good, k
    <3>. QED  BY <3>1, <3>2
  <2>. HIDE DEF p
  <2>5. F[p] = SegmentStep(es, F, p) /\ Boundary(es, S, p)
    BY <1>2, <2>2, <2>3 DEF SegmentsFrom, n
  <2>6. CASE p = n + 1
    <3>1. F[p] = <<>>
      BY <1>3, <2>5, <2>6 DEF SegmentStep, n
    <3>2. From(es, S, p) = {}
      BY <1>3, <2>6 DEF From
    <3>3. <<>> \in Seq(Episode) /\ Rising(<<>>, Start) /\ ToSet(<<>>) = {}
      BY DEF Rising, ToSet
    <3>. QED  BY <2>2, <3>1, <3>2, <3>3
  <2>7. CASE p \in 1..n /\ Kind(es[p].type) = "none"
    <3>1. F[p] = F[p + 1]
      BY <1>3, <2>5, <2>7 DEF SegmentStep, n
    <3>2. Boundary(es, S, p + 1) /\ From(es, S, p) = From(es, S, p + 1)
      BY <2>5, <2>7, ScanGoesOn DEF n
    <3>3. p + 1 \in (p + 1)..(n + 1)
      BY <1>3, <2>7
    <3>. QED  BY <2>2, <2>4, <3>1, <3>2, <3>3
  <2>8. CASE p \in 1..n /\ Kind(es[p].type) # "none"
    <3>. DEFINE ep == EpisodeAt(es, p)
                q == ep.end
    <3>1. F[p] = <<ep>> \o F[q]
      BY <1>3, <2>5, <2>8 DEF SegmentStep, n
    <3>2. p \in S /\ Boundary(es, S, q) /\ From(es, S, p) = {ep} \cup From(es, S, q)
      BY <2>5, <2>8, ScanGoesOn DEF n
    <3>3. q \in (p + 1)..(n + 1)
      BY <2>8, EpisodeEnds DEF n
    <3>4. F[q] \in Seq(Episode) /\ Rising(F[q], Start) /\ ToSet(F[q]) = From(es, S, q)
      BY <2>4, <3>2, <3>3
    <3>5. ep \in Episode /\ Start[ep] = p
      BY <1>4, <3>2, StartIs
    <3>6. \A x \in From(es, S, q) : Start[ep] < Start[x]
      <4>. SUFFICES ASSUME NEW k \in S, k >= q PROVE p < Start[EpisodeAt(es, k)]
        BY <3>5 DEF From
      <4>1. Start[EpisodeAt(es, k)] = k
        BY <1>4, StartIs
      <4>. QED  BY <1>3, <1>4, <2>3, <3>3, <4>1
    <3>. HIDE DEF ep, q
    <3>. DEFINE rest == F[q]
    <3>7. rest \in Seq(Episode) /\ Rising(rest, Start) /\ \A x \in ToSet(rest) : Start[ep] < Start[x]
      BY <3>4, <3>6
    <3>. HIDE DEF rest
    <3>8. <<ep>> \o rest \in Seq(Episode) /\ Rising(<<ep>> \o rest, Start)
          /\ ToSet(<<ep>> \o rest) = {ep} \cup ToSet(rest)
      BY <3>5, <3>7, OneEpisodeBefore
    <3>9. F[p] = <<ep>> \o rest /\ ToSet(rest) = From(es, S, q)
      BY <3>1, <3>4 DEF rest
    <3>. QED  BY <2>2, <3>2, <3>8, <3>9
  <2>. QED  BY <1>3, <2>3, <2>6, <2>7, <2>8
<1>6. Good(1)
  <2>1. n \in 0..n /\ n + 1 - n = 1
    BY <1>3
  <2>. HIDE DEF Good, n
  <2>. QED  BY <1>5, <2>1
<1>7. Boundary(es, S, 1) /\ From(es, S, 1) = {EpisodeAt(es, i) : i \in S}
  <2>1. \A i \in S : i >= 1 /\ ~(i < 1)
    BY <1>3
  <2>. QED  BY <2>1 DEF Boundary, From
<1>. QED  BY <1>1, <1>6, <1>7

-----------------------------------------------------------------------------
(***************************************************************************)
(* What one further event does to the last episode.                        *)
(***************************************************************************)
LEMMA UnsettledIs ==
    ASSUME NEW es \in Seq(Event), NEW i \in 1..Len(es), Kind(es[i].type) # "none",
           ~Settled(es, i)
    PROVE  /\ Kind(es[i].type) \in {"CODE", "RUN"}
           /\ EpisodeAt(es, i) = EpisodeTo(es, i, Len(es) + 1)
           /\ \A j \in (i + 1)..Len(es) : ~StopsAt(es, i, j)
<1>. DEFINE n == Len(es)
            kind == Kind(es[i].type)
<1>1. /\ Stop(es, i) \in (i + 1)..(n + 1) /\ n \in Nat
      /\ \A j \in (i + 1)..(Stop(es, i) - 1) : ~StopsAt(es, i, j)
  BY StopIs
<1>2. kind # "RESET" /\ ~(Stop(es, i) <= n)
  BY DEF Settled
<1>3. kind \in {"CODE", "RUN"}
  BY <1>2 DEF Kind
<1>4. Stop(es, i) = n + 1
  BY <1>1, <1>2
<1>5. EndAt(es, kind, i, n + 1) = n + 1
  <2>1. ~(n + 1 <= n)
    BY <1>1
  <2>. HIDE DEF n, kind
  <2>. QED  BY <1>2, <2>1 DEF EndAt, n
<1>6. EpisodeAt(es, i) = EpisodeTo(es, i, n + 1)
  BY <1>4, <1>5, EpisodeIs
<1>7. (n + 1) - 1 = n
  BY <1>1
<1>. QED  BY <1>1, <1>3, <1>4, <1>6, <1>7

\* An episode that reaches to the last event and its stop with one more.
LEMMA StopsWithOneMore ==
    ASSUME NEW es \in Seq(Event), NEW e \in Event, NEW i \in 1..Len(es),
           \A j \in (i + 1)..Len(es) : ~StopsAt(es, i, j)
    PROVE  Stop(Append(es, e), i) =
             IF StopsAt(Append(es, e), i, Len(es) + 1) THEN Len(es) + 1 ELSE Len(es) + 2
<1>. DEFINE more == Append(es, e)
            n == Len(es)
            m == IF StopsAt(more, i, n + 1) THEN n + 1 ELSE n + 2
<1>1. /\ more \in Seq(Event) /\ Len(more) = n + 1 /\ n \in Nat /\ i \in 1..n
      /\ \A j \in 1..n : more[j] = es[j]
  BY SameUpToHere
<1>. HIDE DEF more, n
<1>2. \A j \in (i + 1)..n : ~StopsAt(more, i, j)
  <2>1. \A j \in (i + 1)..n : j \in 1..n /\ j - 1 \in 1..n
    BY <1>1
  <2>2. \A j \in (i + 1)..n : more[j] = es[j] /\ more[j - 1] = es[j - 1] /\ more[i] = es[i]
    BY <1>1, <2>1
  <2>. QED  BY <2>2 DEF StopsAt, n
<1>3. m \in (i + 1)..(Len(more) + 1) /\ i \in 1..Len(more)
  BY <1>1
<1>4. \A j \in (i + 1)..(m - 1) : ~StopsAt(more, i, j)
  <2>1. \A j \in (i + 1)..(m - 1) : j \in (i + 1)..n \/ (j = n + 1 /\ ~StopsAt(more, i, n + 1))
    BY <1>1
  <2>. QED  BY <1>2, <2>1
<1>5. m <= Len(more) => StopsAt(more, i, m)
  BY <1>1
<1>. HIDE DEF m
<1>6. Stop(more, i) = m
  BY <1>1, <1>3, <1>4, <1>5, StopIsThis
<1>. QED  BY <1>6 DEF m, more, n

\* The further event is absorbed, ...
LEMMA GoesOnWithOneMore ==
    ASSUME NEW es \in Seq(Event), NEW e \in Event, NEW i \in 1..Len(es),
           Kind(es[i].type) # "none", ~Settled(es, i),
           ~StopsAt(Append(es, e), i, Len(es) + 1)
    PROVE  /\ EpisodeAt(Append(es, e), i) = EpisodeTo(Append(es, e), i, Len(es) + 2)
           /\ ~Settled(Append(es, e), i)
<1>. DEFINE more == Append(es, e)
            n == Len(es)
            kind == Kind(es[i].type)
<1>1. /\ Len(more) = n + 1 /\ n \in Nat /\ more[i] = es[i]
  BY SameUpToHere
<1>2. kind \in {"CODE", "RUN"} /\ Stop(more, i) = n + 2
  BY UnsettledIs, StopsWithOneMore
<1>. HIDE DEF more, n
<1>3. ~(n + 2 <= n + 1)
  BY <1>1
<1>4. EndAt(more, kind, i, n + 2) = n + 2
  BY <1>1, <1>2, <1>3 DEF EndAt
<1>. QED  BY <1>1, <1>2, <1>3, <1>4, EpisodeIs DEF Settled, more, n

\* ... or ends it, as a part of it ...
LEMMA EndsWithOneMore ==
    ASSUME NEW es \in Seq(Event), NEW e \in Event, NEW i \in 1..Len(es),
           Kind(es[i].type) = "RUN", ~Settled(es, i), e.type = "projectEnd",
           ~IsInactive(es[Len(es)].ts, e.ts)
    PROVE  /\ EpisodeAt(Append(es, e), i) = EpisodeTo(Append(es, e), i, Len(es) + 2)
           /\ Settled(Append(es, e), i)
<1>. DEFINE more == Append(es, e)
            n == Len(es)
<1>1. /\ Len(more) = n + 1 /\ n \in Nat /\ more[i] = es[i] /\ more[n + 1] = e /\ more[n] = es[n]
      /\ (n + 1) - 1 = n
  <2>1. n \in 1..n
    OBVIOUS
  <2>. QED  BY <2>1, SameUpToHere
<1>2. ~Absorbs("RUN", "projectEnd")
  BY DEF Absorbs, Soft
<1>3. StopsAt(more, i, n + 1)
  BY <1>1, <1>2 DEF StopsAt
<1>4. Stop(more, i) = n + 1
  BY <1>3, UnsettledIs, StopsWithOneMore
<1>. HIDE DEF more, n
<1>5. n + 1 <= Len(more) /\ (n + 1) + 1 = n + 2
  BY <1>1
<1>6. EndAt(more, "RUN", i, n + 1) = n + 2
  BY <1>1, <1>5 DEF EndAt, n
<1>. QED  BY <1>1, <1>4, <1>5, <1>6, EpisodeIs DEF Settled, more, n

\* ... or as the first event after it.
LEMMA StopsBeforeOneMore ==
    ASSUME NEW es \in Seq(Event), NEW e \in Event, NEW i \in 1..Len(es),
           Kind(es[i].type) # "none", ~Settled(es, i),
           StopsAt(Append(es, e), i, Len(es) + 1),
           ~(Kind(es[i].type) = "RUN" /\ e.type = "projectEnd" /\ ~IsInactive(es[Len(es)].ts, e.ts))
    PROVE  /\ EpisodeAt(Append(es, e), i) = EpisodeAt(es, i)
           /\ Settled(Append(es, e), i)
<1>. DEFINE more == Append(es, e)
            n == Len(es)
            kind == Kind(es[i].type)
<1>1. /\ Len(more) = n + 1 /\ n \in Nat /\ i \in 1..n /\ more[n + 1] = e /\ (n + 1) - 1 = n
      /\ n \in 1..n /\ \A j \in 1..n : more[j] = es[j]
  BY SameUpToHere
<1>2. kind \in {"CODE", "RUN"} /\ Stop(more, i) = n + 1 /\ EpisodeAt(es, i) = EpisodeTo(es, i, n + 1)
  BY UnsettledIs, StopsWithOneMore
<1>. HIDE DEF more, n
<1>3. n + 1 <= Len(more)
  BY <1>1
<1>4. EndAt(more, kind, i, n + 1) = n + 1
  BY <1>1, <1>2, <1>3 DEF EndAt, n
<1>5. EpisodeTo(more, i, n + 1) = EpisodeTo(es, i, n + 1)
  <2>1. \A j \in (i + 1)..n : j \in 1..n
    BY <1>1
  <2>2. Marks(more, i, n) = Marks(es, i, n)
    BY <1>1, <2>1 DEF Marks
  <2>. QED  BY <1>1, <2>2 DEF EpisodeTo
<1>6. EpisodeAt(more, i) = EpisodeTo(more, i, n + 1)
  BY <1>1, <1>2, <1>4, EpisodeIs
<1>. QED  BY <1>2, <1>3, <1>5, <1>6 DEF Settled, more, n

\* An event that opens an episode of its own.
LEMMA OpensWithOneMore ==
    ASSUME NEW es \in Seq(Event), NEW e \in Event, Kind(e.type) # "none"
    PROVE  /\ EpisodeAt(Append(es, e), Len(es) + 1) =
                [kind |-> Kind(e.type), start |-> Len(es) + 1, end |-> Len(es) + 2,
                 startTs |-> e.ts, endTs |-> e.ts, soft |-> {}]
           /\ Settled(Append(es, e), Len(es) + 1) <=> Kind(e.type) = "RESET"
<1>. DEFINE more == Append(es, e)
            n == Len(es)
            kind == Kind(e.type)
<1>1. /\ more \in Seq(Event) /\ Len(more) = n + 1 /\ n \in Nat /\ more[n + 1] = e
      /\ (n + 1) + 1 = n + 2 /\ (n + 2) - 1 = n + 1
  BY SameUpToHere
<1>. HIDE DEF more, n
<1>2. n + 1 \in 1..Len(more) /\ \A x : x \notin (n + 2)..(n + 1)
  BY <1>1
<1>3. Stop(more, n + 1) = n + 2
  <2>1. Stop(more, n + 1) \in (n + 2)..(n + 2)
    BY <1>1, <1>2, StopIs
  <2>. QED  BY <1>1, <2>1
<1>4. ~(n + 2 <= n + 1)
  BY <1>1
<1>5. EndAt(more, kind, n + 1, n + 2) = n + 2
  BY <1>1, <1>4 DEF EndAt
<1>6. Marks(more, n + 1, n + 1) = {}
  BY <1>1, <1>2 DEF Marks
<1>7. EpisodeAt(more, n + 1) = EpisodeTo(more, n + 1, n + 2)
  BY <1>1, <1>3, <1>5, EpisodeIs
<1>. QED  BY <1>1, <1>3, <1>4, <1>6, <1>7 DEF EpisodeTo, Settled, more, n

-----------------------------------------------------------------------------
\* The last episode of a session, and only it, may go on.
LEMMA UnsettledIsLast ==
    ASSUME NEW es \in Seq(Event), NEW S, Tiles(es, S), NEW o \in S, ~Settled(es, o), NEW k \in S
    PROVE  k <= o /\ (k # o => Settled(es, k))
<1>1. /\ S \in SUBSET (1..Len(es)) /\ Len(es) \in Nat
      /\ \A i \in S : i \in 1..Len(es) /\ Kind(es[i].type) # "none"
  BY SMTT(40) DEF Tiles
<1>2. \A i \in S : ~Settled(es, i) => EpisodeAt(es, i).end = Len(es) + 1
  BY <1>1, UnsettledIs DEF EpisodeTo
<1>3. \A i, j \in S : i < j => EpisodeAt(es, i).end <= j
  BY DEF Tiles
<1>4. \A i, j \in S : ~Settled(es, i) => ~(i < j)
  <2>. SUFFICES ASSUME NEW i \in S, NEW j \in S, ~Settled(es, i), i < j PROVE FALSE
    OBVIOUS
  <2>1. Len(es) + 1 <= j
    BY <1>2, <1>3
  <2>. QED  BY <1>1, <2>1
<1>5. ~(o < k) /\ (~Settled(es, k) => ~(k < o))
  BY <1>4
<1>6. k \in Int /\ o \in Int
  BY <1>1
<1>. QED  BY <1>5, <1>6

\* The further event opens an episode of its own, or lies in the last one, or in none.
LEMMA TilesWithOneMore ==
    ASSUME NEW es \in Seq(Event), NEW S, Tiles(es, S), NEW e \in Event,
           NEW opens \in BOOLEAN,
           opens => /\ Kind(e.type) # "none"
                    /\ \A i \in S : EpisodeAt(Append(es, e), i).end <= Len(es) + 1,
           ~opens /\ Kind(e.type) # "none" =>
               \E i \in S : EpisodeAt(Append(es, e), i).end = Len(es) + 2
    PROVE  Tiles(Append(es, e), IF opens THEN S \cup {Len(es) + 1} ELSE S)
<1>. DEFINE more == Append(es, e)
            n == Len(es)
            T == IF opens THEN S \cup {n + 1} ELSE S
<1>1. /\ more \in Seq(Event) /\ Len(more) = n + 1 /\ n \in Nat /\ more[n + 1] = e
      /\ \A j \in 1..n : more[j] = es[j]
  BY SameUpToHere
<1>2. /\ S \in SUBSET (1..n)
      /\ \A i \in S : i \in 1..n /\ Kind(es[i].type) # "none"
      /\ \A i, k \in S : i < k => EpisodeAt(es, i).end <= k
      /\ \A j \in 1..n : Kind(es[j].type) # "none" =>
             \E i \in S : i <= j /\ j < EpisodeAt(es, i).end
  BY DEF Tiles
<1>3. \A i \in S : Settled(es, i) => EpisodeAt(more, i) = EpisodeAt(es, i)
  BY <1>2, SettledStays
<1>4. \A i \in S : ~Settled(es, i) => EpisodeAt(more, i).end >= EpisodeAt(es, i).end
  <2>. SUFFICES ASSUME NEW i \in S, ~Settled(es, i)
                PROVE  EpisodeAt(more, i).end >= EpisodeAt(es, i).end
    OBVIOUS
  <2>1. EpisodeAt(es, i).end = n + 1
    BY <1>2, UnsettledIs DEF EpisodeTo
  <2>2. CASE StopsAt(more, i, n + 1)
    <3>1. CASE Kind(es[i].type) = "RUN" /\ e.type = "projectEnd" /\ ~IsInactive(es[n].ts, e.ts)
      <4>1. EpisodeAt(more, i).end = n + 2
        BY <1>2, <3>1, EndsWithOneMore DEF EpisodeTo
      <4>. QED  BY <1>1, <2>1, <4>1
    <3>2. CASE ~(Kind(es[i].type) = "RUN" /\ e.type = "projectEnd" /\ ~IsInactive(es[n].ts, e.ts))
      <4>1. EpisodeAt(more, i) = EpisodeAt(es, i)
        BY <1>2, <2>2, <3>2, StopsBeforeOneMore
      <4>. QED  BY <1>1, <2>1, <4>1
    <3>. QED  BY <3>1, <3>2
  <2>3. CASE ~StopsAt(more, i, n + 1)
    <3>1. EpisodeAt(more, i).end = n + 2
      BY <1>2, <2>3, GoesOnWithOneMore DEF EpisodeTo
    <3>. QED  BY <1>1, <2>1, <3>1
  <2>. QED  BY <2>2, <2>3
<1>5. \A i \in S : EpisodeAt(es, i).end \in Nat /\ EpisodeAt(more, i).end \in Nat
                   /\ EpisodeAt(more, i).end >= EpisodeAt(es, i).end
  <2>. SUFFICES ASSUME NEW i \in S
                PROVE  EpisodeAt(es, i).end \in Nat /\ EpisodeAt(more, i).end \in Nat
                       /\ EpisodeAt(more, i).end >= EpisodeAt(es, i).end
    OBVIOUS
  <2>1. i \in 1..n /\ i \in 1..(n + 1)
    BY <1>1, <1>2
  <2>2. EpisodeAt(es, i).end \in (i + 1)..(n + 1)
    BY <2>1, EpisodeEnds
  <2>3. EpisodeAt(more, i).end \in (i + 1)..(n + 1 + 1)
    BY <1>1, <2>1, EpisodeEnds
  <2>. HIDE DEF more, n
  <2>4. EpisodeAt(es, i).end \in Nat /\ EpisodeAt(more, i).end \in Nat
    BY <1>1, <2>1, <2>2, <2>3
  <2>. QED  BY <1>3, <1>4, <2>4
<1>. HIDE DEF more, n
<1>6. T \in SUBSET (1..Len(more))
  BY <1>1, <1>2
<1>7. \A i \in T : i \in S \/ (opens /\ i = n + 1)
  OBVIOUS
<1>8. \A i \in T : Kind(more[i].type) # "none"
  BY <1>1, <1>2, <1>7
<1>9. ASSUME NEW i \in T, NEW k \in T, i < k PROVE EpisodeAt(more, i).end <= k
  <2>1. i \in S
    BY <1>1, <1>2, <1>7, <1>9
  <2>2. CASE k \in S
    <3>1. EpisodeAt(es, i).end <= k
      BY <1>2, <1>9, <2>1, <2>2
    <3>2. Settled(es, i)
      <4>1. ~Settled(es, i) => k <= i
        BY <2>1, <2>2, UnsettledIsLast
      <4>. QED  BY <1>1, <1>2, <1>9, <2>1, <2>2, <4>1
    <3>. QED  BY <1>3, <2>1, <3>1, <3>2
  <2>3. CASE opens /\ k = n + 1
    BY <2>1, <2>3 DEF more, n
  <2>. QED  BY <1>7, <2>2, <2>3
<1>10. ASSUME NEW j \in 1..Len(more), Kind(more[j].type) # "none"
       PROVE  \E i \in T : i <= j /\ j < EpisodeAt(more, i).end
  <2>1. CASE j \in 1..n
    <3>1. PICK i \in S : i <= j /\ j < EpisodeAt(es, i).end
      BY <1>1, <1>2, <1>10, <2>1
    <3>2. j < EpisodeAt(more, i).end
      BY <1>1, <1>5, <2>1, <3>1
    <3>. QED  BY <3>1, <3>2
  <2>2. CASE j = n + 1 /\ opens
    <3>1. j \in T /\ j \in 1..Len(more)
      BY <1>1, <2>2
    <3>2. EpisodeAt(more, j).end \in (j + 1)..(Len(more) + 1)
      BY <1>1, <3>1, EpisodeEnds
    <3>3. j <= j /\ j < EpisodeAt(more, j).end
      BY <1>1, <2>2, <3>2
    <3>. QED  BY <3>1, <3>3
  <2>3. CASE j = n + 1 /\ ~opens
    <3>1. PICK i \in S : EpisodeAt(more, i).end = n + 2
      BY <1>1, <1>10, <2>3 DEF more, n
    <3>2. i <= j /\ j < EpisodeAt(more, i).end
      BY <1>1, <1>2, <2>3, <3>1
    <3>. QED  BY <3>1, <3>2
  <2>4. j \in 1..n \/ j = n + 1
    BY <1>1
  <2>. QED  BY <2>1, <2>2, <2>3, <2>4
<1>. HIDE DEF T
<1>11. Tiles(more, T)
  BY <1>6, <1>8, <1>9, <1>10 DEF Tiles
<1>. QED  BY <1>11 DEF T, more, n

-----------------------------------------------------------------------------
(***************************************************************************)
(* What a list keeps of a growing set: everything from position `from` on, *)
(* and of the rest some, in order.                                         *)
(***************************************************************************)
Kept(s, V, f, all, from) ==
    /\ s \in Seq(V) /\ Rising(s, f)
    /\ \A x \in ToSet(s) : x \in all
    /\ \A x \in all : f[x] >= from => x \in ToSet(s)

LEMMA KeptWithOneMore ==
    ASSUME NEW V, NEW f \in [V -> Int], NEW all \in SUBSET V, NEW from, NEW s, NEW v \in V,
           Kept(s, V, f, all, from), \A x \in all : f[x] < f[v]
    PROVE  Kept(Append(s, v), V, f, all \cup {v}, from)
<1>1. s \in Seq(V) /\ Rising(s, f) /\ \A x \in ToSet(s) : f[x] < f[v]
  BY DEF Kept
<1>2. /\ Append(s, v) \in Seq(V) /\ Rising(Append(s, v), f)
      /\ ToSet(Append(s, v)) = ToSet(s) \cup {v}
  BY <1>1, RisingWithOneMore
<1>. QED  BY <1>2 DEF Kept

LEMMA KeptForgets ==
    ASSUME NEW V, NEW f \in [V -> Int], NEW all \in SUBSET V, NEW from \in Nat, NEW s,
           Kept(s, V, f, all, from), NEW index \in Nat, NEW later \in Nat,
           later >= from, later >= index,
           NEW S, \A x \in ToSet(s) : x \in S <=> f[x] >= index
    PROVE  Kept(Only(s, S), V, f, all, later)
<1>1. /\ Only(s, S) \in Seq(V) /\ Rising(Only(s, S), f)
      /\ ToSet(Only(s, S)) = ToSet(s) \cap S
  BY OnlyRises DEF Kept
<1>2. \A x \in all : f[x] \in Int
  OBVIOUS
<1>3. \A x \in all : f[x] >= later => f[x] >= from /\ f[x] >= index
  BY <1>2
<1>. HIDE DEF Only
<1>. QED  BY <1>1, <1>3 DEF Kept

LEMMA KeptStays ==
    ASSUME NEW V, NEW f, NEW all, NEW from, NEW s, Kept(s, V, f, all, from), NEW more, more = all
    PROVE  Kept(s, V, f, more, from)
OBVIOUS

\* The list and the whole, in the terms of the property.
LEMMA KeptIsTheWindow ==
    ASSUME NEW V, NEW f \in [V -> Int], NEW batch \in Seq(V), Rising(batch, f), NEW from \in Nat,
           NEW s, Kept(s, V, f, ToSet(batch), from)
    PROVE  /\ s = Only(batch, ToSet(s))
           /\ \A x \in ToSet(batch) : f[x] >= from => x \in ToSet(s)
           /\ from = 0 /\ (\A x \in ToSet(batch) : f[x] >= 0) => s = batch
<1>1. s \in Seq(V) /\ Rising(s, f) /\ ToSet(s) \subseteq ToSet(batch)
  BY DEF Kept
<1>2. s = Only(batch, ToSet(s))
  BY <1>1, RisingIsSelected
<1>3. ASSUME from = 0, \A x \in ToSet(batch) : f[x] >= 0 PROVE s = batch
  <2>1. ToSet(s) = ToSet(batch)
    BY <1>1, <1>3 DEF Kept
  <2>. QED  BY <1>1, <2>1, RisingIsUnique
<1>. QED  BY <1>2, <1>3 DEF Kept

-----------------------------------------------------------------------------
(***************************************************************************)
(* The runs that ended on projectEnd.                                      *)
(***************************************************************************)
Clean(es, S) ==
    {j \in 1..Len(es) : /\ es[j].type = "projectEnd"
                        /\ \E k \in S : Kind(es[k].type) = "RUN" /\ EpisodeAt(es, k).end = j + 1}

\* The event ends a run.
Ends(es, S, e) == /\ e.type = "projectEnd"
                  /\ \E k \in S : /\ Kind(es[k].type) = "RUN" /\ ~Settled(es, k)
                                  /\ ~IsInactive(es[Len(es)].ts, e.ts)

LEMMA RunsAbsorbNoEnd ==
    ASSUME NEW es \in Seq(Event), NEW i \in 1..Len(es), Kind(es[i].type) = "RUN", ~Settled(es, i)
    PROVE  es[Len(es)].type # "projectEnd"
<1>. DEFINE n == Len(es)
<1>1. n \in Nat /\ i \in 1..n
  OBVIOUS
<1>2. \A j \in (i + 1)..n : ~StopsAt(es, i, j)
  BY UnsettledIs
<1>3. CASE i = n
  BY <1>3 DEF Kind
<1>4. CASE i # n
  <2>1. n \in (i + 1)..n
    BY <1>1, <1>4
  <2>2. Absorbs("RUN", es[n].type)
    BY <1>2, <2>1 DEF StopsAt
  <2>. QED  BY <2>2 DEF Absorbs, Soft
<1>. QED  BY <1>3, <1>4

LEMMA CleanWithOneMore ==
    ASSUME NEW es \in Seq(Event), NEW S, Tiles(es, S), NEW e \in Event
    PROVE  Clean(Append(es, e), S) =
             IF Ends(es, S, e) THEN Clean(es, S) \cup {Len(es) + 1} ELSE Clean(es, S)
<1>. DEFINE more == Append(es, e)
            n == Len(es)
<1>1. /\ more \in Seq(Event) /\ Len(more) = n + 1 /\ n \in Nat /\ more[n + 1] = e
      /\ \A j \in 1..n : more[j] = es[j]
  BY SameUpToHere
<1>2. \A k \in S : k \in 1..n /\ Kind(es[k].type) # "none"
  BY DEF Tiles
<1>. DEFINE run(k) == Kind(es[k].type) = "RUN"
<1>3. \A k \in S : more[k] = es[k]
  BY <1>1, <1>2
\* Up to here nothing changes, ...
<1>4. ASSUME NEW j \in 1..n, es[j].type = "projectEnd", NEW k \in S, run(k)
      PROVE  EpisodeAt(more, k).end = j + 1 <=> EpisodeAt(es, k).end = j + 1
  <2>1. CASE Settled(es, k)
    <3>1. EpisodeAt(more, k) = EpisodeAt(es, k)
      BY <1>2, <2>1, SettledStays
    <3>. QED  BY <3>1
  <2>2. CASE ~Settled(es, k)
    <3>1. j # n
      BY <1>2, <1>4, <2>2, RunsAbsorbNoEnd
    <3>2. EpisodeAt(es, k).end = n + 1
      BY <1>2, <2>2, UnsettledIs DEF EpisodeTo
    <3>3. EpisodeAt(more, k).end \in {n + 1, n + 2}
      <4>1. CASE StopsAt(more, k, n + 1)
        <5>1. CASE e.type = "projectEnd" /\ ~IsInactive(es[n].ts, e.ts)
          BY <1>2, <1>4, <2>2, <5>1, EndsWithOneMore DEF EpisodeTo
        <5>2. CASE ~(e.type = "projectEnd" /\ ~IsInactive(es[n].ts, e.ts))
          <6>1. EpisodeAt(more, k) = EpisodeAt(es, k)
            BY <1>2, <2>2, <4>1, <5>2, StopsBeforeOneMore
          <6>. QED  BY <3>2, <6>1
        <5>. QED  BY <5>1, <5>2
      <4>2. CASE ~StopsAt(more, k, n + 1)
        BY <1>2, <2>2, <4>2, GoesOnWithOneMore DEF EpisodeTo
      <4>. QED  BY <4>1, <4>2
    <3>4. j + 1 # n + 1 /\ j + 1 # n + 2
      BY <1>1, <3>1
    <3>. HIDE DEF more, n
    <3>. QED  BY <3>2, <3>3, <3>4
  <2>. QED  BY <2>1, <2>2
\* ... and the event itself is the end of a run if it ends one.
<1>5. (e.type = "projectEnd" /\ \E k \in S : run(k) /\ EpisodeAt(more, k).end = n + 2)
        <=> Ends(es, S, e)
  <2>1. ASSUME e.type = "projectEnd", NEW k \in S, run(k), EpisodeAt(more, k).end = n + 2
        PROVE  ~Settled(es, k) /\ ~IsInactive(es[n].ts, e.ts)
    <3>1. ~Settled(es, k)
      <4>1. EpisodeAt(es, k).end \in (k + 1)..(n + 1)
        BY <1>2, EpisodeEnds
      <4>2. EpisodeAt(es, k).end # n + 2
        BY <1>1, <1>2, <4>1
      <4>3. Settled(es, k) => EpisodeAt(more, k) = EpisodeAt(es, k)
        BY <1>2, SettledStays
      <4>. QED  BY <2>1, <4>2, <4>3
    <3>2. StopsAt(more, k, n + 1)
      <4>1. ~Absorbs("RUN", "projectEnd")
        BY DEF Absorbs, Soft
      <4>. QED  BY <1>1, <1>3, <2>1, <4>1 DEF StopsAt
    <3>3. IsInactive(es[n].ts, e.ts) => EpisodeAt(more, k) = EpisodeAt(es, k)
      BY <1>2, <3>1, <3>2, StopsBeforeOneMore
    <3>4. EpisodeAt(es, k).end = n + 1
      BY <1>2, <3>1, UnsettledIs DEF EpisodeTo
    <3>5. n + 1 # n + 2
      BY <1>1
    <3>. QED  BY <2>1, <3>1, <3>3, <3>4, <3>5
  <2>2. ASSUME e.type = "projectEnd", NEW k \in S, run(k), ~Settled(es, k),
               ~IsInactive(es[n].ts, e.ts)
        PROVE  EpisodeAt(more, k).end = n + 2
    BY <1>2, <2>2, EndsWithOneMore DEF EpisodeTo
  <2>. QED  BY <2>1, <2>2 DEF Ends
<1>. HIDE DEF more, n
<1>6. Clean(more, S) = {j \in 1..(n + 1) : /\ more[j].type = "projectEnd"
                                           /\ \E k \in S : run(k) /\ EpisodeAt(more, k).end = j + 1}
  BY <1>1, <1>3 DEF Clean
<1>7. ASSUME NEW j \in 1..n PROVE j \in Clean(more, S) <=> j \in Clean(es, S)
  <2>1. j \in 1..(n + 1) /\ more[j] = es[j]
    BY <1>1
  <2>2. j \in Clean(es, S) <=> /\ es[j].type = "projectEnd"
                               /\ \E k \in S : run(k) /\ EpisodeAt(es, k).end = j + 1
    BY DEF Clean, n
  <2>3. j \in Clean(more, S) <=> /\ es[j].type = "projectEnd"
                                 /\ \E k \in S : run(k) /\ EpisodeAt(more, k).end = j + 1
    BY <1>6, <2>1
  <2>. HIDE DEF run
  <2>. QED  BY <1>4, <2>2, <2>3
<1>8. n + 1 \in Clean(more, S) <=> Ends(es, S, e)
  <2>1. n + 1 \in 1..(n + 1) /\ (n + 1) + 1 = n + 2
    BY <1>1
  <2>. HIDE DEF run
  <2>. QED  BY <1>1, <1>5, <1>6, <2>1
<1>9. /\ \A j \in Clean(more, S) : j \in 1..n \/ j = n + 1
      /\ \A j \in Clean(es, S) : j \in 1..n
  BY <1>1, <1>6 DEF Clean, n
<1>. DEFINE A == Clean(es, S)
            B == Clean(more, S)
            here == n + 1
<1>10. /\ \A j \in A : j \in B
       /\ \A j \in B : j \in A \/ (j = here /\ Ends(es, S, e))
       /\ here \in B <=> Ends(es, S, e)
  BY <1>7, <1>8, <1>9
<1>. HIDE DEF A, B, here
<1>11. B = IF Ends(es, S, e) THEN A \cup {here} ELSE A
  BY <1>10
<1>. QED  BY <1>11 DEF A, B, here, more, n

LEMMA CleanWithOneOpened ==
    ASSUME NEW es \in Seq(Event), NEW S, NEW e \in Event, Kind(e.type) # "none"
    PROVE  Clean(Append(es, e), S \cup {Len(es) + 1}) = Clean(Append(es, e), S)
<1>. DEFINE more == Append(es, e)
            n == Len(es)
<1>1. Len(more) = n + 1 /\ n \in Nat /\ more[n + 1] = e
  BY SameUpToHere
<1>2. e.type # "projectEnd" /\ EpisodeAt(more, n + 1).end = n + 2
  <2>1. e.type # "projectEnd"
    BY DEF Kind
  <2>2. EpisodeAt(more, n + 1) = [kind |-> Kind(e.type), start |-> n + 1, end |-> n + 2,
                                  startTs |-> e.ts, endTs |-> e.ts, soft |-> {}]
    BY OpensWithOneMore
  <2>. HIDE DEF more, n
  <2>. QED  BY <2>1, <2>2
<1>. HIDE DEF more, n
<1>3. \A j \in 1..(n + 1) : more[j].type = "projectEnd" => EpisodeAt(more, n + 1).end # j + 1
  BY <1>1, <1>2
<1>4. Clean(more, S \cup {n + 1}) = Clean(more, S)
  BY <1>1, <1>3 DEF Clean
<1>. QED  BY <1>4 DEF more, n

-----------------------------------------------------------------------------
(***************************************************************************)
(* The episodes kept one event at a time.                                  *)
(***************************************************************************)
SettledEpisodes(es, S) == {EpisodeAt(es, i) : i \in {k \in S : Settled(es, k)}}

\* op is the last episode if that may still go on, and cs keeps the others.
EpisodesFit(es, cs, op, from, S) ==
    /\ Tiles(es, S)
    /\ \/ op = NoEpisode /\ \A i \in S : Settled(es, i)
       \/ \E o \in S : ~Settled(es, o) /\ op = EpisodeAt(es, o)
    /\ Kept(cs, Episode, Start, SettledEpisodes(es, S), from)

LEMMA TileIs ==
    ASSUME NEW es \in Seq(Event), NEW S, Tiles(es, S), NEW i \in S
    PROVE  /\ i \in 1..Len(es) /\ Kind(es[i].type) # "none"
           /\ EpisodeAt(es, i) \in Episode /\ EpisodeAt(es, i) # NoEpisode
           /\ EpisodeAt(es, i).kind = Kind(es[i].type)
           /\ EpisodeAt(es, i).start = i /\ Start[EpisodeAt(es, i)] = i
<1>1. i \in 1..Len(es) /\ Kind(es[i].type) # "none"
  BY DEF Tiles
<1>2. /\ EpisodeAt(es, i) \in Episode
      /\ EpisodeAt(es, i).kind = Kind(es[i].type) /\ EpisodeAt(es, i).start = i
  BY <1>1, EpisodeType
<1>3. \A ep \in Episode : ep # NoEpisode
  BY DEF Episode, NoEpisode
<1>. QED  BY <1>1, <1>2, <1>3, StartIs

LEMMA SettledAreEpisodes ==
    ASSUME NEW es \in Seq(Event), NEW S, Tiles(es, S)
    PROVE  SettledEpisodes(es, S) \in SUBSET Episode
BY TileIs DEF SettledEpisodes

\* Without an open episode, all are settled and stay so.
LEMMA NothingOpenIs ==
    ASSUME NEW es \in Seq(Event), NEW cs, NEW from, NEW S, EpisodesFit(es, cs, NoEpisode, from, S)
    PROVE  \A i \in S : Settled(es, i)
BY TileIs DEF EpisodesFit

\* The open episode is the last one, and the others are settled.
LEMMA OpenIs ==
    ASSUME NEW es \in Seq(Event), NEW cs, NEW op, NEW from, NEW S, EpisodesFit(es, cs, op, from, S),
           op # NoEpisode
    PROVE  \E o \in S : /\ ~Settled(es, o) /\ op = EpisodeAt(es, o)
                        /\ \A k \in S : k # o => Settled(es, k) /\ k < o
<1>1. PICK o \in S : ~Settled(es, o) /\ op = EpisodeAt(es, o)
  BY DEF EpisodesFit
<1>2. Tiles(es, S) /\ o \in Int /\ \A k \in S : k \in Int
  BY TileIs DEF EpisodesFit
<1>3. \A k \in S : k <= o /\ (k # o => Settled(es, k))
  BY <1>1, <1>2, UnsettledIsLast
<1>. QED  BY <1>1, <1>2, <1>3

LEMMA SettledAfterOneMore ==
    ASSUME NEW es \in Seq(Event), NEW S, Tiles(es, S), NEW e \in Event,
           NEW i \in S, Settled(es, i)
    PROVE  Settled(Append(es, e), i) /\ EpisodeAt(Append(es, e), i) = EpisodeAt(es, i)
BY TileIs, SettledStays

\* The open episode goes on.
LEMMA FitsByGoingOn ==
    ASSUME NEW es \in Seq(Event), NEW cs, NEW op, NEW from, NEW S, EpisodesFit(es, cs, op, from, S),
           NEW e \in Event, NEW o \in S, ~Settled(es, o),
           \A k \in S : k # o => Settled(es, k) /\ k < o,
           ~StopsAt(Append(es, e), o, Len(es) + 1)
    PROVE  EpisodesFit(Append(es, e), cs, EpisodeTo(Append(es, e), o, Len(es) + 2), from, S)
<1>. DEFINE more == Append(es, e)
            n == Len(es)
<1>1. Tiles(es, S) /\ o \in 1..n /\ Kind(es[o].type) # "none"
  BY TileIs DEF EpisodesFit
<1>2. EpisodeAt(more, o) = EpisodeTo(more, o, n + 2) /\ ~Settled(more, o)
  BY <1>1, GoesOnWithOneMore
<1>3. \A i \in S : i # o => Settled(more, i) /\ EpisodeAt(more, i) = EpisodeAt(es, i)
  BY <1>1, SettledAfterOneMore
<1>4. Tiles(more, S)
  <2>. DEFINE opens == FALSE
  <2>1. EpisodeAt(more, o).end = n + 2
    BY <1>2 DEF EpisodeTo
  <2>2. Tiles(more, IF opens THEN S \cup {n + 1} ELSE S)
    <3>1. opens \in BOOLEAN /\ ~opens
      OBVIOUS
    <3>. HIDE DEF opens
    <3>. QED  BY <1>1, <2>1, <3>1, TilesWithOneMore
  <2>. QED  BY <2>2
<1>5. SettledEpisodes(more, S) = SettledEpisodes(es, S)
  BY <1>2, <1>3 DEF SettledEpisodes
<1>. QED  BY <1>2, <1>4, <1>5 DEF EpisodesFit

\* The open episode ends before the event or with it.
LEMMA FitsByEnding ==
    ASSUME NEW es \in Seq(Event), NEW cs, NEW op, NEW from, NEW S, EpisodesFit(es, cs, op, from, S),
           NEW e \in Event, Kind(e.type) = "none", NEW o \in S, ~Settled(es, o),
           \A k \in S : k # o => Settled(es, k) /\ k < o,
           Settled(Append(es, e), o)
    PROVE  EpisodesFit(Append(es, e), Append(cs, EpisodeAt(Append(es, e), o)), NoEpisode, from, S)
<1>. DEFINE more == Append(es, e)
            n == Len(es)
            ep == EpisodeAt(more, o)
<1>0. Tiles(es, S) /\ Kept(cs, Episode, Start, SettledEpisodes(es, S), from)
  BY DEF EpisodesFit
<1>1. \A i \in S : i # o => Settled(more, i) /\ EpisodeAt(more, i) = EpisodeAt(es, i)
  BY <1>0, SettledAfterOneMore
<1>2. more \in Seq(Event)
  BY SameUpToHere
<1>3. Tiles(more, S)
  <2>. DEFINE opens == FALSE
  <2>2. Tiles(more, IF opens THEN S \cup {n + 1} ELSE S)
    <3>1. opens \in BOOLEAN /\ ~opens
      OBVIOUS
    <3>. HIDE DEF opens
    <3>. QED  BY <1>0, <3>1, TilesWithOneMore
  <2>. QED  BY <2>2
<1>4. ep \in Episode /\ Start[ep] = o
  BY <1>2, <1>3, TileIs
<1>. HIDE DEF more
<1>5. SettledEpisodes(more, S) = SettledEpisodes(es, S) \cup {ep}
  BY <1>1 DEF SettledEpisodes, more
<1>6. \A x \in SettledEpisodes(es, S) : Start[x] < Start[ep]
  <2>. SUFFICES ASSUME NEW i \in S, Settled(es, i) PROVE Start[EpisodeAt(es, i)] < Start[ep]
    BY DEF SettledEpisodes
  <2>. QED  BY <1>0, <1>4, TileIs
<1>. HIDE DEF ep
<1>7. Kept(Append(cs, ep), Episode, Start, SettledEpisodes(es, S) \cup {ep}, from)
  BY <1>0, <1>4, <1>6, SettledAreEpisodes, StartIs, KeptWithOneMore
<1>8. \A i \in S : Settled(more, i)
  BY <1>1 DEF more
<1>. QED  BY <1>3, <1>5, <1>7, <1>8 DEF EpisodesFit, more, ep

\* Nothing is open, and the event belongs to no episode.
LEMMA FitsByNothing ==
    ASSUME NEW es \in Seq(Event), NEW cs, NEW from, NEW S, EpisodesFit(es, cs, NoEpisode, from, S),
           NEW e \in Event, Kind(e.type) = "none"
    PROVE  EpisodesFit(Append(es, e), cs, NoEpisode, from, S)
<1>. DEFINE more == Append(es, e)
            n == Len(es)
<1>0. Tiles(es, S) /\ Kept(cs, Episode, Start, SettledEpisodes(es, S), from)
      /\ \A i \in S : Settled(es, i)
  BY NothingOpenIs DEF EpisodesFit
<1>1. \A i \in S : Settled(more, i) /\ EpisodeAt(more, i) = EpisodeAt(es, i)
  BY <1>0, SettledAfterOneMore
<1>2. Tiles(more, S)
  <2>. DEFINE opens == FALSE
  <2>2. Tiles(more, IF opens THEN S \cup {n + 1} ELSE S)
    <3>1. opens \in BOOLEAN /\ ~opens
      OBVIOUS
    <3>. HIDE DEF opens
    <3>. QED  BY <1>0, <3>1, TilesWithOneMore
  <2>. QED  BY <2>2
<1>3. SettledEpisodes(more, S) = SettledEpisodes(es, S)
  BY <1>0, <1>1 DEF SettledEpisodes
<1>. QED  BY <1>0, <1>1, <1>2, <1>3 DEF EpisodesFit

\* The event opens an episode, after those before it are all settled and kept in cs.
LEMMA FitsByOpening ==
    ASSUME NEW es \in Seq(Event), NEW S, Tiles(es, S), NEW e \in Event, Kind(e.type) # "none",
           NEW cs, NEW from,
           \A i \in S : Settled(Append(es, e), i) /\ EpisodeAt(Append(es, e), i) = EpisodeAt(es, i),
           Kept(cs, Episode, Start, {EpisodeAt(es, i) : i \in S}, from),
           NEW new, new = EpisodeAt(Append(es, e), Len(es) + 1)
    PROVE  IF Kind(e.type) = "RESET"
           THEN EpisodesFit(Append(es, e), Append(cs, new), NoEpisode, from, S \cup {Len(es) + 1})
           ELSE EpisodesFit(Append(es, e), cs, new, from, S \cup {Len(es) + 1})
<1>. DEFINE more == Append(es, e)
            n == Len(es)
            T == S \cup {n + 1}
            all == {EpisodeAt(es, i) : i \in S}
<1>1. more \in Seq(Event) /\ n \in Nat
  BY SameUpToHere
<1>2. \A i \in S : /\ i \in 1..n /\ EpisodeAt(es, i) \in Episode /\ Start[EpisodeAt(es, i)] = i
                   /\ EpisodeAt(es, i).end <= n + 1
  <2>. SUFFICES ASSUME NEW i \in S
                PROVE  /\ i \in 1..n /\ EpisodeAt(es, i) \in Episode /\ Start[EpisodeAt(es, i)] = i
                       /\ EpisodeAt(es, i).end <= n + 1
    OBVIOUS
  <2>1. i \in 1..n /\ EpisodeAt(es, i) \in Episode /\ Start[EpisodeAt(es, i)] = i
    BY TileIs
  <2>2. EpisodeAt(es, i).end \in (i + 1)..(n + 1)
    BY <2>1, EpisodeEnds
  <2>. QED  BY <2>1, <2>2
<1>3. Tiles(more, T)
  <2>. DEFINE opens == TRUE
  <2>2. Tiles(more, IF opens THEN S \cup {n + 1} ELSE S)
    <3>1. opens \in BOOLEAN /\ opens
      OBVIOUS
    <3>2. \A i \in S : EpisodeAt(more, i).end <= n + 1
      BY <1>2
    <3>. HIDE DEF opens
    <3>. QED  BY <3>1, <3>2, TilesWithOneMore
  <2>. QED  BY <2>2
<1>4. Settled(more, n + 1) <=> Kind(e.type) = "RESET"
  BY OpensWithOneMore
<1>5. new \in Episode /\ Start[new] = n + 1
  <2>1. n + 1 \in T /\ new = EpisodeAt(more, n + 1)
    OBVIOUS
  <2>. HIDE DEF more, T, n
  <2>. QED  BY <1>1, <1>3, <2>1, TileIs
<1>6. \A x \in all : Start[x] < Start[new]
  BY <1>1, <1>2, <1>5
<1>7. all \in SUBSET Episode
  BY <1>2
<1>8. n + 1 \notin S
  BY <1>1, <1>2
<1>9. SettledEpisodes(more, T) = IF Kind(e.type) = "RESET" THEN all \cup {new} ELSE all
  <2>1. \A i \in T : i = n + 1 \/ (i \in S /\ Settled(more, i) /\ EpisodeAt(more, i) = EpisodeAt(es, i))
    OBVIOUS
  <2>2. CASE Kind(e.type) = "RESET"
    BY <1>4, <2>1, <2>2 DEF SettledEpisodes
  <2>3. CASE Kind(e.type) # "RESET"
    BY <1>4, <2>1, <2>3 DEF SettledEpisodes
  <2>. QED  BY <2>2, <2>3
<1>10. CASE Kind(e.type) = "RESET"
  <2>1. Kept(Append(cs, new), Episode, Start, all \cup {new}, from)
    <3>. HIDE DEF all
    <3>. QED  BY <1>5, <1>6, <1>7, StartIs, KeptWithOneMore DEF all
  <2>2. \A i \in T : Settled(more, i)
    BY <1>4, <1>10
  <2>. HIDE DEF more, T, all
  <2>3. EpisodesFit(more, Append(cs, new), NoEpisode, from, T)
    BY <1>3, <1>9, <1>10, <2>1, <2>2 DEF EpisodesFit
  <2>. QED  BY <1>10, <2>3 DEF more, T
<1>11. CASE Kind(e.type) # "RESET"
  <2>1. n + 1 \in T /\ ~Settled(more, n + 1) /\ new = EpisodeAt(more, n + 1)
    BY <1>4, <1>11
  <2>2. Kept(cs, Episode, Start, all, from)
    OBVIOUS
  <2>. HIDE DEF more, T, all
  <2>3. EpisodesFit(more, cs, new, from, T)
    BY <1>3, <1>9, <1>11, <2>1, <2>2 DEF EpisodesFit
  <2>. QED  BY <1>11, <2>3 DEF more, T
<1>. QED  BY <1>10, <1>11

EventOf(type, ts) == [type |-> type, ts |-> ts]

LEMMA EventOfIs ==
    ASSUME NEW type \in EventTypes, NEW ts \in Int
    PROVE  EventOf(type, ts) \in Event /\ EventOf(type, ts).type = type /\ EventOf(type, ts).ts = ts
BY DEF EventOf, Event

\* The gap before the event, as the stream and as the whole session see it.
LEMMA HardIs ==
    ASSUME SegmenterTypes, Count # 0, NEW ts
    PROVE  Hard(ts) <=> IsInactive(events[Count].ts, ts)
BY DEF SegmenterTypes, Hard, PrevTs, Count, Last

LEMMA SameFields ==
    ASSUME NEW p \in Episode, NEW q \in Episode, p.kind = q.kind, p.start = q.start, p.end = q.end,
           p.startTs = q.startTs, p.endTs = q.endTs, p.soft = q.soft
    PROVE  p = q
BY DEF Episode

\* What _extend makes of the open episode.
LEMMA ExtendedIs ==
    ASSUME SegmenterTypes, NEW type \in EventTypes, NEW ts \in Int, NEW o \in 1..Count,
           Kind(events[o].type) # "none", ~Settled(events, o), open = EpisodeAt(events, o)
    PROVE  Extended(type, ts) = EpisodeTo(Append(events, EventOf(type, ts)), o, Count + 2)
<1>. DEFINE e == EventOf(type, ts)
            more == Append(events, e)
            n == Count
<1>1. /\ Len(more) = n + 1 /\ n \in Nat /\ more[n + 1] = e /\ \A j \in 1..n : more[j] = events[j]
  BY EventOfIs, SameUpToHere DEF SegmenterTypes, Count
<1>2. open = EpisodeTo(events, o, n + 1)
  BY UnsettledIs DEF SegmenterTypes, Count
<1>3. e.type = type /\ e.ts = ts
  BY EventOfIs
<1>. HIDE DEF e, more, n
<1>4. Marks(more, o, n + 1) = IF type \in Soft THEN Marks(events, o, n) \cup {n + 1}
                              ELSE Marks(events, o, n)
  <2>1. o \in 1..n
    BY DEF n
  <2>2. \A j \in (o + 1)..(n + 1) : (j \in (o + 1)..n /\ j \in 1..n) \/ j = n + 1
    BY <1>1, <2>1
  <2>3. \A j \in (o + 1)..n : j \in (o + 1)..(n + 1) /\ j \in 1..n
    BY <1>1, <2>1
  <2>4. n + 1 \in (o + 1)..(n + 1)
    BY <1>1, <2>1
  <2>. HIDE DEF Soft
  <2>5. \A j \in (o + 1)..n : more[j].type \in Soft <=> events[j].type \in Soft
    BY <1>1, <2>3
  <2>. QED  BY <1>1, <1>3, <2>2, <2>3, <2>4, <2>5 DEF Marks
<1>5. (n + 1) - 1 = n /\ (n + 2) - 1 = n + 1 /\ more[o] = events[o] /\ more[n + 1].ts = ts
  <2>1. o \in 1..n
    BY DEF n
  <2>. QED  BY <1>1, <1>3, <2>1
<1>6. open.soft = Marks(events, o, n)
  BY <1>2, <1>5 DEF EpisodeTo
<1>7. Extended(type, ts) = [open EXCEPT !.end = n + 2, !.endTs = ts, !.soft = Marks(more, o, n + 1)]
  BY <1>4, <1>6 DEF Extended, n
<1>. HIDE DEF Soft
<1>8. Extended(type, ts) = EpisodeTo(more, o, n + 2)
  <2>. DEFINE p == Extended(type, ts)
              q == EpisodeTo(more, o, n + 2)
  <2>1. open \in Episode /\ open # NoEpisode
    <3>1. open \in Episode
      BY EpisodeType DEF SegmenterTypes, Count
    <3>. QED  BY <3>1 DEF Episode, NoEpisode
  <2>2. p \in Episode
    BY <2>1, ExtendedType
  <2>3. /\ q.kind = open.kind /\ q.start = open.start /\ q.startTs = open.startTs
        /\ q.end = n + 2 /\ q.endTs = ts /\ q.soft = Marks(more, o, n + 1)
    BY <1>2, <1>5 DEF EpisodeTo
  <2>4. /\ p.kind = open.kind /\ p.start = open.start /\ p.startTs = open.startTs
        /\ p.end = n + 2 /\ p.endTs = ts /\ p.soft = Marks(more, o, n + 1)
    BY <1>7, <2>1 DEF Episode
  <2>5. q \in Episode
    <3>1. q = [kind |-> open.kind, start |-> open.start, end |-> n + 2, startTs |-> open.startTs,
               endTs |-> ts, soft |-> Marks(more, o, n + 1)]
      BY <1>2, <1>5 DEF EpisodeTo
    <3>2. Marks(more, o, n + 1) \in SUBSET Nat
      BY <1>1 DEF Marks, n
    <3>. HIDE DEF q
    <3>. QED  BY <1>1, <2>1, <3>1, <3>2 DEF Episode
  <2>. HIDE DEF p, q
  <2>6. p = q
    BY <2>2, <2>3, <2>4, <2>5, SameFields
  <2>. QED  BY <2>6 DEF p, q
<1>. QED  BY <1>8 DEF more, e, n

\* EndsRun is what ends a run.
LEMMA EndsRunIs ==
    ASSUME SegmenterTypes, NEW S, EpisodesFit(events, closed, open, window, S),
           NEW type \in EventTypes, NEW ts \in Int
    PROVE  EndsRun(type, ts) <=> Ends(events, S, EventOf(type, ts))
<1>1. events \in Seq(Event) /\ Tiles(events, S)
  BY DEF EpisodesFit, SegmenterTypes
<1>2. EventOf(type, ts).type = type /\ EventOf(type, ts).ts = ts
  BY EventOfIs
<1>3. CASE open = NoEpisode
  <2>1. \A i \in S : Settled(events, i)
    BY <1>1, <1>3, NothingOpenIs
  <2>. QED  BY <1>3, <2>1 DEF EndsRun, Ends
<1>4. CASE open # NoEpisode
  <2>1. PICK o \in S : /\ ~Settled(events, o) /\ open = EpisodeAt(events, o)
                       /\ \A k \in S : k # o => Settled(events, k) /\ k < o
    BY <1>1, <1>4, OpenIs
  <2>2. open.kind = Kind(events[o].type) /\ o \in 1..Count
    BY <1>1, <2>1, TileIs DEF Count
  <2>3. Count # 0
    BY <2>2
  <2>4. Hard(ts) <=> IsInactive(events[Len(events)].ts, ts)
    BY <2>3, HardIs DEF Count
  <2>. QED  BY <1>2, <1>4, <2>1, <2>2, <2>4 DEF EndsRun, Ends
<1>. QED  BY <1>3, <1>4

LEMMA PushFits ==
    ASSUME SegmenterTypes, NEW S, EpisodesFit(events, closed, open, window, S),
           NEW type \in EventTypes, NEW ts \in Int, SegmenterPush(type, ts)
    PROVE  \E T : /\ EpisodesFit(events', closed', open', window', T)
                  /\ Clean(events', T) = IF EndsRun(type, ts) THEN Clean(events, S) \cup {Count + 1}
                                         ELSE Clean(events, S)
<1>. DEFINE e == EventOf(type, ts)
            n == Count
            more == Append(events, e)
<1>1. events \in Seq(Event) /\ Tiles(events, S) /\ e \in Event /\ e.type = type /\ e.ts = ts
      /\ n = Len(events) /\ n \in Nat
  BY EventOfIs DEF EpisodesFit, SegmenterTypes, Count
<1>2. events' = more /\ window' = window
  BY DEF SegmenterPush, EventOf
<1>3. more[n + 1] = e /\ (n + 1) - 1 = n /\ \A j \in 1..n : more[j] = events[j]
  BY <1>1, SameUpToHere
<1>4. Clean(more, S) = IF EndsRun(type, ts) THEN Clean(events, S) \cup {n + 1} ELSE Clean(events, S)
  BY <1>1, CleanWithOneMore, EndsRunIs
<1>. HIDE DEF e, more, n
<1>5. Absorb(type, ts) \/ EndRunEpisode(type, ts) \/ CloseAndOpen(type, ts)
  BY DEF SegmenterPush
<1>6. CASE open = NoEpisode
  <2>1. CloseAndOpen(type, ts)
    BY <1>5, <1>6 DEF Absorb, GoesOn, EndRunEpisode, EndsRun
  <2>2. \A i \in S : Settled(more, i) /\ EpisodeAt(more, i) = EpisodeAt(events, i)
    BY <1>1, <1>6, NothingOpenIs, SettledAfterOneMore DEF more
  <2>3. CASE Kind(type) = "none"
    <3>1. EpisodesFit(more, closed, NoEpisode, window, S)
      BY <1>1, <1>6, <2>3, FitsByNothing DEF more
    <3>2. closed' = closed /\ open' = NoEpisode
      BY <1>6, <2>1, <2>3 DEF CloseAndOpen
    <3>. QED  BY <1>2, <1>4, <3>1, <3>2 DEF n
  <2>4. CASE Kind(type) # "none"
    <3>. DEFINE new == NewEpisode(type, ts)
                T == S \cup {n + 1}
    <3>1. new = EpisodeAt(more, n + 1)
      <4>1. EpisodeAt(more, n + 1) = [kind |-> Kind(type), start |-> n + 1, end |-> n + 2,
                                      startTs |-> ts, endTs |-> ts, soft |-> {}]
        BY <1>1, <2>4, OpensWithOneMore DEF more
      <4>. QED  BY <4>1 DEF NewEpisode, n
    <3>2. /\ closed' = IF Kind(type) = "RESET" THEN Append(closed, new) ELSE closed
          /\ open' = IF Kind(type) = "RESET" THEN NoEpisode ELSE new
      <4>1. Kind(type) \in {"CODE", "RUN", "RESET"}
        BY <2>4 DEF Kind
      <4>. QED  BY <1>6, <2>1, <4>1 DEF CloseAndOpen, NewEpisode
    <3>3. Kept(closed, Episode, Start, {EpisodeAt(events, i) : i \in S}, window)
      <4>1. \A i \in S : Settled(events, i)
        BY <1>1, <1>6, NothingOpenIs
      <4>2. SettledEpisodes(events, S) = {EpisodeAt(events, i) : i \in S}
        BY <4>1 DEF SettledEpisodes
      <4>. QED  BY <4>2 DEF EpisodesFit
    <3>. HIDE DEF new
    <3>4. IF Kind(type) = "RESET" THEN EpisodesFit(more, Append(closed, new), NoEpisode, window, T)
          ELSE EpisodesFit(more, closed, new, window, T)
      BY <1>1, <2>2, <2>4, <3>1, <3>3, FitsByOpening DEF more
    <3>5. EpisodesFit(more, closed', open', window, T)
      BY <3>2, <3>4
    <3>6. Clean(more, T) = Clean(more, S)
      BY <1>1, <2>4, CleanWithOneOpened DEF more
    <3>. QED  BY <1>2, <1>4, <3>5, <3>6 DEF n
  <2>. QED  BY <2>3, <2>4
<1>7. CASE open # NoEpisode
  <2>1. PICK o \in S : /\ ~Settled(events, o) /\ open = EpisodeAt(events, o)
                       /\ \A k \in S : k # o => Settled(events, k) /\ k < o
    BY <1>1, <1>7, OpenIs
  <2>2. /\ o \in 1..n /\ Kind(events[o].type) # "none" /\ open.kind = Kind(events[o].type)
        /\ open \in Episode /\ Start[open] = o
    BY <1>1, <2>1, TileIs
  <2>3. Hard(ts) <=> IsInactive(events[n].ts, ts)
    BY <1>1, <2>2, HardIs DEF n
  <2>4. n \in 1..n
    BY <1>1, <2>2
  <2>5. StopsAt(more, o, n + 1) <=> Hard(ts) \/ ~Absorbs(open.kind, type)
    BY <1>1, <1>3, <2>2, <2>3, <2>4 DEF StopsAt
  <2>6. GoesOn(type, ts) <=> ~StopsAt(more, o, n + 1)
    BY <1>7, <2>5 DEF GoesOn
  <2>7. Extended(type, ts) = EpisodeTo(more, o, n + 2)
    BY <2>1, <2>2, ExtendedIs DEF more, n, e
  <2>8. CASE Absorb(type, ts)
    <3>1. ~StopsAt(more, o, n + 1)
      BY <2>6, <2>8 DEF Absorb
    <3>2. EpisodesFit(more, closed, EpisodeTo(more, o, n + 2), window, S)
      BY <1>1, <2>1, <3>1, FitsByGoingOn DEF more
    <3>3. EpisodesFit(more, closed', open', window, S)
      BY <2>7, <2>8, <3>2 DEF Absorb
    <3>. QED  BY <1>2, <1>4, <3>3 DEF n
  <2>9. CASE EndRunEpisode(type, ts)
    <3>1. EndsRun(type, ts)
      BY <2>9 DEF EndRunEpisode
    <3>2. type = "projectEnd" /\ Kind(events[o].type) = "RUN" /\ ~IsInactive(events[n].ts, ts)
      BY <2>2, <2>3, <3>1 DEF EndsRun
    <3>3. EpisodeAt(more, o) = EpisodeTo(more, o, n + 2) /\ Settled(more, o)
      BY <1>1, <2>1, <2>2, <3>2, EndsWithOneMore DEF more
    <3>4. Kind(type) = "none"
      BY <3>2 DEF Kind
    <3>5. EpisodesFit(more, Append(closed, EpisodeAt(more, o)), NoEpisode, window, S)
      BY <1>1, <2>1, <3>3, <3>4, FitsByEnding DEF more
    <3>6. closed' = Append(closed, EpisodeAt(more, o)) /\ open' = NoEpisode
      BY <2>7, <2>9, <3>3 DEF EndRunEpisode
    <3>. QED  BY <1>2, <1>4, <3>5, <3>6 DEF n
  <2>10. CASE CloseAndOpen(type, ts)
    <3>1. StopsAt(more, o, n + 1) /\ ~EndsRun(type, ts)
      BY <2>6, <2>10 DEF CloseAndOpen
    <3>2. ~(Kind(events[o].type) = "RUN" /\ type = "projectEnd" /\ ~IsInactive(events[n].ts, ts))
      BY <1>7, <2>2, <2>3, <3>1 DEF EndsRun
    <3>3. EpisodeAt(more, o) = open /\ Settled(more, o)
      BY <1>1, <2>1, <2>2, <3>1, <3>2, StopsBeforeOneMore DEF more
    <3>4. CASE Kind(type) = "none"
      <4>1. EpisodesFit(more, Append(closed, open), NoEpisode, window, S)
        BY <1>1, <2>1, <3>3, <3>4, FitsByEnding DEF more
      <4>2. closed' = Append(closed, open) /\ open' = NoEpisode
        BY <1>7, <2>10, <3>4 DEF CloseAndOpen
      <4>. QED  BY <1>2, <1>4, <4>1, <4>2 DEF n
    <3>5. CASE Kind(type) # "none"
      <4>. DEFINE new == NewEpisode(type, ts)
                  T == S \cup {n + 1}
                  cs == Append(closed, open)
      <4>1. new = EpisodeAt(more, n + 1)
        <5>1. EpisodeAt(more, n + 1) = [kind |-> Kind(type), start |-> n + 1, end |-> n + 2,
                                        startTs |-> ts, endTs |-> ts, soft |-> {}]
          BY <1>1, <3>5, OpensWithOneMore DEF more
        <5>. QED  BY <5>1 DEF NewEpisode, n
      <4>2. /\ closed' = IF Kind(type) = "RESET" THEN Append(cs, new) ELSE cs
            /\ open' = IF Kind(type) = "RESET" THEN NoEpisode ELSE new
        <5>1. Kind(type) \in {"CODE", "RUN", "RESET"}
          BY <3>5 DEF Kind
        <5>. QED  BY <1>7, <2>10, <5>1 DEF CloseAndOpen, NewEpisode
      <4>3. \A i \in S : Settled(more, i) /\ EpisodeAt(more, i) = EpisodeAt(events, i)
        BY <1>1, <2>1, <3>3, SettledAfterOneMore DEF more
      <4>4. Kept(cs, Episode, Start, {EpisodeAt(events, i) : i \in S}, window)
        <5>1. {EpisodeAt(events, i) : i \in S} = SettledEpisodes(events, S) \cup {open}
          BY <2>1 DEF SettledEpisodes
        <5>2. \A x \in SettledEpisodes(events, S) : Start[x] < Start[open]
          <6>. SUFFICES ASSUME NEW i \in S, Settled(events, i)
                        PROVE  Start[EpisodeAt(events, i)] < Start[open]
            BY DEF SettledEpisodes
          <6>. QED  BY <1>1, <2>1, <2>2, TileIs
        <5>3. Kept(closed, Episode, Start, SettledEpisodes(events, S), window)
          BY DEF EpisodesFit
        <5>4. Kept(cs, Episode, Start, SettledEpisodes(events, S) \cup {open}, window)
          BY <1>1, <2>2, <5>2, <5>3, SettledAreEpisodes, StartIs, KeptWithOneMore
        <5>. QED  BY <5>1, <5>4
      <4>. HIDE DEF new, cs
      <4>5. IF Kind(type) = "RESET" THEN EpisodesFit(more, Append(cs, new), NoEpisode, window, T)
            ELSE EpisodesFit(more, cs, new, window, T)
        BY <1>1, <3>5, <4>1, <4>3, <4>4, FitsByOpening DEF more
      <4>6. EpisodesFit(more, closed', open', window, T)
        BY <4>2, <4>5
      <4>7. Clean(more, T) = Clean(more, S)
        BY <1>1, <3>5, CleanWithOneOpened DEF more
      <4>. QED  BY <1>2, <1>4, <4>6, <4>7 DEF n
    <3>. QED  BY <3>4, <3>5
  <2>. QED  BY <1>5, <2>8, <2>9, <2>10
<1>. QED  BY <1>6, <1>7

-----------------------------------------------------------------------------
(***************************************************************************)
(* The pauses kept one event at a time.                                    *)
(***************************************************************************)
LEMMA PauseIs ==
    ASSUME NEW type \in {"INACTIVE_PAUSE", "POST_RUN_PAUSE"}, NEW after \in Int, NEW duration \in Int
    PROVE  /\ Pause(type, after, duration) \in PauseType
           /\ PausedAfter[Pause(type, after, duration)] = after
           /\ Pause(type, after, duration).after = after
<1>1. Pause(type, after, duration) \in PauseType /\ Pause(type, after, duration).after = after
  BY DEF Pause, PauseType
<1>. QED  BY <1>1, AfterIs

LEMMA TimesAre ==
    ASSUME NEW es \in Seq(Event), NEW i \in 1..Len(es)
    PROVE  es[i] \in Event /\ es[i].ts \in Int /\ es[i].type \in EventTypes
<1>1. es[i] \in Event
  OBVIOUS
<1>. QED  BY <1>1 DEF Event

LEMMA InactiveAre ==
    ASSUME NEW es \in Seq(Event)
    PROVE  /\ InactivePauses(es) \in SUBSET PauseType
           /\ \A p \in InactivePauses(es) : PausedAfter[p] \in 1..(Len(es) - 1)
<1>. SUFFICES ASSUME NEW i \in 1..(Len(es) - 1)
              PROVE  /\ Pause("INACTIVE_PAUSE", i, es[i + 1].ts - es[i].ts) \in PauseType
                     /\ PausedAfter[Pause("INACTIVE_PAUSE", i, es[i + 1].ts - es[i].ts)] = i
  BY DEF InactivePauses
<1>1. i \in 1..Len(es) /\ i + 1 \in 1..Len(es) /\ i \in Int
  OBVIOUS
<1>2. es[i + 1].ts \in Int /\ es[i].ts \in Int
  BY <1>1, TimesAre
<1>3. es[i + 1].ts - es[i].ts \in Int
  BY <1>2
<1>. QED  BY <1>1, <1>3, PauseIs

LEMMA InactiveWithOneMore ==
    ASSUME NEW es \in Seq(Event), NEW e \in Event
    PROVE  InactivePauses(Append(es, e)) =
             IF Len(es) # 0 /\ IsInactive(es[Len(es)].ts, e.ts)
             THEN InactivePauses(es) \cup {Pause("INACTIVE_PAUSE", Len(es), e.ts - es[Len(es)].ts)}
             ELSE InactivePauses(es)
<1>. DEFINE more == Append(es, e)
            n == Len(es)
            at(s, j) == Pause("INACTIVE_PAUSE", j, s[j + 1].ts - s[j].ts)
            long(s, j) == IsInactive(s[j].ts, s[j + 1].ts)
<1>1. /\ Len(more) = n + 1 /\ n \in Nat /\ more[n + 1] = e /\ (n + 1) - 1 = n
      /\ \A j \in 1..n : more[j] = es[j]
  BY SameUpToHere
<1>2. /\ InactivePauses(more) = {at(more, j) : j \in {k \in 1..n : long(more, k)}}
      /\ InactivePauses(es) = {at(es, j) : j \in {k \in 1..(n - 1) : long(es, k)}}
  BY <1>1 DEF InactivePauses
<1>. HIDE DEF more, n
<1>3. \A j \in 1..(n - 1) : j \in 1..n /\ j + 1 \in 1..n
  BY <1>1
<1>4. \A j \in 1..(n - 1) : at(more, j) = at(es, j) /\ (long(more, j) <=> long(es, j))
  BY <1>1, <1>3
<1>5. n # 0 => /\ n \in 1..n /\ at(more, n) = Pause("INACTIVE_PAUSE", n, e.ts - es[n].ts)
               /\ (long(more, n) <=> IsInactive(es[n].ts, e.ts))
  BY <1>1
<1>6. \A j \in 1..n : (j \in 1..(n - 1) \/ j = n) /\ n # 0
  BY <1>1
<1>. DEFINE hard == n # 0 /\ IsInactive(es[n].ts, e.ts)
            new == Pause("INACTIVE_PAUSE", n, e.ts - es[n].ts)
<1>7. \A x \in InactivePauses(more) : x \in InactivePauses(es) \/ (hard /\ x = new)
  <2>. SUFFICES ASSUME NEW j \in 1..n, long(more, j)
                PROVE  at(more, j) \in InactivePauses(es) \/ (hard /\ at(more, j) = new)
    BY <1>2
  <2>. HIDE DEF at, long
  <2>1. CASE j \in 1..(n - 1)
    BY <1>2, <1>4, <2>1
  <2>2. CASE j = n
    BY <1>5, <1>6, <2>2
  <2>. QED  BY <1>6, <2>1, <2>2
<1>8. \A x \in InactivePauses(es) : x \in InactivePauses(more)
  <2>. HIDE DEF at, long
  <2>. QED  BY <1>2, <1>3, <1>4
<1>9. hard => new \in InactivePauses(more)
  <2>. HIDE DEF at, long
  <2>. QED  BY <1>2, <1>5
<1>. HIDE DEF hard, new
<1>10. InactivePauses(more) = IF hard THEN InactivePauses(es) \cup {new} ELSE InactivePauses(es)
  BY <1>7, <1>8, <1>9
<1>. QED  BY <1>10 DEF hard, new, more, n

LEMMA PushKeepsInactive ==
    ASSUME SegmenterTypes, NEW type \in EventTypes, NEW ts \in Int, SegmenterPush(type, ts),
           Kept(inactive, PauseType, PausedAfter, InactivePauses(events), window)
    PROVE  Kept(inactive', PauseType, PausedAfter, InactivePauses(events'), window')
<1>. DEFINE e == EventOf(type, ts)
            n == Count
            new == Pause("INACTIVE_PAUSE", n, ts - PrevTs)
<1>1. /\ events' = Append(events, e) /\ window' = window /\ events \in Seq(Event)
      /\ inactive' = IF Hard(ts) THEN Append(inactive, new) ELSE inactive
      /\ n = Len(events) /\ n \in Nat
  BY DEF SegmenterPush, EventOf, SegmenterTypes, Count
<1>2. e \in Event /\ e.ts = ts
  BY EventOfIs
<1>3. Hard(ts) <=> n # 0 /\ IsInactive(events[n].ts, ts)
  <2>1. n = 0 => ~Hard(ts)
    BY DEF Hard, PrevTs, IsInactive, GapWithin
  <2>2. n # 0 => (Hard(ts) <=> IsInactive(events[n].ts, ts))
    BY HardIs
  <2>. QED  BY <2>1, <2>2
<1>4. n # 0 => PrevTs = events[n].ts
  BY <1>1 DEF PrevTs, Last
<1>. HIDE DEF e, n
<1>5. CASE Hard(ts)
  <2>1. InactivePauses(events') = InactivePauses(events) \cup {new}
    BY <1>1, <1>2, <1>3, <1>4, <1>5, InactiveWithOneMore
  <2>2. new \in PauseType /\ PausedAfter[new] = n
    <3>1. n \in 1..Len(events)
      BY <1>1, <1>3, <1>5
    <3>2. PrevTs \in Int
      BY <1>1, <1>3, <1>4, <1>5, <3>1, TimesAre
    <3>3. ts - PrevTs \in Int /\ n \in Int
      BY <1>1, <3>2
    <3>. QED  BY <3>3, PauseIs
  <2>3. /\ InactivePauses(events) \in SUBSET PauseType
        /\ \A p \in InactivePauses(events) : PausedAfter[p] \in 1..(n - 1)
    BY <1>1, InactiveAre
  <2>4. \A p \in InactivePauses(events) : PausedAfter[p] < PausedAfter[new]
    BY <1>1, <2>2, <2>3
  <2>. HIDE DEF new
  <2>5. Kept(Append(inactive, new), PauseType, PausedAfter, InactivePauses(events) \cup {new}, window)
    BY <2>2, <2>3, <2>4, AfterIs, KeptWithOneMore
  <2>. QED  BY <1>1, <1>5, <2>1, <2>5
<1>6. CASE ~Hard(ts)
  BY <1>1, <1>2, <1>3, <1>6, InactiveWithOneMore
<1>. QED  BY <1>5, <1>6

-----------------------------------------------------------------------------
\* The event that ends the wait after i, as further events come.
LEMMA NextIs ==
    ASSUME NEW es \in Seq(Event), NEW i \in 1..Len(es)
    PROVE  /\ NextReal(es, i) \in (i + 1)..(Len(es) + 1)
           /\ \A j \in (i + 1)..(NextReal(es, i) - 1) : es[j].type \in Transparent
           /\ NextReal(es, i) <= Len(es) => es[NextReal(es, i)].type \notin Transparent
<1>. DEFINE n == Len(es)
            real == {n + 1} \cup {j \in (i + 1)..n : es[j].type \notin Transparent}
            m == NextReal(es, i)
<1>1. n \in Nat /\ i \in 1..n /\ i \in Nat
  OBVIOUS
<1>2. m \in real /\ \A j \in real : m <= j
  <2>1. real \in SUBSET Nat /\ real # {}
    BY <1>1
  <2>2. m = CHOOSE k \in real : \A j \in real : k <= j
    BY DEF NextReal, Min
  <2>. HIDE DEF real, m
  <2>3. \E k \in real : \A j \in real : k <= j
    BY <2>1, LeastIsThere
  <2>. QED  BY <2>2, <2>3
<1>. HIDE DEF m, n
<1>3. m \in (i + 1)..(n + 1)
  BY <1>1, <1>2
<1>4. ASSUME NEW j \in (i + 1)..(m - 1) PROVE es[j].type \in Transparent
  <2>1. j \in (i + 1)..n /\ ~(m <= j)
    BY <1>1, <1>3
  <2>. QED  BY <1>2, <2>1
<1>5. m <= n => es[m].type \notin Transparent
  BY <1>1, <1>2
<1>. QED  BY <1>3, <1>4, <1>5 DEF m, n

LEMMA NextIsThis ==
    ASSUME NEW es \in Seq(Event), NEW i \in 1..Len(es), NEW m \in (i + 1)..(Len(es) + 1),
           \A j \in (i + 1)..(m - 1) : es[j].type \in Transparent,
           m <= Len(es) => es[m].type \notin Transparent
    PROVE  NextReal(es, i) = m
<1>. DEFINE k == NextReal(es, i)
<1>1. /\ k \in (i + 1)..(Len(es) + 1)
      /\ \A j \in (i + 1)..(k - 1) : es[j].type \in Transparent
      /\ k <= Len(es) => es[k].type \notin Transparent
  BY NextIs
<1>. HIDE DEF k, Transparent
<1>2. Len(es) \in Nat /\ k \in Nat /\ m \in Nat
  BY <1>1
<1>3. ~(k < m)
  <2>1. k < m => k \in (i + 1)..(m - 1) /\ k <= Len(es)
    BY <1>1, <1>2
  <2>. QED  BY <1>1, <2>1
<1>4. ~(m < k)
  <2>1. m < k => m \in (i + 1)..(k - 1) /\ m <= Len(es)
    BY <1>1, <1>2
  <2>. QED  BY <1>1, <2>1
<1>. QED  BY <1>2, <1>3, <1>4 DEF k

LEMMA NextWithOneMore ==
    ASSUME NEW es \in Seq(Event), NEW e \in Event, NEW i \in 1..Len(es)
    PROVE  NextReal(Append(es, e), i) =
             IF NextReal(es, i) <= Len(es) THEN NextReal(es, i)
             ELSE IF e.type \in Transparent THEN Len(es) + 2 ELSE Len(es) + 1
<1>. DEFINE more == Append(es, e)
            n == Len(es)
            k == NextReal(es, i)
            m == IF k <= n THEN k ELSE IF e.type \in Transparent THEN n + 2 ELSE n + 1
<1>1. /\ more \in Seq(Event) /\ Len(more) = n + 1 /\ n \in Nat /\ i \in 1..n
      /\ \A j \in 1..n : more[j] = es[j]
      /\ more[n + 1] = e
  BY SameUpToHere
<1>2. /\ k \in (i + 1)..(n + 1)
      /\ \A j \in (i + 1)..(k - 1) : es[j].type \in Transparent
      /\ k <= n => es[k].type \notin Transparent
  BY NextIs
<1>. HIDE DEF more, n, k, Transparent
<1>3. m \in (i + 1)..(Len(more) + 1) /\ i \in 1..Len(more)
  BY <1>1, <1>2
<1>4. ASSUME NEW j \in (i + 1)..(m - 1) PROVE more[j].type \in Transparent
  <2>1. (j \in 1..n /\ j \in (i + 1)..(k - 1)) \/ (j = n + 1 /\ e.type \in Transparent)
    BY <1>1, <1>2, <1>3
  <2>. QED  BY <1>1, <1>2, <2>1
<1>5. m <= Len(more) => more[m].type \notin Transparent
  <2>1. CASE k <= n
    <3>1. k \in 1..n
      BY <1>1, <1>2, <2>1
    <3>. QED  BY <1>1, <1>2, <2>1, <3>1
  <2>2. CASE ~(k <= n)
    <3>1. ~(n + 2 <= n + 1)
      BY <1>1
    <3>. QED  BY <1>1, <2>2, <3>1
  <2>. QED  BY <2>1, <2>2
<1>. HIDE DEF m
<1>6. NextReal(more, i) = m
  BY <1>1, <1>3, <1>4, <1>5, NextIsThis
<1>. QED  BY <1>6 DEF m, k, more, n

LEMMA NextOfTheLast ==
    ASSUME NEW es \in Seq(Event), NEW e \in Event
    PROVE  NextReal(Append(es, e), Len(es) + 1) = Len(es) + 2
<1>. DEFINE more == Append(es, e)
            n == Len(es)
<1>1. more \in Seq(Event) /\ Len(more) = n + 1 /\ n \in Nat
  BY SameUpToHere
<1>2. n + 1 \in 1..Len(more)
  BY <1>1
<1>. HIDE DEF more
<1>3. NextReal(more, n + 1) \in ((n + 1) + 1)..((n + 1) + 1)
  BY <1>1, <1>2, NextIs
<1>. HIDE DEF n
<1>4. NextReal(more, n + 1) = n + 2
  BY <1>1, <1>3
<1>. QED  BY <1>4 DEF more, n

\* The pauses after the runs that ended at C.
PostRunAt(es, i) == Pause("POST_RUN_PAUSE", i, es[NextReal(es, i)].ts - es[i].ts)
Paused(es, i) == NextReal(es, i) <= Len(es) /\ IsPostRun(es[i].ts, es[NextReal(es, i)].ts)
PostRuns(es, C) == {PostRunAt(es, i) : i \in {j \in C : Paused(es, j)}}

AreEnds(es, C) == C \in SUBSET (1..Len(es)) /\ \A i \in C : es[i].type = "projectEnd"

\* At most one of the runs is still waited for, the last, and aw holds it.
WaitingFits(es, C, aw) ==
    \/ aw = <<>> /\ \A j \in C : NextReal(es, j) <= Len(es)
    \/ \E i \in C : /\ ~(NextReal(es, i) <= Len(es))
                    /\ aw = <<[last |-> i, ts |-> es[i].ts]>>
                    /\ \A j \in C : j # i => NextReal(es, j) <= Len(es)

LEMMA PostRunIs ==
    ASSUME NEW es \in Seq(Event), NEW i \in 1..Len(es), NextReal(es, i) <= Len(es)
    PROVE  PostRunAt(es, i) \in PauseType /\ PausedAfter[PostRunAt(es, i)] = i
<1>1. NextReal(es, i) \in 1..Len(es)
  BY NextIs
<1>2. es[NextReal(es, i)].ts \in Int /\ es[i].ts \in Int
  BY <1>1, TimesAre
<1>3. es[NextReal(es, i)].ts - es[i].ts \in Int /\ i \in Int
  BY <1>2
<1>. QED  BY <1>3, PauseIs DEF PostRunAt

LEMMA PostRunsAre ==
    ASSUME NEW es \in Seq(Event), NEW C, AreEnds(es, C)
    PROVE  /\ PostRuns(es, C) \in SUBSET PauseType
           /\ \A p \in PostRuns(es, C) : \E i \in C : Paused(es, i) /\ p = PostRunAt(es, i) /\ PausedAfter[p] = i
<1>. SUFFICES ASSUME NEW i \in C, Paused(es, i)
              PROVE  PostRunAt(es, i) \in PauseType /\ PausedAfter[PostRunAt(es, i)] = i
  BY DEF PostRuns
<1>1. i \in 1..Len(es) /\ NextReal(es, i) <= Len(es)
  BY DEF AreEnds, Paused
<1>. QED  BY <1>1, PostRunIs

\* What has been decided stays.
LEMMA DecidedStays ==
    ASSUME NEW es \in Seq(Event), NEW e \in Event, NEW i \in 1..Len(es), NextReal(es, i) <= Len(es)
    PROVE  /\ NextReal(Append(es, e), i) = NextReal(es, i)
           /\ PostRunAt(Append(es, e), i) = PostRunAt(es, i)
           /\ Paused(Append(es, e), i) <=> Paused(es, i)
<1>. DEFINE more == Append(es, e)
            n == Len(es)
            k == NextReal(es, i)
<1>1. Len(more) = n + 1 /\ n \in Nat /\ i \in 1..n /\ \A j \in 1..n : more[j] = es[j]
  BY SameUpToHere
<1>2. k \in 1..n
  BY NextIs
<1>3. NextReal(more, i) = k
  BY NextWithOneMore
<1>. HIDE DEF more, n, k
<1>4. more[k] = es[k] /\ more[i] = es[i] /\ k <= n /\ k <= n + 1
  BY <1>1, <1>2
<1>5. PostRunAt(more, i) = PostRunAt(es, i)
  BY <1>3, <1>4 DEF PostRunAt, k
<1>6. Paused(more, i) <=> Paused(es, i)
  BY <1>1, <1>3, <1>4 DEF Paused, k, n
<1>. QED  BY <1>3, <1>5, <1>6 DEF more, k

\* A run that ends with the last event is waited for.
LEMMA PostRunsOfTheLast ==
    ASSUME NEW es \in Seq(Event), NEW e \in Event, NEW C
    PROVE  PostRuns(Append(es, e), C \cup {Len(es) + 1}) = PostRuns(Append(es, e), C)
<1>1. ~Paused(Append(es, e), Len(es) + 1)
  <2>1. NextReal(Append(es, e), Len(es) + 1) = Len(es) + 2
    BY NextOfTheLast
  <2>2. Len(Append(es, e)) = Len(es) + 1 /\ Len(es) \in Nat
    BY SameUpToHere
  <2>3. ~(Len(es) + 2 <= Len(es) + 1)
    BY <2>2
  <2>. QED  BY <2>1, <2>2, <2>3 DEF Paused
<1>. QED  BY <1>1 DEF PostRuns

LEMMA NothingNewDecided ==
    ASSUME NEW es \in Seq(Event), NEW e \in Event, NEW C, AreEnds(es, C),
           \A j \in C : NextReal(es, j) <= Len(es) \/ e.type \in Transparent
    PROVE  PostRuns(Append(es, e), C) = PostRuns(es, C)
<1>. DEFINE more == Append(es, e)
            n == Len(es)
<1>1. Len(more) = n + 1 /\ n \in Nat /\ ~(n + 2 <= n + 1)
  BY SameUpToHere
<1>2. ASSUME NEW j \in C
      PROVE  /\ Paused(more, j) <=> Paused(es, j)
             /\ Paused(es, j) => PostRunAt(more, j) = PostRunAt(es, j)
  <2>1. j \in 1..n
    BY DEF AreEnds
  <2>2. CASE NextReal(es, j) <= n
    BY <2>1, <2>2, DecidedStays
  <2>3. CASE ~(NextReal(es, j) <= n)
    <3>1. NextReal(more, j) = n + 2
      BY <2>1, <2>3, NextWithOneMore
    <3>. HIDE DEF more, n
    <3>. QED  BY <1>1, <2>3, <3>1 DEF Paused, n
  <2>. QED  BY <2>2, <2>3
<1>. QED  BY <1>2 DEF PostRuns

LEMMA OneDecided ==
    ASSUME NEW es \in Seq(Event), NEW e \in Event, NEW C, AreEnds(es, C),
           NEW i \in C, ~(NextReal(es, i) <= Len(es)), e.type \notin Transparent,
           \A j \in C : j # i => NextReal(es, j) <= Len(es)
    PROVE  PostRuns(Append(es, e), C) =
             IF IsPostRun(es[i].ts, e.ts)
             THEN PostRuns(es, C) \cup {Pause("POST_RUN_PAUSE", i, e.ts - es[i].ts)}
             ELSE PostRuns(es, C)
<1>. DEFINE more == Append(es, e)
            n == Len(es)
            new == Pause("POST_RUN_PAUSE", i, e.ts - es[i].ts)
<1>1. /\ Len(more) = n + 1 /\ n \in Nat /\ i \in 1..n /\ more[n + 1] = e
      /\ more[i] = es[i] /\ \A j \in C : j \in 1..n
  BY SameUpToHere DEF AreEnds
<1>2. NextReal(more, i) = n + 1
  BY <1>1, NextWithOneMore
<1>3. PostRunAt(more, i) = new /\ (Paused(more, i) <=> IsPostRun(es[i].ts, e.ts))
  <2>. HIDE DEF more, n
  <2>1. n + 1 <= n + 1
    BY <1>1
  <2>. QED  BY <1>1, <1>2, <2>1 DEF PostRunAt, Paused
<1>4. ~Paused(es, i)
  BY DEF Paused
<1>5. \A j \in C : j # i => /\ PostRunAt(more, j) = PostRunAt(es, j)
                            /\ Paused(more, j) <=> Paused(es, j)
  BY <1>1, DecidedStays
<1>. HIDE DEF more, n, new
<1>. DEFINE decided == IsPostRun(es[i].ts, e.ts)
<1>. HIDE DEF decided
<1>6. PostRuns(more, C) = IF decided THEN PostRuns(es, C) \cup {new} ELSE PostRuns(es, C)
  <2>1. \A x \in PostRuns(more, C) : x \in PostRuns(es, C) \/ (decided /\ x = new)
    BY <1>3, <1>5 DEF PostRuns, decided
  <2>2. \A x \in PostRuns(es, C) : x \in PostRuns(more, C)
    BY <1>4, <1>5 DEF PostRuns
  <2>3. decided => new \in PostRuns(more, C)
    BY <1>3 DEF PostRuns, decided
  <2>. QED  BY <2>1, <2>2, <2>3
<1>. QED  BY <1>6 DEF decided, new, more

\* What _decide makes of the runs waited for.
LEMMA DecidedIs ==
    ASSUME NEW type, NEW ts \in Int
    PROVE  /\ awaiting = <<>> \/ type \in Transparent => Decided(type, ts) = <<>>
           /\ \A i, since : awaiting = <<[last |-> i, ts |-> since]>> /\ type \notin Transparent
                => Decided(type, ts) = IF IsPostRun(since, ts)
                                       THEN <<Pause("POST_RUN_PAUSE", i, ts - since)>> ELSE <<>>
<1>. DEFINE S == {a \in ToSet(awaiting) : IsPostRun(a.ts, ts)}
            due == Only(awaiting, S)
<1>1. Decided(type, ts) = IF StillAwaiting(type) # <<>> THEN <<>>
                          ELSE [i \in DOMAIN due |-> Pause("POST_RUN_PAUSE", due[i].last, ts - due[i].ts)]
  BY DEF Decided
<1>2. due = <<>> => [i \in DOMAIN due |-> Pause("POST_RUN_PAUSE", due[i].last, ts - due[i].ts)] = <<>>
  <2>. HIDE DEF due
  <2>. QED  OBVIOUS
<1>3. awaiting = <<>> => Decided(type, ts) = <<>>
  <2>1. awaiting = <<>> => due = <<>>
    BY OnlyOfEmpty
  <2>. HIDE DEF due, S
  <2>. QED  BY <1>1, <1>2, <2>1
<1>4. type \in Transparent => Decided(type, ts) = <<>>
  BY <1>1, <1>3 DEF StillAwaiting
<1>5. ASSUME NEW i, NEW since, awaiting = <<[last |-> i, ts |-> since]>>, type \notin Transparent
      PROVE  Decided(type, ts) = IF IsPostRun(since, ts)
                                 THEN <<Pause("POST_RUN_PAUSE", i, ts - since)>> ELSE <<>>
  <2>. DEFINE a == [last |-> i, ts |-> since]
              none == <<>>
  <2>1. none \in Seq({a}) /\ a \in {a} /\ Len(none) = 0 /\ Append(none, a) = <<a>> /\ awaiting = <<a>>
    BY <1>5
  <2>2. a \in S <=> IsPostRun(since, ts)
    <3>1. a \in ToSet(awaiting)
      BY <2>1 DEF ToSet
    <3>2. a.ts = since
      OBVIOUS
    <3>. HIDE DEF a
    <3>. QED  BY <3>1, <3>2
  <2>3. a.last = i /\ a.ts = since
    OBVIOUS
  <2>. HIDE DEF a, none, S
  <2>4. Only(Append(none, a), S) = IF a \in S THEN Append(Only(none, S), a) ELSE Only(none, S)
    <3>. DEFINE V == {a}
    <3>1. none \in Seq(V) /\ a \in V /\ \A j \in 1..Len(none) : none[j] \in S <=> none[j] \in S
      BY <2>1
    <3>. HIDE DEF V
    <3>. QED  BY <3>1, OnlyOfLonger
  <2>5. Only(none, S) = none
    BY OnlyOfEmpty DEF none
  <2>6. due = IF IsPostRun(since, ts) THEN <<a>> ELSE none
    BY <2>1, <2>2, <2>4, <2>5
  <2>7. due = <<a>> => [k \in DOMAIN due |-> Pause("POST_RUN_PAUSE", due[k].last, ts - due[k].ts)]
                       = <<Pause("POST_RUN_PAUSE", i, ts - since)>>
    <3>. HIDE DEF due
    <3>. DEFINE P(x) == Pause("POST_RUN_PAUSE", x.last, ts - x.ts)
    <3>1. P(a) = Pause("POST_RUN_PAUSE", i, ts - since)
      BY <2>3
    <3>. HIDE DEF P
    <3>2. due = <<a>> => [k \in DOMAIN due |-> P(due[k])] = <<P(a)>>
      OBVIOUS
    <3>. QED  BY <3>1, <3>2 DEF P
  <2>8. StillAwaiting(type) = <<>>
    BY <1>5 DEF StillAwaiting
  <2>. HIDE DEF due
  <2>. QED  BY <1>1, <1>2, <2>6, <2>7, <2>8 DEF none
<1>. QED  BY <1>3, <1>4, <1>5

PostRunFits(es, C, pr, aw, from) ==
    /\ AreEnds(es, C)
    /\ WaitingFits(es, C, aw)
    /\ Kept(pr, PauseType, PausedAfter, PostRuns(es, C), from)

LEMMA AwaitingIs ==
    ASSUME NEW type \in EventTypes, NEW ts \in Int, SegmenterPush(type, ts)
    PROVE  /\ EndsRun(type, ts) => type = "projectEnd" /\ type \notin Transparent
           /\ type \in Transparent => awaiting' = awaiting
           /\ type \notin Transparent =>
                awaiting' = IF EndsRun(type, ts) THEN <<[last |-> Count + 1, ts |-> ts]>> ELSE <<>>
<1>1. EndsRun(type, ts) => type = "projectEnd" /\ type \notin Transparent /\ ~GoesOn(type, ts)
  BY DEF EndsRun, GoesOn, Absorbs, Soft, Transparent
<1>2. \/ Absorb(type, ts) /\ GoesOn(type, ts)
      \/ EndRunEpisode(type, ts) /\ EndsRun(type, ts)
      \/ CloseAndOpen(type, ts) /\ ~EndsRun(type, ts)
  BY DEF SegmenterPush, Absorb, EndRunEpisode, CloseAndOpen
<1>. DEFINE last == [last |-> Count + 1, ts |-> ts]
<1>3. EndsRun(type, ts) => awaiting' = Append(StillAwaiting(type), last)
  BY <1>1, <1>2 DEF EndRunEpisode
<1>4. ~EndsRun(type, ts) => awaiting' = StillAwaiting(type)
  BY <1>2 DEF Absorb, CloseAndOpen
<1>5. StillAwaiting(type) = IF type \in Transparent THEN awaiting ELSE <<>>
  BY DEF StillAwaiting
<1>6. Append(<<>>, last) = <<last>>
  OBVIOUS
<1>. HIDE DEF last
<1>. QED  BY <1>1, <1>3, <1>4, <1>5, <1>6 DEF last

\* The run waited for ended after all the others.
LEMMA WaitedIsLast ==
    ASSUME NEW es \in Seq(Event), NEW C, AreEnds(es, C), NEW i \in C, NEW j \in C,
           ~(NextReal(es, i) <= Len(es)), j # i
    PROVE  j < i
<1>1. i \in 1..Len(es) /\ j \in 1..Len(es) /\ es[j].type = "projectEnd" /\ Len(es) \in Nat
  BY DEF AreEnds
<1>2. NextReal(es, i) = Len(es) + 1
  <2>1. NextReal(es, i) \in (i + 1)..(Len(es) + 1)
    BY <1>1, NextIs
  <2>. QED  BY <1>1, <2>1
<1>3. (Len(es) + 1) - 1 = Len(es)
  BY <1>1
<1>4. \A k \in (i + 1)..Len(es) : es[k].type \in Transparent
  BY <1>1, <1>2, <1>3, NextIs
<1>5. ~(i < j)
  <2>1. i < j => j \in (i + 1)..Len(es)
    BY <1>1
  <2>. QED  BY <1>1, <1>4, <2>1 DEF Transparent
<1>. QED  BY <1>1, <1>5

LEMMA PushKeepsPostRuns ==
    ASSUME SegmenterTypes, NEW type \in EventTypes, NEW ts \in Int, SegmenterPush(type, ts),
           NEW C, PostRunFits(events, C, postRun, awaiting, window)
    PROVE  PostRunFits(events', IF EndsRun(type, ts) THEN C \cup {Count + 1} ELSE C,
                       postRun', awaiting', window')
<1>. DEFINE e == EventOf(type, ts)
            n == Count
            more == Append(events, e)
            D == IF EndsRun(type, ts) THEN C \cup {n + 1} ELSE C
<1>1. /\ events' = more /\ window' = window /\ events \in Seq(Event)
      /\ postRun' = postRun \o Decided(type, ts)
      /\ n = Len(events) /\ n \in Nat /\ e \in Event /\ e.type = type /\ e.ts = ts
  BY EventOfIs DEF SegmenterPush, EventOf, SegmenterTypes, Count
<1>2. /\ Len(more) = n + 1 /\ more[n + 1] = e /\ \A j \in 1..n : more[j] = events[j]
  BY <1>1, SameUpToHere
<1>3. AreEnds(events, C) /\ WaitingFits(events, C, awaiting)
      /\ Kept(postRun, PauseType, PausedAfter, PostRuns(events, C), window)
  BY DEF PostRunFits
<1>4. postRun \in Seq(PauseType) /\ \A i \in C : i \in 1..n
  BY <1>1, <1>3 DEF Kept, AreEnds
<1>. HIDE DEF e, more, n
<1>5. AreEnds(more, D)
  <2>1. EndsRun(type, ts) => type = "projectEnd"
    BY AwaitingIs
  <2>2. \A i \in C : i \in 1..n /\ events[i].type = "projectEnd"
    BY <1>3, <1>4 DEF AreEnds
  <2>3. \A i \in 1..n : i \in 1..(n + 1)
    BY <1>1
  <2>4. n + 1 \in 1..(n + 1)
    BY <1>1
  <2>. QED  BY <1>1, <1>2, <2>1, <2>2, <2>3, <2>4 DEF AreEnds
<1>6. PostRuns(more, D) = PostRuns(more, C)
  BY <1>1, PostRunsOfTheLast DEF more
<1>7. \A j \in C : NextReal(more, j) = IF NextReal(events, j) <= n THEN NextReal(events, j)
                                       ELSE IF type \in Transparent THEN n + 2 ELSE n + 1
  BY <1>1, <1>4, NextWithOneMore DEF more
<1>8. CASE type \in Transparent
  <2>1. ~EndsRun(type, ts) /\ awaiting' = awaiting /\ Decided(type, ts) = <<>>
    BY <1>8, AwaitingIs, DecidedIs
  <2>2. postRun' = postRun
    BY <1>1, <1>4, <2>1
  <2>3. PostRuns(more, C) = PostRuns(events, C)
    BY <1>1, <1>3, <1>8, NothingNewDecided DEF more
  <2>4. \A j \in C : NextReal(more, j) <= n + 1 <=> NextReal(events, j) <= n
    <3>. SUFFICES ASSUME NEW j \in C
                  PROVE  NextReal(more, j) <= n + 1 <=> NextReal(events, j) <= n
      OBVIOUS
    <3>1. NextReal(events, j) \in (j + 1)..(n + 1)
      BY <1>1, <1>4, NextIs
    <3>2. ~(n + 2 <= n + 1)
      BY <1>1
    <3>. QED  BY <1>1, <1>4, <1>7, <1>8, <3>1, <3>2
  <2>5. WaitingFits(more, C, awaiting)
    <3>1. \A j \in C : more[j] = events[j]
      BY <1>2, <1>4
    <3>. QED  BY <1>1, <1>2, <1>3, <2>4, <3>1 DEF WaitingFits
  <2>. QED  BY <1>1, <1>3, <1>5, <2>1, <2>2, <2>3, <2>5 DEF PostRunFits, n
<1>9. CASE type \notin Transparent
  <2>1. awaiting' = IF EndsRun(type, ts) THEN <<[last |-> n + 1, ts |-> ts]>> ELSE <<>>
    BY <1>9, AwaitingIs DEF n
  <2>2. \A j \in C : NextReal(more, j) <= n + 1
    <3>. SUFFICES ASSUME NEW j \in C PROVE NextReal(more, j) <= n + 1
      OBVIOUS
    <3>1. NextReal(events, j) \in (j + 1)..(n + 1)
      BY <1>1, <1>4, NextIs
    <3>. QED  BY <1>1, <1>4, <1>7, <1>9, <3>1
  <2>3. WaitingFits(more, D, awaiting')
    <3>1. CASE EndsRun(type, ts)
      <4>1. ~(NextReal(more, n + 1) <= n + 1)
        <5>1. NextReal(more, n + 1) = n + 2
          BY <1>1, NextOfTheLast DEF more
        <5>. QED  BY <1>1, <5>1
      <4>2. n + 1 \in D /\ \A j \in D : j # n + 1 => j \in C
        BY <3>1
      <4>3. awaiting' = <<[last |-> n + 1, ts |-> more[n + 1].ts]>>
        BY <1>1, <1>2, <2>1, <3>1
      <4>. HIDE DEF D
      <4>. QED  BY <1>2, <2>2, <4>1, <4>2, <4>3 DEF WaitingFits
    <3>2. CASE ~EndsRun(type, ts)
      BY <1>2, <2>1, <2>2, <3>2 DEF WaitingFits
    <3>. QED  BY <3>1, <3>2
  <2>4. Kept(postRun', PauseType, PausedAfter, PostRuns(more, C), window)
    <3>1. CASE awaiting = <<>> /\ \A j \in C : NextReal(events, j) <= n
      <4>1. Decided(type, ts) = <<>>
        BY <3>1, DecidedIs
      <4>2. postRun' = postRun
        BY <1>1, <1>4, <4>1
      <4>3. PostRuns(more, C) = PostRuns(events, C)
        BY <1>1, <1>3, <3>1, NothingNewDecided DEF more
      <4>. QED  BY <1>3, <4>2, <4>3
    <3>2. ASSUME NEW i \in C, ~(NextReal(events, i) <= n),
                 awaiting = <<[last |-> i, ts |-> events[i].ts]>>,
                 \A j \in C : j # i => NextReal(events, j) <= n
          PROVE  Kept(postRun', PauseType, PausedAfter, PostRuns(more, C), window)
      <4>. DEFINE since == events[i].ts
                  new == Pause("POST_RUN_PAUSE", i, ts - since)
      <4>1. Decided(type, ts) = IF IsPostRun(since, ts) THEN <<new>> ELSE <<>>
        BY <1>9, <3>2, DecidedIs
      <4>2. PostRuns(more, C) = IF IsPostRun(since, ts) THEN PostRuns(events, C) \cup {new}
                                ELSE PostRuns(events, C)
        BY <1>1, <1>3, <1>9, <3>2, OneDecided DEF more
      <4>3. new \in PauseType /\ PausedAfter[new] = i /\ i \in Int
        <5>1. i \in 1..n /\ since \in Int
          BY <1>1, <1>4, TimesAre
        <5>2. ts - since \in Int /\ i \in Int
          BY <5>1
        <5>. QED  BY <5>2, PauseIs
      <4>4. PostRuns(events, C) \in SUBSET PauseType
        BY <1>1, <1>3, PostRunsAre
      <4>5. \A p \in PostRuns(events, C) : PausedAfter[p] < PausedAfter[new]
        <5>. SUFFICES ASSUME NEW p \in PostRuns(events, C) PROVE PausedAfter[p] < i
          BY <4>3
        <5>1. PICK j \in C : Paused(events, j) /\ PausedAfter[p] = j
          BY <1>1, <1>3, PostRunsAre
        <5>2. j # i
          BY <1>1, <3>2, <5>1 DEF Paused
        <5>. QED  BY <1>1, <1>3, <3>2, <5>1, <5>2, WaitedIsLast
      <4>. HIDE DEF new
      <4>6. CASE IsPostRun(since, ts)
        <5>1. postRun' = Append(postRun, new)
          BY <1>1, <1>4, <4>1, <4>3, <4>6
        <5>2. Kept(Append(postRun, new), PauseType, PausedAfter, PostRuns(events, C) \cup {new}, window)
          BY <1>3, <4>3, <4>4, <4>5, AfterIs, KeptWithOneMore
        <5>. QED  BY <4>2, <4>6, <5>1, <5>2
      <4>7. CASE ~IsPostRun(since, ts)
        <5>1. postRun' = postRun
          BY <1>1, <1>4, <4>1, <4>7
        <5>. QED  BY <1>3, <4>2, <4>7, <5>1
      <4>. QED  BY <4>6, <4>7
    <3>. QED  BY <1>1, <1>3, <3>1, <3>2 DEF WaitingFits
  <2>. QED  BY <1>1, <1>5, <1>6, <2>3, <2>4 DEF PostRunFits, n
<1>. QED  BY <1>8, <1>9

-----------------------------------------------------------------------------
\* Timestamps go up, and so an event has one pause after it at most.
Timed(es, t) ==
    /\ \A j \in 1..Len(es) : es[j].ts <= t
    /\ \A i, j \in 1..Len(es) : i <= j /\ es[i].ts # NoTs /\ es[j].ts # NoTs => es[i].ts <= es[j].ts

LEMMA TimedWithOneMore ==
    ASSUME NEW es \in Seq(Event), NEW t \in Nat, Timed(es, t), NEW e \in Event, NEW u \in Nat, u >= t,
           e.ts = u \/ e.ts = NoTs
    PROVE  Timed(Append(es, e), u)
<1>. DEFINE more == Append(es, e)
            n == Len(es)
<1>1. Len(more) = n + 1 /\ n \in Nat /\ more[n + 1] = e /\ \A j \in 1..n : more[j] = es[j]
  BY SameUpToHere
<1>2. \A j \in 1..n : es[j].ts \in Int /\ es[j].ts <= t
  BY TimesAre DEF Timed
<1>3. \A i, j \in 1..n : i <= j /\ es[i].ts # NoTs /\ es[j].ts # NoTs => es[i].ts <= es[j].ts
  BY DEF Timed
<1>. HIDE DEF more, n
<1>4. ASSUME NEW j \in 1..(n + 1) PROVE more[j].ts \in Int /\ more[j].ts <= u
  <2>1. CASE j = n + 1
    BY <1>1, <2>1 DEF NoTs
  <2>2. CASE j # n + 1
    <3>1. j \in 1..n
      BY <1>1, <2>2
    <3>. QED  BY <1>1, <1>2, <3>1
  <2>. QED  BY <2>1, <2>2
<1>5. ASSUME NEW i \in 1..(n + 1), NEW j \in 1..(n + 1), i <= j, more[i].ts # NoTs, more[j].ts # NoTs
      PROVE  more[i].ts <= more[j].ts
  <2>1. CASE j = n + 1
    BY <1>1, <1>4, <1>5, <2>1
  <2>2. CASE j # n + 1
    <3>1. j \in 1..n /\ i \in 1..n
      BY <1>1, <1>5, <2>2
    <3>. QED  BY <1>1, <1>3, <1>5, <3>1
  <2>. QED  BY <2>1, <2>2
<1>6. Timed(more, u)
  BY <1>1, <1>4, <1>5 DEF Timed
<1>. QED  BY <1>6 DEF more

LEMMA PausesApart ==
    ASSUME NEW es \in Seq(Event), NEW t, Timed(es, t), NEW C, AreEnds(es, C),
           NEW p \in InactivePauses(es), NEW q \in PostRuns(es, C)
    PROVE  PausedAfter[p] # PausedAfter[q]
<1>. DEFINE n == Len(es)
<1>1. PICK i \in 1..(n - 1) : IsInactive(es[i].ts, es[i + 1].ts)
                              /\ p = Pause("INACTIVE_PAUSE", i, es[i + 1].ts - es[i].ts)
  BY DEF InactivePauses
<1>2. i \in 1..n /\ i + 1 \in 1..n /\ n \in Nat /\ i \in Int
  BY <1>1
<1>3. es[i].ts \in Int /\ es[i + 1].ts \in Int
  BY <1>2, TimesAre
<1>4. PausedAfter[p] = i
  <2>1. es[i + 1].ts - es[i].ts \in Int
    BY <1>3
  <2>. QED  BY <1>1, <1>2, <2>1, PauseIs
<1>5. PICK j \in C : Paused(es, j) /\ PausedAfter[q] = j
  BY PostRunsAre
<1>6. ASSUME j = i PROVE FALSE
  <2>. DEFINE k == NextReal(es, i)
  <2>1. k <= n /\ IsPostRun(es[i].ts, es[k].ts)
    BY <1>5, <1>6 DEF Paused
  <2>2. k \in 1..n /\ i + 1 <= k
    <3>1. k \in (i + 1)..(n + 1)
      BY <1>2, NextIs
    <3>. QED  BY <1>2, <2>1, <3>1
  <2>3. es[k].ts \in Int
    BY <2>2, TimesAre
  <2>. DEFINE a == es[i].ts
              b == es[i + 1].ts
              c == es[k].ts
  <2>4. b <= c
    BY <1>1, <1>2, <2>1, <2>2 DEF Timed, IsInactive, IsPostRun, GapWithin
  <2>5. b - a >= PauseThreshold /\ c - a <= PauseThreshold - 1
    BY <1>1, <2>1 DEF IsInactive, IsPostRun, GapWithin
  <2>6. a \in Int /\ b \in Int /\ c \in Int /\ PauseThreshold \in Int
    BY <1>3, <2>3, PauseAssumption
  <2>. HIDE DEF a, b, c
  <2>. QED  BY <2>4, <2>5, <2>6
<1>. QED  BY <1>4, <1>5, <1>6

-----------------------------------------------------------------------------
(***************************************************************************)
(* The stream and the whole session.                                       *)
(***************************************************************************)
SegmenterFits ==
    \E S : /\ EpisodesFit(events, closed, open, window, S)
           /\ Kept(inactive, PauseType, PausedAfter, InactivePauses(events), window)
           /\ PostRunFits(events, Clean(events, S), postRun, awaiting, window)

LEMMA CleanEnds == ASSUME NEW es, NEW S PROVE AreEnds(es, Clean(es, S))
BY DEF Clean, AreEnds

LEMMA FitsAtFirst == SegmenterInit => SegmenterFits
<1>. SUFFICES ASSUME SegmenterInit PROVE SegmenterFits
  OBVIOUS
<1>. DEFINE none == <<>>
<1>1. /\ events = none /\ closed = none /\ open = NoEpisode /\ inactive = none /\ postRun = none
      /\ awaiting = none /\ window = 0
  BY DEF SegmenterInit
<1>2. /\ Len(none) = 0 /\ ToSet(none) = {} /\ \A V : none \in Seq(V)
      /\ \A i : i \notin 1..Len(none)
  BY DEF ToSet
<1>. HIDE DEF none
<1>3. Tiles(none, {})
  BY <1>2 DEF Tiles
<1>4. \A V, f, from : Kept(none, V, f, {}, from)
  BY <1>2 DEF Kept, Rising
<1>5. SettledEpisodes(none, {}) = {} /\ Clean(none, {}) = {}
  BY DEF SettledEpisodes, Clean
<1>6. InactivePauses(none) = {}
  <2>1. \A i : i \notin 1..(Len(none) - 1)
    BY <1>2
  <2>. QED  BY <2>1 DEF InactivePauses
<1>7. EpisodesFit(none, none, NoEpisode, 0, {})
  BY <1>3, <1>4, <1>5 DEF EpisodesFit
<1>8. PostRuns(none, {}) = {}
  BY DEF PostRuns
<1>9. PostRunFits(none, {}, none, none, 0)
  <2>1. AreEnds(none, {})
    BY DEF AreEnds
  <2>2. WaitingFits(none, {}, none)
    BY DEF WaitingFits, none
  <2>. QED  BY <1>4, <1>8, <2>1, <2>2 DEF PostRunFits
<1>. QED  BY <1>1, <1>4, <1>5, <1>6, <1>7, <1>9 DEF SegmenterFits

LEMMA PushStaysFit ==
    ASSUME SegmenterTypes, SegmenterFits, NEW type \in EventTypes, NEW ts \in Int,
           SegmenterPush(type, ts)
    PROVE  SegmenterFits'
<1>1. PICK S : /\ EpisodesFit(events, closed, open, window, S)
               /\ Kept(inactive, PauseType, PausedAfter, InactivePauses(events), window)
               /\ PostRunFits(events, Clean(events, S), postRun, awaiting, window)
  BY DEF SegmenterFits
<1>2. PICK T : /\ EpisodesFit(events', closed', open', window', T)
               /\ Clean(events', T) = IF EndsRun(type, ts) THEN Clean(events, S) \cup {Count + 1}
                                      ELSE Clean(events, S)
  BY <1>1, PushFits
<1>3. Kept(inactive', PauseType, PausedAfter, InactivePauses(events'), window')
  BY <1>1, PushKeepsInactive
<1>4. PostRunFits(events', Clean(events', T), postRun', awaiting', window')
  BY <1>1, <1>2, PushKeepsPostRuns
<1>. QED  BY <1>2, <1>3, <1>4 DEF SegmenterFits

\* forget_before drops what it may, and nothing that is needed later.
LEMMA ForgettingStaysFit ==
    ASSUME SegmenterTypes, SegmenterFits, NEW index \in Nat, ForgetBefore(index)
    PROVE  SegmenterFits'
<1>1. PICK S : /\ EpisodesFit(events, closed, open, window, S)
               /\ Kept(inactive, PauseType, PausedAfter, InactivePauses(events), window)
               /\ PostRunFits(events, Clean(events, S), postRun, awaiting, window)
  BY DEF SegmenterFits
<1>. DEFINE A == {ep \in ToSet(closed) : ep.start >= index}
            B == {p \in ToSet(inactive) : p.after >= index}
            D == {p \in ToSet(postRun) : p.after >= index}
<1>2. /\ events' = events /\ open' = open /\ awaiting' = awaiting
      /\ closed' = Only(closed, A) /\ inactive' = Only(inactive, B) /\ postRun' = Only(postRun, D)
      /\ window' = Max({window, index})
  BY DEF ForgetBefore
<1>3. window \in Nat /\ window' \in Nat /\ window' >= window /\ window' >= index
  <2>1. window \in Nat
    BY DEF SegmenterTypes
  <2>2. \E m \in {window, index} : \A k \in {window, index} : m >= k
    BY <2>1
  <2>3. window' \in {window, index} /\ \A k \in {window, index} : window' >= k
    BY <1>2, <2>2 DEF Max
  <2>. QED  BY <2>1, <2>3
<1>4. events \in Seq(Event) /\ Tiles(events, S)
  BY <1>1 DEF SegmenterTypes, EpisodesFit
<1>. DEFINE C == Clean(events, S)
<1>5. AreEnds(events, C)
  BY CleanEnds
<1>. HIDE DEF A, B, D, C
<1>6. Kept(Only(closed, A), Episode, Start, SettledEpisodes(events, S), window')
  <2>1. Kept(closed, Episode, Start, SettledEpisodes(events, S), window)
    BY <1>1 DEF EpisodesFit
  <2>2. \A ep \in ToSet(closed) : ep \in A <=> Start[ep] >= index
    <3>1. \A ep \in ToSet(closed) : ep \in Episode
      BY <1>4, <2>1, SettledAreEpisodes DEF Kept
    <3>. QED  BY <3>1, StartIs DEF A
  <2>. QED  BY <1>3, <1>4, <2>1, <2>2, SettledAreEpisodes, StartIs, KeptForgets
<1>7. Kept(Only(inactive, B), PauseType, PausedAfter, InactivePauses(events), window')
  <2>1. InactivePauses(events) \in SUBSET PauseType
    BY <1>4, InactiveAre
  <2>2. \A p \in ToSet(inactive) : p \in B <=> PausedAfter[p] >= index
    <3>1. \A p \in ToSet(inactive) : p \in PauseType
      BY <1>1, <2>1 DEF Kept
    <3>. QED  BY <3>1, AfterIs DEF B
  <2>. QED  BY <1>1, <1>3, <2>1, <2>2, AfterIs, KeptForgets
<1>8. Kept(Only(postRun, D), PauseType, PausedAfter, PostRuns(events, C), window')
  <2>1. PostRuns(events, C) \in SUBSET PauseType
    BY <1>4, <1>5, PostRunsAre
  <2>2. Kept(postRun, PauseType, PausedAfter, PostRuns(events, C), window)
    BY <1>1 DEF PostRunFits, C
  <2>3. \A p \in ToSet(postRun) : p \in D <=> PausedAfter[p] >= index
    <3>1. \A p \in ToSet(postRun) : p \in PauseType
      BY <2>1, <2>2 DEF Kept
    <3>. QED  BY <3>1, AfterIs DEF D
  <2>. QED  BY <1>3, <2>1, <2>2, <2>3, AfterIs, KeptForgets
<1>9. EpisodesFit(events', closed', open', window', S)
  BY <1>1, <1>2, <1>6 DEF EpisodesFit
<1>10. PostRunFits(events', C, postRun', awaiting', window')
  BY <1>1, <1>2, <1>8 DEF PostRunFits, C
<1>. QED  BY <1>2, <1>7, <1>9, <1>10 DEF SegmenterFits, C

\* segment_session's third pass looks at the runs that ended on projectEnd.
LEMMA PostRunPausesAre ==
    ASSUME NEW es \in Seq(Event), NEW S, Tiles(es, S)
    PROVE  PostRunPauses(es) = PostRuns(es, Clean(es, S))
<1>. DEFINE ended == {ep.end - 1 : ep \in {e \in ToSet(SegmentEpisodes(es)) : e.kind = "RUN"}}
            clean == {i \in ended : es[i].type = "projectEnd" /\ NextReal(es, i) <= Len(es)}
            C == Clean(es, S)
<1>1. ToSet(SegmentEpisodes(es)) = {EpisodeAt(es, k) : k \in S}
  BY SegmentIs
<1>2. \A k \in S : /\ EpisodeAt(es, k).kind = Kind(es[k].type)
                   /\ EpisodeAt(es, k).end \in Int /\ EpisodeAt(es, k).end - 1 \in 1..Len(es)
  <2>. SUFFICES ASSUME NEW k \in S
                PROVE  /\ EpisodeAt(es, k).kind = Kind(es[k].type)
                       /\ EpisodeAt(es, k).end \in Int /\ EpisodeAt(es, k).end - 1 \in 1..Len(es)
    OBVIOUS
  <2>1. k \in 1..Len(es) /\ EpisodeAt(es, k).kind = Kind(es[k].type)
    BY TileIs
  <2>2. EpisodeAt(es, k).end \in (k + 1)..(Len(es) + 1)
    BY <2>1, EpisodeEnds
  <2>. QED  BY <2>1, <2>2
<1>3. ended = {EpisodeAt(es, k).end - 1 : k \in {l \in S : Kind(es[l].type) = "RUN"}}
  BY <1>1, <1>2
<1>. HIDE DEF ended
<1>4. \A i : i \in ended /\ es[i].type = "projectEnd" <=> i \in C
  <2>1. ASSUME NEW i \in ended, es[i].type = "projectEnd" PROVE i \in C
    <3>1. PICK k \in S : Kind(es[k].type) = "RUN" /\ i = EpisodeAt(es, k).end - 1
      BY <1>3
    <3>2. i \in 1..Len(es) /\ EpisodeAt(es, k).end = i + 1
      BY <1>2, <3>1
    <3>. QED  BY <2>1, <3>1, <3>2 DEF Clean
  <2>2. ASSUME NEW i \in C PROVE i \in ended /\ es[i].type = "projectEnd"
    <3>1. PICK k \in S : Kind(es[k].type) = "RUN" /\ EpisodeAt(es, k).end = i + 1
      BY DEF Clean
    <3>2. es[i].type = "projectEnd" /\ i \in 1..Len(es)
      BY DEF Clean
    <3>3. i = EpisodeAt(es, k).end - 1
      BY <3>1, <3>2
    <3>. QED  BY <1>3, <3>1, <3>2, <3>3
  <2>. QED  BY <2>1, <2>2
<1>5. clean = {i \in C : NextReal(es, i) <= Len(es)}
  BY <1>4
<1>6. PostRunPauses(es) = {Pause("POST_RUN_PAUSE", i, es[NextReal(es, i)].ts - es[i].ts) :
                             i \in {j \in clean : IsPostRun(es[j].ts, es[NextReal(es, j)].ts)}}
  BY DEF PostRunPauses, ended
<1>. HIDE DEF clean, C
<1>7. {j \in clean : IsPostRun(es[j].ts, es[NextReal(es, j)].ts)} = {j \in C : Paused(es, j)}
  BY <1>5 DEF Paused
<1>. QED  BY <1>6, <1>7 DEF PostRuns, PostRunAt, C

LEMMA EpisodesAgree ==
    ASSUME SegmenterTypes, NEW S, EpisodesFit(events, closed, open, window, S)
    PROVE  Kept(Result.episodes, Episode, Start, ToSet(SegmentEpisodes(events)), window)
<1>1. events \in Seq(Event) /\ Tiles(events, S)
      /\ Kept(closed, Episode, Start, SettledEpisodes(events, S), window)
  BY DEF SegmenterTypes, EpisodesFit
<1>2. ToSet(SegmentEpisodes(events)) = {EpisodeAt(events, i) : i \in S}
  BY <1>1, SegmentIs
<1>3. CASE open = NoEpisode
  <2>1. \A i \in S : Settled(events, i)
    BY <1>1, <1>3, NothingOpenIs
  <2>2. SettledEpisodes(events, S) = {EpisodeAt(events, i) : i \in S}
    BY <2>1 DEF SettledEpisodes
  <2>3. Result.episodes = closed
    BY <1>3 DEF Result
  <2>. QED  BY <1>1, <1>2, <2>2, <2>3
<1>4. CASE open # NoEpisode
  <2>1. PICK o \in S : /\ ~Settled(events, o) /\ open = EpisodeAt(events, o)
                       /\ \A k \in S : k # o => Settled(events, k) /\ k < o
    BY <1>1, <1>4, OpenIs
  <2>2. open \in Episode /\ Start[open] = o
    BY <1>1, <2>1, TileIs
  <2>3. \A x \in SettledEpisodes(events, S) : Start[x] < Start[open]
    <3>. SUFFICES ASSUME NEW i \in S, Settled(events, i)
                  PROVE  Start[EpisodeAt(events, i)] < Start[open]
      BY DEF SettledEpisodes
    <3>. QED  BY <1>1, <2>1, <2>2, TileIs
  <2>4. Kept(Append(closed, open), Episode, Start, SettledEpisodes(events, S) \cup {open}, window)
    BY <1>1, <2>2, <2>3, SettledAreEpisodes, StartIs, KeptWithOneMore
  <2>5. {EpisodeAt(events, i) : i \in S} = SettledEpisodes(events, S) \cup {open}
    BY <2>1 DEF SettledEpisodes
  <2>6. Result.episodes = Append(closed, open)
    BY <1>4 DEF Result
  <2>. QED  BY <1>2, <2>4, <2>5, <2>6
<1>. QED  BY <1>3, <1>4

LEMMA BothAre ==
    ASSUME NEW V, NEW s \in Seq(V), NEW t \in Seq(V)
    PROVE  /\ s \o t \in Seq(V) /\ ToSet(s \o t) = ToSet(s) \cup ToSet(t)
           /\ Len(s) \in Nat /\ Len(t) \in Nat /\ Len(s \o t) = Len(s) + Len(t)
           /\ \A i \in 1..Len(s) : (s \o t)[i] = s[i] /\ s[i] \in ToSet(s)
           /\ \A i \in (Len(s) + 1)..(Len(s) + Len(t)) :
                /\ (s \o t)[i] = t[i - Len(s)] /\ i - Len(s) \in 1..Len(t)
                /\ t[i - Len(s)] \in ToSet(t)
<1>. DEFINE u == s \o t
            m == Len(s)
            n == Len(t)
<1>1. /\ m \in Nat /\ n \in Nat /\ u \in Seq(V) /\ Len(u) = m + n /\ DOMAIN u = 1..(m + n)
      /\ DOMAIN s = 1..m /\ DOMAIN t = 1..n
      /\ \A i \in 1..m : u[i] = s[i]
      /\ \A i \in (m + 1)..(m + n) : u[i] = t[i - m]
  OBVIOUS
<1>. HIDE DEF u, m, n
<1>2. \A i \in (m + 1)..(m + n) : i - m \in 1..n
  BY <1>1
<1>3. /\ ToSet(s) = {s[i] : i \in 1..m} /\ ToSet(t) = {t[i] : i \in 1..n}
      /\ ToSet(u) = {u[i] : i \in 1..(m + n)}
  BY <1>1 DEF ToSet
<1>4. ASSUME NEW x \in ToSet(u) PROVE x \in ToSet(s) \/ x \in ToSet(t)
  <2>1. PICK i \in 1..(m + n) : x = u[i]
    BY <1>3
  <2>2. i \in 1..m \/ i \in (m + 1)..(m + n)
    BY <1>1
  <2>. QED  BY <1>1, <1>2, <1>3, <2>1, <2>2
<1>5. ASSUME NEW x \in ToSet(s) PROVE x \in ToSet(u)
  <2>1. PICK i \in 1..m : x = s[i]
    BY <1>3
  <2>2. i \in 1..(m + n)
    BY <1>1
  <2>. QED  BY <1>1, <1>3, <2>1, <2>2
<1>6. ASSUME NEW x \in ToSet(t) PROVE x \in ToSet(u)
  <2>1. PICK i \in 1..n : x = t[i]
    BY <1>3
  <2>. DEFINE j == i + m
  <2>2. j \in 1..(m + n) /\ j \in (m + 1)..(m + n) /\ j - m = i
    BY <1>1
  <2>. HIDE DEF j
  <2>3. u[j] = x
    BY <1>1, <2>1, <2>2
  <2>. QED  BY <1>3, <2>2, <2>3
<1>7. ToSet(u) = ToSet(s) \cup ToSet(t)
  BY <1>4, <1>5, <1>6
<1>. QED  BY <1>1, <1>2, <1>3, <1>7 DEF u, m, n

\* Every pause of the session is after an event of its own.
LEMMA OnePauseAfterEach ==
    ASSUME NEW es \in Seq(Event), NEW t, Timed(es, t), NEW C, AreEnds(es, C)
    PROVE  /\ InactivePauses(es) \cup PostRuns(es, C) \in SUBSET PauseType
           /\ IsFiniteSet(InactivePauses(es) \cup PostRuns(es, C))
           /\ \A p \in InactivePauses(es) \cup PostRuns(es, C) : PausedAfter[p] \in 1..Len(es)
           /\ \A p, q \in InactivePauses(es) \cup PostRuns(es, C) : PausedAfter[p] = PausedAfter[q] => p = q
<1>. DEFINE A == InactivePauses(es)
            B == PostRuns(es, C)
            all == A \cup B
            n == Len(es)
<1>1. n \in Nat /\ A \in SUBSET PauseType /\ B \in SUBSET PauseType
  BY InactiveAre, PostRunsAre
<1>2. \A p \in A : \E i \in 1..(n - 1) :
        PausedAfter[p] = i /\ p = Pause("INACTIVE_PAUSE", i, es[i + 1].ts - es[i].ts)
  <2>. SUFFICES ASSUME NEW i \in 1..(n - 1)
                PROVE  PausedAfter[Pause("INACTIVE_PAUSE", i, es[i + 1].ts - es[i].ts)] = i
    BY DEF InactivePauses
  <2>1. i \in 1..n /\ i + 1 \in 1..n /\ i \in Int
    BY <1>1
  <2>2. es[i].ts \in Int /\ es[i + 1].ts \in Int
    BY <2>1, TimesAre
  <2>3. es[i + 1].ts - es[i].ts \in Int
    BY <2>2
  <2>. QED  BY <2>1, <2>3, PauseIs
<1>3. \A p \in B : \E i \in C : PausedAfter[p] = i /\ p = PostRunAt(es, i)
  BY PostRunsAre
<1>4. \A p \in A, q \in B : PausedAfter[p] # PausedAfter[q]
  BY PausesApart
<1>5. \A p \in all : PausedAfter[p] \in 1..n
  <2>1. \A p \in A : PausedAfter[p] \in 1..n
    BY <1>1, <1>2
  <2>2. \A p \in B : PausedAfter[p] \in 1..n
    BY <1>3 DEF AreEnds
  <2>. QED  BY <2>1, <2>2
<1>6. \A p, q \in all : PausedAfter[p] = PausedAfter[q] => p = q
  <2>1. \A p, q \in A : PausedAfter[p] = PausedAfter[q] => p = q
    <3>. HIDE DEF A
    <3>. QED  BY <1>2
  <2>2. \A p, q \in B : PausedAfter[p] = PausedAfter[q] => p = q
    <3>. HIDE DEF B
    <3>. QED  BY <1>3
  <2>. HIDE DEF A, B
  <2>. QED  BY <1>4, <2>1, <2>2
<1>7. IsFiniteSet(all)
  <2>. DEFINE g == [p \in all |-> PausedAfter[p]]
  <2>1. g \in [all -> 1..n] /\ \A p, q \in all : g[p] = g[q] => p = q
    <3>. HIDE DEF all
    <3>. QED  BY <1>5, <1>6
  <2>2. IsFiniteSet(1..n)
    BY <1>1, FS_Interval
  <2>. HIDE DEF g, all, n
  <2>3. g \in Injection(all, 1..n)
    BY <2>1 DEF Injection, IsInjective
  <2>. QED  BY <2>2, <2>3, FS_Injection
<1>. QED  BY <1>1, <1>5, <1>6, <1>7

LEMMA PausesAgree ==
    ASSUME SegmenterTypes, NEW S, EpisodesFit(events, closed, open, window, S),
           Kept(inactive, PauseType, PausedAfter, InactivePauses(events), window),
           PostRunFits(events, Clean(events, S), postRun, awaiting, window),
           NEW t, Timed(events, t)
    PROVE  LET batch == SegmentSession(events).pauses
           IN  /\ batch \in Seq(PauseType) /\ Rising(batch, PausedAfter)
               /\ \A p \in ToSet(batch) : PausedAfter[p] \in Nat
               /\ Kept(Result.pauses, PauseType, PausedAfter, ToSet(batch), window)
<1>. DEFINE C == Clean(events, S)
            A == InactivePauses(events)
            B == PostRuns(events, C)
            all == A \cup B
            batch == InOrder(all)
            s == inactive \o postRun
            m == Len(inactive)
            n == Len(postRun)
<1>1. events \in Seq(Event) /\ Tiles(events, S) /\ AreEnds(events, C)
  BY CleanEnds DEF SegmenterTypes, EpisodesFit
<1>2. SegmentSession(events).pauses = batch
  BY <1>1, PostRunPausesAre DEF SegmentSession
<1>3. /\ Kept(inactive, PauseType, PausedAfter, A, window)
      /\ Kept(postRun, PauseType, PausedAfter, B, window)
  BY DEF PostRunFits
<1>. HIDE DEF C
<1>4. /\ all \in SUBSET PauseType /\ IsFiniteSet(all)
      /\ \A p \in all : PausedAfter[p] \in 1..Len(events)
      /\ \A p, q \in all : PausedAfter[p] = PausedAfter[q] => p = q
      /\ \A p \in A, q \in B : PausedAfter[p] # PausedAfter[q]
  BY <1>1, OnePauseAfterEach, PausesApart
<1>. HIDE DEF A, B
<1>5. batch \in Seq(PauseType) /\ Rising(batch, PausedAfter) /\ ToSet(batch) = all
  <2>1. \A p, q \in all : p.after = q.after => p = q
    BY <1>4, AfterIs
  <2>. HIDE DEF all
  <2>. QED  BY <1>4, <2>1, InOrderIs
<1>. HIDE DEF batch
<1>6. /\ inactive \in Seq(PauseType) /\ Rising(inactive, PausedAfter) /\ \A p \in ToSet(inactive) : p \in A
      /\ postRun \in Seq(PauseType) /\ Rising(postRun, PausedAfter) /\ \A p \in ToSet(postRun) : p \in B
  BY <1>3 DEF Kept
<1>7. /\ s \in Seq(PauseType) /\ ToSet(s) = ToSet(inactive) \cup ToSet(postRun)
      /\ m \in Nat /\ n \in Nat /\ Len(s) = m + n
      /\ \A i \in 1..m : s[i] = inactive[i] /\ inactive[i] \in ToSet(inactive)
      /\ \A i \in (m + 1)..(m + n) : /\ s[i] = postRun[i - m] /\ i - m \in 1..n
                                     /\ postRun[i - m] \in ToSet(postRun)
  BY <1>6, BothAre
<1>. HIDE DEF s
<1>8. ASSUME NEW i \in 1..(m + n), NEW j \in 1..(m + n), s[i].after = s[j].after
      PROVE  i = j
  <2>1. s[i] \in PauseType /\ s[j] \in PauseType
    BY <1>7
  <2>2. PausedAfter[s[i]] = PausedAfter[s[j]]
    BY <1>8, <2>1, AfterIs
  <2>. HIDE DEF m, n
  <2>3. /\ i \in 1..m \/ i \in (m + 1)..(m + n)
        /\ j \in 1..m \/ j \in (m + 1)..(m + n)
    BY <1>7
  <2>4. CASE i \in 1..m /\ j \in 1..m
    <3>1. PausedAfter[inactive[i]] = PausedAfter[inactive[j]] /\ PausedAfter[inactive[i]] \in Int
      BY <1>7, <2>1, <2>2, <2>4, AfterIs
    <3>2. ~(i < j) /\ ~(j < i)
      BY <1>6, <2>4, <3>1 DEF Rising, m
    <3>. QED  BY <1>7, <2>4, <3>2
  <2>5. CASE i \in (m + 1)..(m + n) /\ j \in (m + 1)..(m + n)
    <3>1. /\ PausedAfter[postRun[i - m]] = PausedAfter[postRun[j - m]] /\ PausedAfter[postRun[i - m]] \in Int
          /\ i - m \in 1..n /\ j - m \in 1..n
      BY <1>7, <2>1, <2>2, <2>5, AfterIs
    <3>2. ~(i - m < j - m) /\ ~(j - m < i - m)
      BY <1>6, <3>1 DEF Rising, n
    <3>. QED  BY <1>7, <2>5, <3>2
  <2>6. CASE i \in 1..m /\ j \in (m + 1)..(m + n)
    <3>1. s[i] \in A /\ s[j] \in B
      BY <1>6, <1>7, <2>6
    <3>. QED  BY <1>4, <2>2, <3>1
  <2>7. CASE j \in 1..m /\ i \in (m + 1)..(m + n)
    <3>1. s[j] \in A /\ s[i] \in B
      BY <1>6, <1>7, <2>7
    <3>. QED  BY <1>4, <2>2, <3>1
  <2>. QED  BY <2>3, <2>4, <2>5, <2>6, <2>7
<1>9. Ordered(s) \in Seq(PauseType) /\ Rising(Ordered(s), PausedAfter) /\ ToSet(Ordered(s)) = ToSet(s)
  BY <1>7, <1>8, OrderedIs
<1>10. Kept(Ordered(s), PauseType, PausedAfter, all, window)
  <2>1. \A x \in ToSet(s) : x \in all
    BY <1>6, <1>7
  <2>2. \A x \in all : PausedAfter[x] >= window => x \in ToSet(s)
    BY <1>3, <1>7 DEF Kept
  <2>. HIDE DEF all
  <2>. QED  BY <1>9, <2>1, <2>2 DEF Kept
<1>11. Result.pauses = Ordered(s)
  BY DEF Result, s
<1>12. \A p \in all : PausedAfter[p] \in Nat
  BY <1>4
<1>. QED  BY <1>2, <1>5, <1>10, <1>11, <1>12

LEMMA FitMeansAgreement ==
    ASSUME SegmenterTypes, SegmenterFits, NEW t, Timed(events, t)
    PROVE  IncrementalAgreesWithBatch
<1>1. PICK S : /\ EpisodesFit(events, closed, open, window, S)
               /\ Kept(inactive, PauseType, PausedAfter, InactivePauses(events), window)
               /\ PostRunFits(events, Clean(events, S), postRun, awaiting, window)
  BY DEF SegmenterFits
<1>. DEFINE batch == SegmentSession(events)
            eps == SegmentEpisodes(events)
            ps == batch.pauses
<1>2. events \in Seq(Event) /\ Tiles(events, S) /\ window \in Nat
  BY <1>1 DEF SegmenterTypes, EpisodesFit
<1>3. batch.episodes = eps /\ batch = [episodes |-> eps, pauses |-> ps]
      /\ Result = [episodes |-> Result.episodes, pauses |-> Result.pauses]
  BY DEF SegmentSession, Result
<1>4. eps \in Seq(Episode) /\ Rising(eps, Start)
      /\ \A ep \in ToSet(eps) : ep \in Episode /\ Start[ep] = ep.start /\ Start[ep] \in Nat
  <2>1. /\ eps \in Seq(Episode) /\ Rising(eps, Start)
        /\ ToSet(eps) = {EpisodeAt(events, i) : i \in S}
    BY <1>2, SegmentIs
  <2>2. \A i \in S : EpisodeAt(events, i) \in Episode
    BY <1>2, TileIs
  <2>3. \A ep \in Episode : Start[ep] = ep.start /\ ep.start \in Nat
    BY StartIs DEF Episode
  <2>. QED  BY <2>1, <2>2, <2>3
<1>5. Kept(Result.episodes, Episode, Start, ToSet(eps), window)
  BY <1>1, EpisodesAgree
<1>6. /\ ps \in Seq(PauseType) /\ Rising(ps, PausedAfter) /\ \A p \in ToSet(ps) : PausedAfter[p] \in Nat
      /\ Kept(Result.pauses, PauseType, PausedAfter, ToSet(ps), window)
  BY <1>1, PausesAgree
<1>7. \A p \in ToSet(ps) : PausedAfter[p] = p.after
  <2>1. \A p \in ToSet(ps) : p \in PauseType
    BY <1>6 DEF ToSet
  <2>. QED  BY <2>1, AfterIs
<1>. HIDE DEF batch, eps, ps
<1>8. /\ Result.episodes = Only(eps, ToSet(Result.episodes))
      /\ \A ep \in ToSet(eps) : Start[ep] >= window => ep \in ToSet(Result.episodes)
      /\ window = 0 => Result.episodes = eps
  <2>1. \A ep \in ToSet(eps) : Start[ep] >= 0
    BY <1>4
  <2>2. Start \in [Episode -> Int]
    BY StartIs
  <2>. QED  BY <1>2, <1>4, <1>5, <2>1, <2>2, KeptIsTheWindow
<1>9. /\ Result.pauses = Only(ps, ToSet(Result.pauses))
      /\ \A p \in ToSet(ps) : PausedAfter[p] >= window => p \in ToSet(Result.pauses)
      /\ window = 0 => Result.pauses = ps
  <2>1. \A p \in ToSet(ps) : PausedAfter[p] >= 0
    BY <1>6
  <2>2. PausedAfter \in [PauseType -> Int]
    BY AfterIs
  <2>. QED  BY <1>2, <1>6, <2>1, <2>2, KeptIsTheWindow, SMTT(40)
<1>10. window = 0 => Result = batch
  BY <1>3, <1>8, <1>9
<1>11. Window(Result.episodes, batch.episodes, LAMBDA ep : ep.start)
  BY <1>3, <1>4, <1>8 DEF Window
<1>12. Window(Result.pauses, batch.pauses, LAMBDA p : p.after)
  BY <1>7, <1>9 DEF Window, ps
<1>. QED  BY <1>10, <1>11, <1>12 DEF IncrementalAgreesWithBatch, batch

-----------------------------------------------------------------------------
AgreementInvariant == SegmenterFits /\ Timed(events, now)

LEMMA AgreementStarts == SessionInit => AgreementInvariant
<1>. SUFFICES ASSUME SessionInit PROVE AgreementInvariant
  OBVIOUS
<1>1. SegmenterFits
  BY FitsAtFirst DEF SessionInit
<1>2. \A i : i \notin 1..Len(events)
  BY DEF SessionInit, SegmenterInit
<1>. QED  BY <1>1, <1>2 DEF AgreementInvariant, Timed

LEMMA AgreementStays ==
    UNCHANGED segmenterVars /\ now' \in Nat /\ now \in Nat /\ now' >= now
      /\ AgreementInvariant /\ SegmenterTypes => AgreementInvariant'
<1>. SUFFICES ASSUME UNCHANGED segmenterVars, now' \in Nat, now \in Nat, now' >= now,
                     AgreementInvariant, SegmenterTypes
              PROVE  AgreementInvariant'
  OBVIOUS
<1>1. UNCHANGED <<events, closed, open, inactive, postRun, awaiting, window>>
  BY DEF segmenterVars
<1>2. SegmenterFits'
  BY <1>1, Zenon DEF SegmenterFits, AgreementInvariant
<1>3. Timed(events, now')
  <2>1. \A j \in 1..Len(events) : events[j].ts \in Int /\ events[j].ts <= now
    BY TimesAre DEF AgreementInvariant, Timed, SegmenterTypes
  <2>2. \A j \in 1..Len(events) : events[j].ts <= now'
    BY <2>1
  <2>. QED  BY <2>2 DEF AgreementInvariant, Timed
<1>. QED  BY <1>1, <1>2, <1>3 DEF AgreementInvariant

LEMMA AgreementGoesOn ==
    SessionInvariant /\ SessionInvariant' /\ AgreementInvariant /\ [SessionNext]_sessionVars
      => AgreementInvariant'
<1>. SUFFICES ASSUME SessionInvariant, SessionInvariant', AgreementInvariant,
                     [SessionNext]_sessionVars
              PROVE  AgreementInvariant'
  OBVIOUS
<1>0. SegmenterTypes /\ now \in Nat /\ now' \in Nat /\ now <= now /\ now >= now
  BY DEF SessionInvariant, SegmenterInvariant, AlertInvariant, FiresInOrder
<1>1. ASSUME NEW ev \in workload.events, Push(ev) PROVE AgreementInvariant'
  <2>. DEFINE ts == IF ev.timed THEN now' ELSE NoTs
  <2>1. ev.gap \in Nat /\ ev.type \in EventTypes
    BY WorkloadAssumption DEF SessionInvariant
  <2>2. now' >= now /\ SegmenterPush(ev.type, ts)
    BY <1>0, <1>1, <2>1 DEF Push
  <2>3. ts \in Int /\ (ts = now' \/ ts = NoTs)
    BY <1>0 DEF NoTs
  <2>. HIDE DEF ts
  <2>4. SegmenterFits'
    BY <1>0, <2>1, <2>2, <2>3, PushStaysFit DEF AgreementInvariant
  <2>5. Timed(events', now')
    <3>1. events' = Append(events, EventOf(ev.type, ts))
      BY <2>2 DEF SegmenterPush, EventOf
    <3>2. EventOf(ev.type, ts) \in Event /\ EventOf(ev.type, ts).ts = ts
      BY <2>1, <2>3, EventOfIs
    <3>. QED  BY <1>0, <2>2, <2>3, <3>1, <3>2, TimedWithOneMore DEF AgreementInvariant, SegmenterTypes
  <2>. QED  BY <2>4, <2>5 DEF AgreementInvariant
<1>2. CASE HostTracks \/ HostPolls \/ HostClears
  <2>1. UNCHANGED segmenterVars /\ now' = now
    BY <1>2 DEF HostTracks, HostPolls, Poll, HostClears, alertVars
  <2>. QED  BY <1>0, <2>1, AgreementStays
<1>3. CASE TimePasses
  <2>1. UNCHANGED segmenterVars /\ now' >= now
    BY <1>0, <1>3 DEF TimePasses, Tick
  <2>. QED  BY <1>0, <2>1, AgreementStays
<1>4. CASE HostForgets
  <2>1. PICK i \in 2..Count : ForgetBefore(i)
    BY <1>4 DEF HostForgets
  <2>2. i \in Nat /\ events' = events /\ now' = now
    BY <1>4, <2>1 DEF ForgetBefore, HostForgets, alertVars, SegmenterTypes, Count
  <2>3. SegmenterFits'
    BY <1>0, <2>1, <2>2, ForgettingStaysFit DEF AgreementInvariant
  <2>. QED  BY <2>2, <2>3 DEF AgreementInvariant
<1>5. CASE UNCHANGED sessionVars
  <2>1. UNCHANGED segmenterVars /\ now' = now
    BY <1>5 DEF sessionVars, alertVars
  <2>. QED  BY <1>0, <2>1, AgreementStays
<1>. QED  BY <1>1, <1>2, <1>3, <1>4, <1>5 DEF SessionNext

LEMMA AgreementInvariantHolds == SessionSpec => []AgreementInvariant
BY SessionInvariantHolds, AgreementStarts, AgreementGoesOn, PTL DEF SessionSpec

\* A host that pushes one event at a time and asks at any moment gets what
\* segment_session would return for the session so far, every episode and every pause,
\* whatever comes when and with or without timestamps; after forget_before it gets all
\* that lies in the window, and of the rest nothing changed.
THEOREM LiveMeansBatch == SessionSpec => []IncrementalAgreesWithBatch
<1>1. SessionInvariant /\ AgreementInvariant => IncrementalAgreesWithBatch
  BY FitMeansAgreement DEF SessionInvariant, SegmenterInvariant, AgreementInvariant
<1>. QED  BY <1>1, SessionInvariantHolds, AgreementInvariantHolds, PTL

=============================================================================
