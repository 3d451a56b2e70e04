------------------------------ MODULE Workspace ------------------------------
(***************************************************************************)
(* log_parser_delta_engine: smart_delta_engine, which follows a student's  *)
(* workspace from one log event to the next, and split_stacks and          *)
(* executed_blocks of liveness.py, which find out what of it can run.      *)
(*                                                                         *)
(* A workspace is the record of its top-level blocks in document order,    *)
(* the kind and the procedure name of every block, which are disabled, and *)
(* what hangs below a block as its next, in its bodies and in its slots;   *)
(* a block is its id.  The work lists are sets: the order in which they    *)
(* are popped is left open.                                                *)
(***************************************************************************)
EXTENDS Integers, Sequences, FiniteSets

CONSTANTS
    Blocks, Names,
    Parse,     \* the workspace of every XML string that parses
    Blank      \* the empty XML string

NoName == "none"   \* a block that neither declares nor calls a My Block
IsWorkspace(w) ==
    /\ w.tops \in Seq(Blocks) /\ w.disabled \subseteq Blocks
    /\ w.kind \in [Blocks -> {"hat", "definition", "call", "other"}]
    /\ w.proc \in [Blocks -> Names \cup {NoName}]
    /\ w.next \in [Blocks -> SUBSET Blocks]
    /\ w.bodies \in [Blocks -> SUBSET Blocks]
    /\ w.slots \in [Blocks -> SUBSET Blocks]

Under(w, b) == w.next[b] \cup w.bodies[b] \cup w.slots[b]
Tops(w) == {w.tops[i] : i \in DOMAIN w.tops}

Parsed == DOMAIN Parse

ASSUME ParseAssumption ==
    /\ Blank \notin Parsed
    /\ \A xml \in Parsed : LET w == Parse[xml] IN
         /\ IsWorkspace(w)
         /\ \A b \in Blocks : Under(w, b) \cap Tops(w) = {}
         /\ \A b, c \in Blocks : Under(w, b) \cap Under(w, c) # {} => b = c

VARIABLES
    workspace,      \* _workspace: the XML the maps were last built from
    roots, blocks,  \* the tracked blocks, ...
    parents,        \* ... their edges <<parent, child, kind>> and ...
    orphans,        \* ... those whose orphan_status is True
    phase,          \* whether process_log is in split_stacks
    live, stacks,   \* split_stacks: live, and the stacks still pending
    visiting,       \* executed_blocks: the blocks still pending
    seen,           \* history: the blocks visited by this split
    latest          \* history: the workspace of the last event that had one

mapVars == <<roots, blocks, parents, orphans>>
splitVars == <<live, stacks, visiting, seen>>
trackerVars == <<workspace, mapVars, phase, splitVars, latest>>

TrackerInit ==
    /\ workspace = Blank /\ latest = Blank
    /\ roots = {} /\ blocks = {} /\ parents = {} /\ orphans = {}
    /\ phase = "idle"
    /\ live = {} /\ stacks = {} /\ visiting = {} /\ seen = {}

-----------------------------------------------------------------------------
Enabled(w, b) == b \notin w.disabled
Hats(w) == {b \in Tops(w) : w.kind[b] = "hat" /\ Enabled(w, b)}

Declares(w, i) == w.kind[w.tops[i]] = "definition" /\ Enabled(w, w.tops[i])
                  /\ w.proc[w.tops[i]] # NoName
\* Mutant: of two definitions of a name the last one wins.
LastDefinition(w, name) ==
    {w.tops[i] : i \in {j \in DOMAIN w.tops :
        /\ Declares(w, j) /\ w.proc[w.tops[j]] = name
        /\ \A k \in j + 1..Len(w.tops) : Declares(w, k) => w.proc[w.tops[k]] # name}}
\* definitions.setdefault, in document order.
Definition(w, name) ==
    {w.tops[i] : i \in {j \in DOMAIN w.tops :
        /\ Declares(w, j) /\ w.proc[w.tops[j]] = name
        /\ \A k \in 1..j - 1 : Declares(w, k) => w.proc[w.tops[k]] # name}}

\* value_input: a disabled block in a slot counts as nothing.
ValueInputs(w, b) == w.slots[b] \ w.disabled

\* What executed_blocks goes on to from a block.
Goes(w, b) ==
    w.next[b] \cup (IF Enabled(w, b) THEN w.bodies[b] \cup ValueInputs(w, b) ELSE {})

\* The definition, if any, that a block calls ...
Called(w, b) ==
    IF Enabled(w, b) /\ w.kind[b] = "call" THEN Definition(w, w.proc[b]) ELSE {}
\* Mutant: a definition that is live already is taken up again.
CalledAgain(w, b) == Called(w, b)
\* ... and that its visit makes live.
NewlyCalled(w, b) == Called(w, b) \ live

-----------------------------------------------------------------------------
\* process_log of an event whose project has the workspace xml; an event without a
\* readable project changes nothing.
ProcessLog(xml) ==
    /\ phase = "idle"
    /\ latest' = xml
    /\ IF xml = workspace
       THEN UNCHANGED <<workspace, mapVars, phase, splitVars>>
       ELSE /\ workspace' = xml
            /\ roots' = {} /\ blocks' = {} /\ parents' = {} /\ orphans' = {}
            /\ phase' = IF xml \in Parsed THEN "splitting" ELSE "idle"
            /\ live' = IF xml \in Parsed THEN Hats(Parse[xml]) ELSE {}
            /\ stacks' = live'
            /\ visiting' = {} /\ seen' = {}

\* split_stacks takes up a pending stack, ...
TakeStack(s) ==
    /\ phase = "splitting" /\ visiting = {}
    /\ s \in stacks
    /\ stacks' = stacks \ {s}
    /\ visiting' = {s}
    /\ UNCHANGED <<workspace, mapVars, phase, live, seen, latest>>

\* ... executed_blocks goes through it, and a call in it makes its definition live.
VisitBlock(b) ==
    /\ phase = "splitting"
    /\ b \in visiting
    /\ visiting' = (visiting \ {b}) \cup Goes(Parse[workspace], b)
    /\ seen' = seen \cup {b}
    /\ live' = live \cup NewlyCalled(Parse[workspace], b)
    /\ stacks' = stacks \cup NewlyCalled(Parse[workspace], b)
    /\ UNCHANGED <<workspace, mapVars, phase, latest>>

\* The blocks that edges <<b, c>> lead to from some, in any number of steps: what is in
\* every set that has those and that no edge leaves.
Below(some, edges) ==
    LET kept == {S \in SUBSET Blocks :
                   some \subseteq S /\ \A e \in edges : e[1] \in S => e[2] \in S}
    IN  {b \in Blocks : \A S \in kept : b \in S}

\* _add_stack: everything under a top-level block, the disabled included, except
\* what value_input leaves out.
Children(w, b) == w.next[b] \cup w.bodies[b] \cup ValueInputs(w, b)
StackOf(w, top) ==
    Below({top}, UNION {{b} \X Children(w, b) : b \in Blocks})

\* The rest of _bootstrap_from_xml.
Register ==
    LET w == Parse[workspace]
    IN  /\ phase = "splitting" /\ visiting = {} /\ stacks = {}
        /\ roots' = Tops(w)
        /\ blocks' = UNION {StackOf(w, r) : r \in Tops(w)}
        /\ orphans' = UNION {StackOf(w, r) : r \in Tops(w) \ live}
        /\ parents' = UNION {({b} \X w.next[b] \X {"next"}) \cup
                             ({b} \X (w.bodies[b] \cup ValueInputs(w, b)) \X {"inside"}) :
                               b \in blocks'}
        /\ phase' = "idle"
        /\ UNCHANGED <<workspace, splitVars, latest>>

\* process_log returns before the next event is folded in.
TrackerSteps == (\E b \in Blocks : TakeStack(b) \/ VisitBlock(b)) \/ Register

-----------------------------------------------------------------------------
\* The edges _runnable_ids takes, over the maps alone.
Followed ==
    {<<p[1], p[2]>> : p \in {q \in parents :
        q[3] = "next" \/ Enabled(Parse[workspace], q[1])}}
RunnableIds ==
    IF roots = {} THEN {}
    ELSE {b \in Below(roots \ orphans, Followed) : Enabled(Parse[workspace], b)}

-----------------------------------------------------------------------------
(***************************************************************************)
(* What counts as live code (README, liveness.py): enabled hat stacks, and *)
(* the definitions they call, directly or through other called ones; the   *)
(* first definition of a name only; nothing in a disabled block, but what  *)
(* comes after it.  It is the least set of blocks that the rules close.    *)
(***************************************************************************)
FirstOfItsName(w, d) ==
    \E i \in DOMAIN w.tops : w.tops[i] = d /\ Declares(w, i)
        /\ ~\E k \in 1..i - 1 : Declares(w, k) /\ w.proc[w.tops[k]] = w.proc[d]

Closed(w, S) ==
    /\ Hats(w) \subseteq S
    /\ \A b \in S : w.next[b] \subseteq S
    /\ \A b \in S \ w.disabled :
         /\ w.bodies[b] \cup (w.slots[b] \ w.disabled) \subseteq S
         /\ w.kind[b] = "call" =>
              \A d \in Tops(w) : FirstOfItsName(w, d) /\ w.proc[d] = w.proc[b] => d \in S

Reached(w) == LET closed == {S \in SUBSET Blocks : Closed(w, S)}
              IN  {b \in Blocks : \A S \in closed : b \in S}

\* "A My Block definition is live when live code calls it (directly, or through other
\* called definitions). ... When a name is defined twice, the first definition wins":
\* the active stacks are exactly those, after every sequence of events, and
\* get_runnable_block_count, which walks the maps, counts exactly the blocks that run.
\* "An empty workspace clears the state."  One that does not parse is left out: the code
\* clears the state then, too, where the README has it ignored.
ActiveIsWhatRuns ==
    phase = "idle" =>
        LET w == Parse[latest]
        IN  /\ latest \in Parsed => /\ roots \ orphans = Tops(w) \cap Reached(w)
                                   /\ RunnableIds = Reached(w) \ w.disabled
            /\ latest = Blank => roots = {} /\ blocks = {} /\ RunnableIds = {}

\* split_stacks ends, though definitions may call themselves or each other: one that is
\* live already is not pending again, so no walk comes to a block twice.
EachBlockOnce ==
    [][\A b \in Blocks : VisitBlock(b) => b \notin seen]_trackerVars
=============================================================================
