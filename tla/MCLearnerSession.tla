--------------------------- MODULE MCLearnerSession ---------------------------
(***************************************************************************)
(* Workloads and small constants of LearnerSession for TLC.                *)
(***************************************************************************)
EXTENDS LearnerSession

CONSTANT Broken   \* an XML string that does not parse

Ev(type, gap, timed, xml, pg) ==
    [type |-> type, gap |-> gap, timed |-> timed, xml |-> xml, playground |-> pg]
UI(types, gaps) == {Ev(t, g, TRUE, "x", "p") : t \in types, g \in gaps}

\* A program too big to compare, one that is a small edit away from x, one a rewrite.
SomeDistance ==
    [p \in Xmls \X Xmls |->
        IF p[1] = p[2] THEN 0
        ELSE IF "rewrite" \in {p[1], p[2]} THEN 5
        ELSE IF p = <<"x", "same">> \/ p = <<"same", "x">> THEN 0 ELSE 1]
Thresholds == [pg \in Playgrounds \cup {NoPlayground} |-> IF pg = "p" THEN 2 ELSE 3]

\* Watching runs, with menus and playground events between; long gaps between edits; a
\* session with reloads, unknown events, missing timestamps and gaps over a day; runs of
\* several programs on two playgrounds; a student who goes idle.
Watching == [events |-> UI({"runProject", "projectEnd", "playground"}, {0, 2})
                         \cup UI({"code", "menu"}, {2}),
             limit |-> 5, hostCalls |-> {}, until |-> 0]
Pausing == [events |-> UI({"code", "runProject", "projectEnd", "menu"}, {0, 3}),
            limit |-> 4, hostCalls |-> {"forget"}, until |-> 0]
Odd == [events |-> UI({"runProject", "projectEnd", "playground", "load", "other"}, {2, 5})
                   \cup {Ev(t, 2, FALSE, "x", "p") : t \in {"projectEnd", "playground", "code"}},
        limit |-> 4, hostCalls |-> {"forget"}, until |-> 0]
Rerunning == [events |-> {Ev("runProject", 1, TRUE, x, "p") : x \in {"x", "same", "rewrite"}}
                         \cup {Ev("runProject", 1, TRUE, "x", "q"),
                               Ev("runProject", 1, TRUE, "big", NoPlayground)},
              limit |-> 6, hostCalls |-> {"clear"}, until |-> 0]
Idling == [events |-> {Ev("code", 0, TRUE, "x", "p"), Ev("code", 2, TRUE, "x", "p")},
           limit |-> 3, hostCalls |-> {"poll"}, until |-> 10]

-----------------------------------------------------------------------------
(***************************************************************************)
(* A number stands for an XML string of three stacks: the i-th top-level   *)
(* block is i, its next is block i + 3, and block i + 6 hangs on that one. *)
(* The number's digits say what is at the top of each and what is under    *)
(* the first and under the other two.                                      *)
(***************************************************************************)
Top(kind, name, off) == [kind |-> kind, name |-> name, off |-> off]
TopKinds == <<Top("hat", NoName, {}), Top("hat", NoName, {0}), Top("definition", "f", {}),
              Top("definition", "f", {0}), Top("definition", "g", {})>>

\* What block i + 3 calls, which of i + 3 and i + 6 are disabled, and how i + 6 hangs: a
\* reporter in a slot, or a call of g.
Body(calls, off, under) == [calls |-> calls, off |-> off, under |-> under]
BodyKinds == <<Body("f", {}, "slots"), Body("g", {6}, "slots"), Body("f", {3}, "bodies"),
               Body(NoName, {3}, "next"), Body(NoName, {}, "bodies")>>

Kinds == 5   \* as many as there are of each
ASSUME KindsAssumption == Len(TopKinds) = Kinds /\ Len(BodyKinds) = Kinds
ParsedXmls == 0..Kinds^5 - 1
Digit(xml, n) == ((xml \div Kinds^n) % Kinds) + 1

Made(xml) ==
    LET top == [i \in 1..3 |-> TopKinds[Digit(xml, i - 1)]]
        body == [i \in 1..3 |-> BodyKinds[Digit(xml, IF i = 1 THEN 3 ELSE 4)]]
        Each(top_i(_), next_i(_), under_i(_)) ==   \* of the nine blocks
            [i \in 1..3 |-> top_i(i)] \o [i \in 1..3 |-> next_i(i)] \o [i \in 1..3 |-> under_i(i)]
        None(i) == {}
        Hung(how) == Each(None, LAMBDA i : IF body[i].under = how THEN {i + 6} ELSE {}, None)
        proc == Each(LAMBDA i : top[i].name, LAMBDA i : body[i].calls,
                     LAMBDA i : IF body[i].under = "slots" THEN NoName ELSE "g")
    IN  [tops |-> <<1, 2, 3>>,
         kind |-> [i \in 1..3 |-> top[i].kind]
                  \o [i \in 1..6 |-> IF proc[i + 3] = NoName THEN "other" ELSE "call"],
         proc |-> proc,
         disabled |-> UNION {{i + o : o \in top[i].off \cup body[i].off} : i \in 1..3},
         next |-> [i \in 1..3 |-> {i + 3}] \o SubSeq(Hung("next"), 4, 9),
         bodies |-> Hung("bodies"), slots |-> Hung("slots")]
SomeParse == [xml \in ParsedXmls |-> Made(xml)]

\* Every one of these workspaces on its own, and the student editing between a few of
\* them, an empty and a broken one.
Showing(xml) == [events |-> {Ev("code", 0, TRUE, xml, "p")}, limit |-> 1,
                 hostCalls |-> {"track"}, until |-> 0]
Few == {735, 1560, 1146}
Editing == [events |-> {Ev("code", 0, TRUE, xml, "p") : xml \in Few \cup {Blank, Broken, NoProject}},
            limit |-> 4, hostCalls |-> {"track"}, until |-> 0]

AllWorkloads == {Watching, Pausing, Odd, Rerunning, Idling, Editing}
                \cup {Showing(xml) : xml \in ParsedXmls}
=============================================================================
