---------------------------- MODULE MCProfileHost ----------------------------
(***************************************************************************)
(* Workloads of ProfileHost for TLC.                                       *)
(***************************************************************************)
EXTENDS ProfileHost

Run(xml, pg) == [type |-> "runProject", xml |-> xml, playground |-> pg]
Other(type) == [type |-> type, xml |-> None, playground |-> None]
Given == [session |-> "given", index |-> 0]
Weighed == [params |-> "weight", id |-> NoId]
Labelled == [params |-> "weight", id |-> Given]

\* Two students with programs in common, one the engine raises on, runs that inherit
\* their playground, an unsupported playground, outcomes; and cards that are edited,
\* once into something malformed, while one program is run.
Sharing == [events |-> {Run("a", "p"), Run("a", None), Run("b", "q")},
            limit |-> 3, outcomes |-> {Weighed}, diagnostics |-> 0, releases |-> FALSE,
            cards |-> {1}, edits |-> 0, clears |-> 0]
Noise == [events |-> {Run("bad", "p"), Run("a", None), Other("invalid"), Other("playgroundData")},
          limit |-> 3, outcomes |-> {}, diagnostics |-> 2, releases |-> FALSE,
          cards |-> {1}, edits |-> 0, clears |-> 0]
Late == [events |-> {Run("a", "p")}, limit |-> 2, outcomes |-> {Labelled}, diagnostics |-> 2,
         releases |-> TRUE, cards |-> {1}, edits |-> 0, clears |-> 0]
Editing == [events |-> {Run("a", "p")}, limit |-> 3, outcomes |-> {}, diagnostics |-> 0,
            releases |-> FALSE, cards |-> {NotCached}, edits |-> 2, clears |-> 2]
HostSymmetry == Permutations(Hosts)
EditedOnce == {Editing}
AllWorkloads == {Sharing, Noise, Late, Editing}
=============================================================================
