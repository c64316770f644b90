----------------------------- MODULE MCRequests -----------------------------
(* A finite instance of Requests: two repositories and a global directory,  *)
(* three versions of the graph - none, one that fits every limit and one    *)
(* that exceeds them - and a prompt that all skills but one are close to.   *)
EXTENDS Requests

Row(id, scope, paths) ==
    [id |-> id, scope |-> scope, paths |-> paths, uses |-> IF id \in {"c", "g"} THEN 3 ELSE 0]

MCStore ==
    (0 :> <<>>)
 @@ (1 :> <<Row("a", "project", {"p"}), Row("c", "project", {}), Row("g", "global", {"dir"}),
            Row("q", "project", {"q"})>>)
 @@ (2 :> <<Row("a", "project", {"p"}), Row("b", "project", {"p", "q"}), Row("c", "project", {}),
            Row("d", "project", {"p"}), Row("g", "global", {}), Row("q", "project", {"q"})>>)

Ids == {"a", "b", "c", "d", "g", "q"}

Sub(semantic, lexical) == [semantic |-> semantic, lexical |-> lexical]

(* A near skill has two subunits, which score high, a far one has one.      *)
Query(near, alike) ==
    [semantic |-> [i \in Ids |-> IF i \in near THEN 80 ELSE 20],
     subunits |-> [i \in Ids |-> IF i \in near THEN <<Sub(70, 40), Sub(50, 0)>>
                                ELSE <<Sub(10, 100)>>],
     alike |-> alike,
     shared |-> [pair \in Ids \X Ids |-> IF {pair[1], pair[2]} \subseteq near THEN 50 ELSE 0]]

MCQueries == {Query({"a", "b", "c", "g", "q"}, {{"a", "c"}})}
MCLimits == {0}
MCRepos == {"q"}
MCMarked == {"p", "q"}
MCMounts == {{"project", "global"}, {}}
MCGlobalPaths == {"dir"}
MCAllowedRoots == {"dir", "opt"}
=============================================================================
