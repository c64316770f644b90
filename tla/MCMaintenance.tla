---------------------------- MODULE MCMaintenance ----------------------------
(* Two projects with a skill each, p and q; gp and gq are the global skills  *)
(* their promotions create.  h is a skill that a harness ships with the      *)
(* first project, and is like p in all else.                                 *)
EXTENDS Maintenance

MCEnvironment ==
    [merge |-> "", generality |-> "claude", ollama_url |-> TRUE, api_key |-> TRUE,
     roots |-> {[global |-> TRUE, writable |-> TRUE], [global |-> FALSE, writable |-> FALSE]}]

CONSTANTS p, q, h, gp, gq

MCDirOf == [s \in Skills |->
    CASE s = p -> <<"a", ".skills", "p">>
      [] s = q -> <<"b", "skills", "q">>
      [] s = h -> <<"a", ".claude", "skills", "h">>
      [] OTHER -> <<"global", "skills">>]

\* q's description names a directory of the mounted project; the words of all
\* but gq overlap.
MCNameWords == [s \in Skills |-> IF s \in {q, gq} THEN {"cargo", "a"} ELSE {"cargo"}]
MCBodyWords == [s \in Skills |-> {"build"}]

MCCopy == [s \in ProjectSkills |-> IF s = q THEN gq ELSE gp]

\* The project skill a merge creates is one that is there already.
MCMerged == [pair \in {{p, gp}} |-> p]

\* Three uses today are exactly the threshold of one per month, three uses
\* yesterday are below it, older ones do not count, and a skill that was never
\* used has no sample.
MCUses == [s \in Mounted |->
    CASE s \in {p, q} -> <<0, 0, 0>>
      [] s \in {gp, h} -> <<1, 1, 200, 1>>
      [] s = gq -> <<>>]
=============================================================================
