----------------------------- MODULE MCSession -----------------------------
(***************************************************************************)
(* SessionContext for TLC.  Requests, clears and repositories are            *)
(* interchangeable: no definition tells two of them apart, and only        *)
(* invariants are checked.                                                 *)
(***************************************************************************)
EXTENDS SessionContext, TLC

Symmetry == Permutations(Requests) \cup Permutations(Clears) \cup Permutations(Repos)

=============================================================================
