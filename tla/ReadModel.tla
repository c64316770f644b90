------------------------------ MODULE ReadModel ------------------------------
(***************************************************************************)
(* What the online half promises about the graph it serves: writers commit *)
(* graph versions, the server shows one version at a time, the version it  *)
(* shows was committed and never goes back, and a server that is behind    *)
(* catches up.  GraphRefresh implements this specification.                *)
(***************************************************************************)
EXTENDS Naturals

VARIABLES committed,   \* graph_state.graph_version in Postgres
          served       \* the version of the snapshot requests are answered from

vars == <<committed, served>>

Init == committed = 0 /\ served = 0

Commit == committed' = committed + 1 /\ UNCHANGED served

Refresh ==
    /\ \E v \in 1..committed : v > served /\ served' = v
    /\ UNCHANGED committed

Next == Commit \/ Refresh

Spec == Init /\ [][Next]_vars

(* A server that stays behind refreshes. *)
FairSpec == Spec /\ WF_vars(Refresh)
=============================================================================
