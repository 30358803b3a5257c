---------------------------- MODULE MCRegistryShared ----------------------------
(* Two processes that both report one id and both have a child whose agent  *)
(* gives it the same id; the second was started by that session (its        *)
(* command line says so) and reports an id of its own as well.              *)
EXTENDS RemovalCascade, TLC

CONSTANTS p1, p2, pend1, pend2, x, y

MCPendingId == p1 :> pend1 @@ p2 :> pend2
MCScopedId == [k \in {} |-> NoId]
MCReports == p1 :> {x} @@ p2 :> {x, y}
\* The agent ids are interchangeable, and no CHOOSE ranges over them.
AgentSymmetry == Permutations(AgentIds)
MCCmdlineParent == p1 :> NoId @@ p2 :> x
=============================================================================
