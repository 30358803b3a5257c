--------------------------- MODULE MCRegistryChildren ---------------------------
(* One process whose session has in-process children, one of them named, and *)
(* which is discovered before it reports an id and reports two ids later.    *)
EXTENDS SessionRegistry, TLC

CONSTANTS p1, pend1, x, y, a, b, n, nAtPend, nAtX, nAtY

MCPendingId == p1 :> pend1
MCScopedId == <<n, pend1>> :> nAtPend @@ <<n, x>> :> nAtX @@ <<n, y>> :> nAtY
MCReports == p1 :> {x, y}
\* The agent ids are interchangeable, and no CHOOSE ranges over them.
AgentSymmetry == Permutations(AgentIds)
MCCmdlineParent == p1 :> NoId
=============================================================================
