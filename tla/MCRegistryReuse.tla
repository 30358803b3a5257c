---------------------------- MODULE MCRegistryReuse ----------------------------
(* Session ids without children: two processes, which both report one id,   *)
(* and whose pids may be given to other processes.                          *)
EXTENDS SessionRegistry, TLC

CONSTANTS p1, p2, pend1, pend2, x

MCPendingId == p1 :> pend1 @@ p2 :> pend2
MCScopedId == [k \in {} |-> NoId]
MCReports == p1 :> {x} @@ p2 :> {x}
MCCmdlineParent == p1 :> NoId @@ p2 :> NoId
=============================================================================
