---------------------------- MODULE MCClearDelivery ----------------------------
EXTENDS ClearDelivery, TLC

CONSTANTS p1, pend1, x, y, z

MCPendingId == p1 :> pend1
MCScopedId == [k \in {} |-> NoId]
MCReports == p1 :> {x, y, z}
MCCmdlineParent == p1 :> NoId
=============================================================================
