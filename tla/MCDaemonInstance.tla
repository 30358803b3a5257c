--------------------------- MODULE MCDaemonInstance ---------------------------
EXTENDS DaemonInstance

CONSTANTS p1, p2, p3, home, container
=============================================================================
