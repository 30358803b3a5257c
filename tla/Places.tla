------------------------------- MODULE Places -------------------------------
(***************************************************************************)
(* What the subscriber cap promises (MAX_TUI_CLIENTS): a client is served  *)
(* only while it holds one of a fixed number of places.                    *)
(***************************************************************************)
EXTENDS Naturals, FiniteSets

CONSTANTS
  Clients,
  Size      \* the number of places

VARIABLES
  holders,  \* the clients that hold a place
  served    \* those that events are forwarded to

vars == <<holders, served>>

Init == holders = {} /\ served = {}

Enter ==
  /\ Cardinality(holders) < Size
  /\ \E c \in Clients \ holders : holders' = holders \cup {c}
  /\ UNCHANGED served
Serve ==
  /\ \E c \in holders \ served : served' = served \cup {c}
  /\ UNCHANGED holders
\* Clients leave, or are no longer served, one or all at once; who leaves is not served.
Leave ==
  /\ \E gone \in SUBSET holders : holders' = holders \ gone /\ served \cap gone = {}
  /\ UNCHANGED served
Rest ==
  /\ \E still \in SUBSET served : served' = still
  /\ UNCHANGED holders

Next == Enter \/ Serve \/ Leave \/ Rest

Spec == Init /\ [][Next]_vars
=============================================================================
