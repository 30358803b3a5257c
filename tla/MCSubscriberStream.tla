--------------------------- MODULE MCSubscriberStream ---------------------------
(* Two sessions, two views of each. *)
EXTENDS SubscriberStream, TLC

CONSTANTS i, j, u, w
MCIds == {i, j}
MCViews == {u, w}
=============================================================================
