-------------------------- MODULE MCAttentionNotifier --------------------------
(* A session with two dialogs, one after the other, and one with a single   *)
(* dialog, whose events can make the notifier lose the first one's.         *)
EXTENDS AttentionNotifier, TLC

CONSTANTS i, j

MCMaxDialogs == i :> 2 @@ j :> 1
=============================================================================
