--------------------------- MODULE SidebarResize ---------------------------
(***************************************************************************)
(* The script that keeps a workspace's sidebar at its width (written by    *)
(* install_resize_hooks, bin/atm/workspace.rs).  tmux runs it after every  *)
(* resize-window, after every resize-pane ("hook" mode) and on prefix R.   *)
(* The script's own resize-pane runs it again: the pane option             *)
(* @atm-sidebar-tries counts the tries that did not reach the width.       *)
(* Runs overlap, and each reads the window, then the pane, then writes.    *)
(***************************************************************************)
EXTENDS Naturals, FiniteSets, Sequences

CONSTANTS
  MaxTries,    \* the script's limit (5 in the source)
  MaxScripts,  \* bound on runs going on at once
  MaxResizes   \* bound on what the user and other programs resize

Pct == 16    \* SIDEBAR_PCT, SIDEBAR_MIN, SIDEBAR_MAX
Narrow == 20
Wide == 40
WindowWidths == {15, 200, 300}

VARIABLES
  world,  \* [win, bar, tries]: the window's width, the sidebar's, the option
  job     \* [runs, due, resizes, calm]: scripts running, hooks yet to start theirs

vars == <<world, job>>

NoRun == [at |-> "none", hook |-> FALSE, s |-> 0, n |-> 0]
Slots == 1 .. MaxScripts
\* tmux leaves the other panes one column and the border between.
Room(win) == win - 2

Smaller(a, b) == IF a < b THEN a ELSE b
\* sidebar_width, and the same arithmetic in the script.
SidebarWidth(cols) ==
  LET s == (cols * Pct) \div 100
  IN  IF s < Narrow THEN Narrow ELSE Smaller(s, Wide)

Init ==
  /\ \E win \in WindowWidths \ {15} :
       world = [win |-> win, bar |-> Smaller(SidebarWidth(win), Room(win)), tries |-> 0]
  /\ job = [runs |-> [i \in Slots |-> NoRun], due |-> [hook |-> 0, plain |-> 0], resizes |-> 0, calm |-> TRUE]

Quiet == job.due = [hook |-> 0, plain |-> 0] /\ \A i \in Slots : job.runs[i] = NoRun

Fires(kind) == [job EXCEPT !.due[kind] = @ + 1]
\* `calm`: the last trigger found no run going on, and tries left if it needs any.
Trigger(kind) ==
  /\ job.resizes < MaxResizes
  /\ job' = [Fires(kind) EXCEPT !.resizes = @ + 1,
                                !.calm = Quiet /\ (kind = "plain" \/ world.tries < MaxTries)]

--------------------------------------------------------------------------
(* What resizes the window or the pane from outside *)

\* resize-window; tmux shares the new width out among the panes.
ResizeWindow ==
  /\ Trigger("plain")
  /\ \E win \in WindowWidths \ {world.win} :
       world' = [world EXCEPT !.win = win, !.bar = Smaller((@ * win) \div world.win + 1, Room(win))]
\* A teammate's rebalance gives the first pane 30% of the window.
ResizePane ==
  /\ Trigger("hook")
  /\ world' = [world EXCEPT !.bar = (world.win * 30) \div 100]
PressR == Trigger("plain") /\ UNCHANGED world

--------------------------------------------------------------------------
(* The script *)

\* It starts by reading the window's width.
Begin ==
  \E i \in Slots, kind \in {"hook", "plain"} :
    /\ job.due[kind] > 0 /\ job.runs[i] = NoRun
    /\ job' = [job EXCEPT !.due[kind] = @ - 1,
                          !.runs[i] = [at |-> "list", hook |-> kind = "hook",
                                       s |-> SidebarWidth(world.win), n |-> 0]]
    /\ UNCHANGED world

Goes(i, at) == job' = [job EXCEPT !.runs[i].at = at]
Exits(i) == job' = [job EXCEPT !.runs[i] = NoRun]

\* Faulty: the count also stops the runs of a window's resize and of R.
ListCapsAll(i) ==
  /\ job.runs[i].at = "list" /\ UNCHANGED world
  /\ LET run == job.runs[i]
     IN  \/ world.bar = run.s /\ world.tries = 0 /\ Exits(i)
         \/ world.bar = run.s /\ world.tries > 0 /\ Goes(i, "reset")
         \/ world.bar # run.s /\ world.tries >= MaxTries /\ Exits(i)
         \/ world.bar # run.s /\ world.tries < MaxTries
            /\ job' = [job EXCEPT !.runs[i].at = "count", !.runs[i].n = world.tries]
\* list-panes: the width and the count the rest of the run goes by.
List(i) ==
  /\ job.runs[i].at = "list" /\ UNCHANGED world
  /\ LET run == job.runs[i]
     IN  \/ world.bar = run.s /\ world.tries = 0 /\ Exits(i)
         \/ world.bar = run.s /\ world.tries > 0 /\ Goes(i, "reset")
         \/ world.bar # run.s /\ run.hook /\ world.tries >= MaxTries /\ Exits(i)
         \/ world.bar # run.s /\ run.hook /\ world.tries < MaxTries
            /\ job' = [job EXCEPT !.runs[i].at = "count", !.runs[i].n = world.tries]
         \/ world.bar # run.s /\ ~ run.hook /\ Goes(i, "resize")

Reset(i) ==
  /\ job.runs[i].at = "reset"
  /\ world' = [world EXCEPT !.tries = 0]
  /\ Exits(i)
Count(i) ==
  /\ job.runs[i].at = "count"
  /\ world' = [world EXCEPT !.tries = job.runs[i].n + 1]
  /\ Goes(i, "resize")
\* resize-pane, as far as the window has room; its own hook is due in turn.
Resize(i) ==
  /\ job.runs[i].at = "resize"
  /\ world' = [world EXCEPT !.bar = Smaller(job.runs[i].s, Room(world.win))]
  /\ job' = [Fires("hook") EXCEPT !.runs[i] = NoRun]

ScriptSteps == Begin \/ \E i \in Slots : List(i) \/ Reset(i) \/ Count(i) \/ Resize(i)
Next == ResizeWindow \/ ResizePane \/ PressR \/ ScriptSteps
\* tmux runs every hook, and the operating system every script.
Spec == Init /\ [][Next]_vars /\ WF_vars(ScriptSteps)

--------------------------------------------------------------------------
(* Properties *)

\* As the comment in install_resize_hooks says, the hook that its own resize-pane
\* fires again stops in the end, overlapping runs and too narrow windows included.
HookLoopEnds == <>[]Quiet

\* A window resize or R on a quiet session brings the sidebar to its width, as
\* far as there is room, whatever the count says; so does a pane resize while tries
\* are left.  (Overlapping runs may leave another width: one that read an older
\* window width can be the last to resize, with the count used up.)
SettlesAtWidth ==
  Quiet /\ job.calm =>
    world.bar = Smaller(SidebarWidth(world.win), Room(world.win))
=============================================================================
