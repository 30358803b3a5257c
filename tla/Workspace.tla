----------------------------- MODULE Workspace -----------------------------
(***************************************************************************)
(* `atm workspace create` and `attach` (bin/atm/workspace.rs): a tmux      *)
(* session whose windows each hold one ATM sidebar.                        *)
(*                                                                         *)
(* Every tmux command is a step.  It may fail, or time out with or without *)
(* effect; the command then ends, and nothing is rolled back.  Beside it   *)
(* runs, for each new window, a script of the after-new-window hook: it    *)
(* checks no exit status, and splits whatever window is current by then.   *)
(*                                                                         *)
(* A window is the sequence of its panes, [bar, tag, runs, open], first    *)
(* the user's own.  `tag` is @atm-sidebar, `runs` that the `atm --compact` *)
(* line was typed there.                                                   *)
(***************************************************************************)
EXTENDS Naturals, Sequences, FiniteSets

CONSTANTS
  MaxRuns,   \* bound on the commands started
  MaxUpsets  \* bound on the windows and the failing tmux commands, together

VARIABLES
  world,  \* [wins, current, hook, cut, closed]: tmux, and what went wrong in a window
  job     \* [run, todo, listed, pane, scripts, runs, fails]

vars == <<world, job>>

Own  == [bar |-> FALSE, tag |-> FALSE, runs |-> FALSE, open |-> TRUE]
Bare == [Own EXCEPT !.bar = TRUE]
Step(name, w) == [do |-> name, win |-> w]
Inject(w) == <<Step("split", w), Step("title", w), Step("tag", w), Step("keys", w)>>
\* The hook's script for the window `own`: its next step, and the pane it has split off
\* in the window `win`, 0 for none.
Script(own, at, win, pane) == [own |-> own, at |-> at, win |-> win, pane |-> pane]
\* install_resize_hooks and install_new_window_hook: scripts, hooks and keys.
Hooks == <<Step("write-scripts", 0), Step("set-resize-hooks", 0), Step("bind-keys", 0),
           Step("set-window-hook", 0)>>

\* A plain session, not built by ATM, may be there.
Init ==
  /\ \E wins \in {<<>>, <<<<Own>>>>} :
       world = [wins |-> wins, current |-> Len(wins), hook |-> FALSE, cut |-> {}, closed |-> {}]
  /\ job = [run |-> "none", todo |-> <<>>, listed |-> {}, pane |-> 0, scripts |-> {},
            runs |-> 0, fails |-> 0]

Up == world.wins # <<>>
Windows == 1 .. Len(world.wins)
Bounded == Len(world.wins) + job.fails < MaxUpsets

--------------------------------------------------------------------------
(* The commands *)

Start(run, steps) ==
  /\ job.run = "none" /\ job.runs < MaxRuns
  /\ job' = [job EXCEPT !.run = run, !.todo = steps, !.listed = {}, !.runs = @ + 1]
  /\ UNCHANGED world

\* cmd_workspace; the harness and the name are checked before any tmux call.
Create ==
  Start("create", <<Step("has-none", 0), Step("new-session", 0)>> \o Inject(1)
                  \o <<Step("split-shell", 1), Step("type-agent", 1)>> \o Hooks)
Attach == Start("attach", <<Step("has", 0), Step("list-windows", 0)>>)

At(name) == job.run # "none" /\ job.todo # <<>> /\ Head(job.todo).do = name
W == Head(job.todo).win

Ended == [job EXCEPT !.run = "none", !.todo = <<>>]
Go == job' = [job EXCEPT !.todo = Tail(@)]
\* A command that fails, or times out after its effect, ends the run.
Breaks(effect) ==
  /\ Bounded
  /\ job' = [Ended EXCEPT !.fails = @ + 1]
  /\ world' \in {world, effect}

Ends == job.run # "none" /\ job.todo = <<>> /\ job' = Ended /\ UNCHANGED world

\* has_session: tmux's own "no" means absent; no answer is an error.
HasSession ==
  /\ At("has") \/ At("has-none")
  /\ UNCHANGED world
  /\ \/ Up = At("has") /\ Go
     \/ Up # At("has") /\ job' = Ended
     \/ Bounded /\ job' = [Ended EXCEPT !.fails = @ + 1]

NewSession ==
  /\ At("new-session")
  /\ IF Up THEN job' = Ended /\ UNCHANGED world
     ELSE LET made == [world EXCEPT !.wins = <<<<Own>>>>, !.current = 1]
          IN  (world' = made /\ Go) \/ Breaks(made)

ListWindows ==
  /\ At("list-windows") /\ UNCHANGED world
  /\ job' = [job EXCEPT !.listed = Windows,
                        !.todo = [i \in Windows |-> Step("list-panes", i)] \o Hooks]

HasBar(w) == \E i \in 1 .. Len(world.wins[w]) : world.wins[w][i].tag /\ world.wins[w][i].open
ScriptIn(w) == \E s \in job.scripts : s.own = w

\* Faulty: the panes' tags are not looked at.
ListPanesBlind ==
  /\ At("list-panes")
  /\ job' = [job EXCEPT !.todo = Inject(W) \o Tail(@)]
  /\ world' = IF ScriptIn(W) THEN [world EXCEPT !.cut = @ \cup {W}] ELSE world
\* A window that holds a tagged pane is left alone.  (While its script is at work the
\* pane may not be tagged yet, and the command adds one of its own.)
ListPanes ==
  /\ At("list-panes")
  /\ job' = [job EXCEPT !.todo = IF HasBar(W) THEN Tail(@) ELSE Inject(W) \o Tail(@)]
  /\ world' = IF ScriptIn(W) THEN [world EXCEPT !.cut = @ \cup {W}] ELSE world

--------------------------------------------------------------------------
(* inject_sidebar *)

SplitIn(w) == [world EXCEPT !.wins[w] = Append(@, Bare)]
Split ==
  /\ At("split")
  /\ \/ /\ world' = SplitIn(W)
        /\ job' = [job EXCEPT !.todo = Tail(@), !.pane = Len(world.wins[W]) + 1]
     \/ Breaks([SplitIn(W) EXCEPT !.cut = @ \cup {W}])

\* A step on the new pane: it fails when the user has closed it.  Whatever ends
\* the run here leaves the window with a half-made sidebar.
OnPane(field) ==
  LET made == [world EXCEPT !.wins[W][job.pane][field] = TRUE]
      half == [world EXCEPT !.cut = @ \cup {W}]
  IN  IF world.wins[W][job.pane].open
      THEN \/ world' = made /\ Go
           \/ /\ Bounded /\ job' = [Ended EXCEPT !.fails = @ + 1]
              /\ world' \in {half, [half EXCEPT !.wins = made.wins]}
      ELSE job' = Ended /\ world' = half

Title == At("title") /\ OnPane("bar")
Tag   == At("tag") /\ OnPane("tag")
Keys  == At("keys") /\ OnPane("runs")

\* The shell's split, and the agent's line in the first pane.
Other ==
  /\ At("split-shell") \/ At("type-agent") \/ At("write-scripts")
     \/ At("set-resize-hooks") \/ At("bind-keys")
  /\ (Go /\ UNCHANGED world) \/ Breaks(world)

SetWindowHook ==
  /\ At("set-window-hook")
  /\ LET set == [world EXCEPT !.hook = TRUE]
     IN  (world' = set /\ Go) \/ Breaks(set)

--------------------------------------------------------------------------
(* The user and the hook's scripts *)

\* The new window is the current one, but for `new-window -d`.  The hook starts a script,
\* whether or not another is at work.
NewWindow ==
  /\ Up /\ Bounded
  /\ \E current \in {world.current, Len(world.wins) + 1} :
       world' = [world EXCEPT !.wins = Append(@, <<Own>>), !.current = current]
  /\ job' = IF world.hook
            THEN [job EXCEPT !.scripts = @ \cup {Script(Len(world.wins) + 1, "split", 0, 0)}]
            ELSE job

SelectWindow ==
  \E w \in Windows : world' = [world EXCEPT !.current = w] /\ UNCHANGED job

CloseBar ==
  /\ \E w \in Windows : \E i \in 2 .. Len(world.wins[w]) :
       /\ world.wins[w][i].open
       /\ world' = [world EXCEPT !.wins[w][i].open = FALSE, !.closed = @ \cup {w}]
  /\ UNCHANGED job

After(at) == CASE at = "split" -> "title" [] at = "title" -> "tag" [] OTHER -> "keys"
\* The script s has one step less to do, and stays with the pane i of the window w.
ScriptGoes(s, w, i) ==
  LET rest == job.scripts \ {s}
  IN  [job EXCEPT !.scripts = IF s.at = "keys" THEN rest ELSE rest \cup {Script(s.own, After(s.at), w, i)}]
ScriptFails(s) ==
  Bounded /\ job' = [ScriptGoes(s, s.win, s.pane) EXCEPT !.fails = job.fails + 1]

\* A title is no mark.
MarkedBy(s, w, i) ==
  IF s.at = "title" THEN world
  ELSE [world EXCEPT !.wins[w][i][IF s.at = "tag" THEN "tag" ELSE "runs"] = TRUE]

\* split-window has no target: it takes the current window, its script's own or not.
ScriptSplits(s) ==
  /\ s.at = "split"
  /\ LET w == world.current
     IN  \/ /\ world' = IF w = s.own THEN SplitIn(w) ELSE [SplitIn(w) EXCEPT !.cut = @ \cup {w}]
            /\ job' = ScriptGoes(s, w, Len(world.wins[w]) + 1)
         \/ ScriptFails(s) /\ UNCHANGED world
ScriptMarks(s) ==
  /\ s.at # "split" /\ s.pane > 0
  /\ \/ /\ world' = IF world.wins[s.win][s.pane].open THEN MarkedBy(s, s.win, s.pane) ELSE world
        /\ job' = ScriptGoes(s, s.win, s.pane)
     \/ ScriptFails(s) /\ world' = [world EXCEPT !.cut = @ \cup {s.win}]
\* A split that failed gave no id, and tmux takes an empty target for the active pane of
\* the current window: that is what the later steps change.
ScriptStrays(s) ==
  /\ s.at # "split" /\ s.pane = 0
  /\ LET w == world.current
     IN  \/ /\ \E i \in 1 .. Len(world.wins[w]) :
                 /\ world.wins[w][i].open
                 /\ world' = [MarkedBy(s, w, i) EXCEPT !.cut = @ \cup {w}]
            /\ job' = ScriptGoes(s, 0, 0)
         \/ ScriptFails(s) /\ UNCHANGED world
ScriptStep ==
  \E s \in job.scripts : ScriptSplits(s) \/ ScriptMarks(s) \/ ScriptStrays(s)

Next ==
  \/ Create \/ Attach \/ Ends \/ HasSession \/ NewSession \/ ListWindows \/ ListPanes
  \/ Split \/ Title \/ Tag \/ Keys \/ Other \/ SetWindowHook
  \/ NewWindow \/ SelectWindow \/ CloseBar \/ ScriptStep
Spec == Init /\ [][Next]_vars

--------------------------------------------------------------------------
(* Properties *)

\* However often a session is attached to, and after whatever failed on the way,
\* a window gets a second sidebar only when an earlier one was left half made, its
\* script was still at work when the command looked, or the script of another window
\* split this one: the user opened that window with -d, opened one more or went away
\* before the script came to it.
OneSidebar ==
  \A w \in Windows \ world.cut :
    Cardinality({i \in 1 .. Len(world.wins[w]) :
                   world.wins[w][i].bar /\ world.wins[w][i].open}) <= 1

\* An attach that reports success leaves a live sidebar in every window it listed,
\* half-made ones and those the user closed aside.
Completes ==
  job.run = "attach" /\ job.todo = <<>> /\ job'.run = "none" =>
    \A w \in job.listed \ (world.cut \cup world.closed) :
      \E i \in 1 .. Len(world.wins[w]) :
        LET p == world.wins[w][i] IN p.bar /\ p.open /\ p.tag /\ p.runs
AttachCompletes == [][Completes]_vars
=============================================================================
