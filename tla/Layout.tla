------------------------------- MODULE Layout -------------------------------
(***************************************************************************)
(* `atm layout`: a tree of slots made into tmux panes (atm-tmux/layout.rs).*)
(*                                                                         *)
(* apply_slot walks the tree depth first: a container's first child takes  *)
(* over the container's pane, and each later child splits that pane again. *)
(* A pane is its rectangle on a 100 by 100 window; a split takes the given *)
(* share off the right or the bottom of the pane it is aimed at.  A split  *)
(* may fail, and leaves the panes made so far.                             *)
(***************************************************************************)
EXTENDS Naturals, Sequences, FiniteSets, SequencesExt

VARIABLES
  world,  \* [config, panes, session]: the config's layout, the window, a session's name
  job     \* [at, name, tree, todo, got]: the command

vars == <<world, job>>

Slot(role, size, dir, kids) == [role |-> role, size |-> size, dir |-> dir, kids |-> kids]
Leaf(role, size) == Slot(role, size, "h", <<>>)
Box(size, dir, kids) == Slot("shell", size, dir, kids)

Row(size) == Box(size, "h", <<Leaf("agent", 50), Leaf("agent", 50)>>)
Solo == Leaf("agent", 100)
Pair == Box(100, "h", <<Box(75, "v", <<Leaf("agent", 50), Leaf("agent", 50)>>), Leaf("panel", 25)>>)
Squad == Box(100, "h", <<Box(75, "v", <<Row(66), Leaf("agent", 33)>>), Leaf("panel", 25)>>)
Grid == Box(100, "v", <<Row(50), Row(50)>>)
WorkspaceTree ==
  Box(100, "h", <<Box(100, "v", <<Leaf("agent", 80), Leaf("shell", 20)>>), Leaf("panel", 30)>>)
WorkspaceEditor ==
  Box(100, "h", <<Box(100, "v", <<Box(80, "h", <<Leaf("editor", 50), Leaf("agent", 50)>>),
                                  Leaf("shell", 20)>>), Leaf("panel", 30)>>)

\* preset_by_name
Preset == [solo |-> Solo, pair |-> Pair, squad |-> Squad, grid |-> Grid,
           workspace |-> WorkspaceTree, workspace_editor |-> WorkspaceEditor]
\* A layout of the user's own, under a name of its own or a preset's.
Custom == Box(100, "h", <<Leaf("agent", 40), Row(30), Box(30, "v", <<Leaf("panel", 50)>>)>>)
Names == DOMAIN Preset \cup {"custom", "unknown"}
Configs == {"absent", "unreadable", "unparsable", "custom", "pair"}

Window == [x |-> 0, y |-> 0, w |-> 100, h |-> 100]

Init ==
  /\ \E config \in Configs, session \in BOOLEAN :
       world = [config |-> config, panes |-> <<>>, session |-> session]
  /\ job = [at |-> "none", name |-> "none", tree |-> Solo, todo |-> <<>>, got |-> <<>>]

--------------------------------------------------------------------------
(* load_layout: the config's layout when it has the name, else the preset. *)

Found(name) ==
  IF world.config = name THEN {Custom}
  ELSE IF name \in DOMAIN Preset THEN {Preset[name]} ELSE {}

Load ==
  /\ job.at = "none"
  /\ \E name \in Names :
       job' = IF world.config = "unreadable" \/ Found(name) = {}
              THEN [job EXCEPT !.at = "failed", !.name = name]
              ELSE [job EXCEPT !.at = "target", !.name = name,
                               !.tree = CHOOSE t \in Found(name) : TRUE]
  /\ UNCHANGED world

--------------------------------------------------------------------------
(* apply_layout *)

Apply(slot, pane) == [do |-> "apply", slot |-> slot, pane |-> pane, dir |-> "h"]
SplitOff(slot, pane, dir) == [do |-> "split", slot |-> slot, pane |-> pane, dir |-> dir]

\* The current pane, a new window's, or a new session's, if the name is free.
Target ==
  /\ job.at = "target"
  /\ \/ /\ world' = [world EXCEPT !.panes = <<Window>>]
        /\ job' = [job EXCEPT !.at = "slots", !.todo = <<Apply(job.tree, 1)>>]
     \/ UNCHANGED world /\ world.session /\ job' = [job EXCEPT !.at = "failed"]

Next1 == Head(job.todo)
Doing(what) == job.at = "slots" /\ job.todo # <<>> /\ Next1.do = what

\* A leaf is recorded; a container's first child inherits the pane, and its splits
\* come before those of its siblings.
ApplySlot ==
  /\ Doing("apply") /\ UNCHANGED world
  /\ LET kids == Next1.slot.kids
         Work(i) == IF i = 1 THEN Apply(kids[1], Next1.pane)
                    ELSE SplitOff(kids[i], Next1.pane, Next1.slot.dir)
     IN  job' = IF kids = <<>>
                THEN [job EXCEPT !.todo = Tail(@), !.got = Append(@, <<Next1.slot.role, Next1.pane>>)]
                ELSE [job EXCEPT !.todo = [i \in 1 .. Len(kids) |-> Work(i)] \o Tail(@)]

\* split_window: the share is of the pane as it is now.
SplitWindow ==
  /\ Doing("split")
  /\ LET old  == world.panes[Next1.pane]
         side == IF Next1.dir = "h" THEN (old.w * Next1.slot.size) \div 100
                 ELSE (old.h * Next1.slot.size) \div 100
         kept == IF Next1.dir = "h" THEN [old EXCEPT !.w = @ - side] ELSE [old EXCEPT !.h = @ - side]
         new  == IF Next1.dir = "h" THEN [old EXCEPT !.x = @ + kept.w, !.w = side]
                 ELSE [old EXCEPT !.y = @ + kept.h, !.h = side]
     IN  \/ /\ world' = [world EXCEPT !.panes = Append([@ EXCEPT ![Next1.pane] = kept], new)]
            /\ job' = [job EXCEPT !.todo =
                         <<Apply(Next1.slot, Len(world.panes) + 1)>> \o Tail(@)]
         \/ /\ job' = [job EXCEPT !.at = "failed", !.todo = <<>>]
            /\ UNCHANGED world

Finish ==
  /\ job.at = "slots" /\ job.todo = <<>>
  /\ job' = [job EXCEPT !.at = "done"]
  /\ UNCHANGED world

Next == Load \/ Target \/ ApplySlot \/ SplitWindow \/ Finish
Spec == Init /\ [][Next]_vars

--------------------------------------------------------------------------
(* Properties *)

\* The roles of a tree's leaves, in order.  In none of the layouts above is a leaf more
\* than three boxes deep.
InnerLeaves(slot) ==
  IF slot.kids = <<>> THEN <<slot.role>> ELSE [i \in DOMAIN slot.kids |-> slot.kids[i].role]
MiddleLeaves(slot) ==
  IF slot.kids = <<>> THEN <<slot.role>> ELSE FlattenSeq([i \in DOMAIN slot.kids |-> InnerLeaves(slot.kids[i])])
Leaves(slot) ==
  IF slot.kids = <<>> THEN <<slot.role>> ELSE FlattenSeq([i \in DOMAIN slot.kids |-> MiddleLeaves(slot.kids[i])])

\* When a layout is done every leaf has a pane of its own, in the tree's order, and
\* the window has no pane that is no leaf's.
LeavesGetPanes ==
  job.at = "done" =>
    /\ [i \in 1 .. Len(job.got) |-> job.got[i][1]] = Leaves(job.tree)
    /\ {job.got[i][2] : i \in 1 .. Len(job.got)} = 1 .. Len(world.panes)
    /\ Len(job.got) = Len(world.panes)

=============================================================================
