------------------------------- MODULE TuiApp -------------------------------
(***************************************************************************)
(* The terminal interface: the application state (crates/atm/src/app.rs),  *)
(* the event loop that feeds it and the tasks beside it (bin/atm/tui.rs).  *)
(*                                                                         *)
(* The loop draws a frame, takes one event, handles it whole and draws     *)
(* again; a step below is one event and the frame after it.  Events come   *)
(* from the user (KeyInput says which keys make which action), from the    *)
(* daemon client, from the poll of the tmux session's panes and from the   *)
(* capture task, which reads the pane of the selected agent and answers    *)
(* late: the selection may have moved on.                                  *)
(*                                                                         *)
(* `app` is the App struct; its methods are operators from app to app.     *)
(***************************************************************************)
EXTENDS TuiTree

CONSTANTS
  Sessions,   \* session ids, naturals in starting order
  Views(_),   \* the views a session may take
  MaxQuery,   \* longest query typed
  MaxKeys,    \* bound on the user's events
  MaxNews     \* bound on events from the daemon and the pane poll

VARIABLES
  app,        \* the App struct
  capturing,  \* pane the capture task is reading, 0 when idle
  inbox,      \* pane of a capture that waits in the event channel, or 0
  keys, news, \* events so far
  done        \* the loop has ended

vars == <<app, capturing, inbox, keys, news, done>>

Panes == {v.pane : v \in UNION {Views(s) : s \in Sessions}} \ {0}

NoFolds == [on |-> FALSE, ids |-> {}, all |-> FALSE]
NoNode  == <<"none", 0>>

--------------------------------------------------------------------------
(* Rows and the cursor *)

Cursor(a) == IF a.sel <= Len(a.rows) THEN NodeId(a.rows[a.sel]) ELSE NoNode

\* selected_session, 0 on a group row or with no rows.
SelectedSession(a) == IF Cursor(a)[1] = "agent" THEN Cursor(a)[2] ELSE 0

Pane(a, s) == IF s = 0 THEN 0 ELSE a.sessions[s].pane

\* clamp_selection (rows count from 1 here).
Clamp(a) ==
  [a EXCEPT !.sel = IF Len(a.rows) = 0 THEN 1 ELSE IF @ > Len(a.rows) THEN Len(a.rows) ELSE @]

Reflatten(a) == [a EXCEPT !.rows = Flatten(a.tree, a.expanded)]

\* The first row with the id, if there is one, becomes the selected row.
PutOn(a, id) ==
  LET at == {i \in 1 .. Len(a.rows) : NodeId(a.rows[i]) = id}
  IN  IF at = {} THEN a ELSE [a EXCEPT !.sel = CHOOSE i \in at : \A j \in at : i <= j]

--------------------------------------------------------------------------
(* rebuild_tree *)

InScope(a) ==
  [s \in {t \in DOMAIN a.sessions : a.scoped => a.sessions[t].pane \in a.panes}
     |-> a.sessions[s]]

Shown(a) ==
  LET listed == InScope(a)
  IN  IF a.query = 0 THEN listed ELSE [s \in Selected(listed, a.query) |-> listed[s]]

\* Faulty: only new matches are opened, not those whose groups changed.
OpenNewOnly(a, matches, tree) ==
  UNION {Ancestors(PathTo(tree, <<"agent", s>>)) : s \in matches.ids \ a.matches.ids}
\* Groups to open: around sessions that just matched or whose path changed.
GroupsToOpen(a, matches, tree) ==
  UNION {Ancestors(PathTo(tree, <<"agent", s>>)) :
           s \in {m \in matches.ids :
                    \/ ~ (a.matches.on /\ m \in a.matches.ids)
                    \/ PathTo(a.tree, <<"agent", m>>) # PathTo(tree, <<"agent", m>>)}}

Rebuild(a) ==
  LET tree    == BuildTree(Shown(a))
      matches == [on |-> a.query > 0,
                  ids |-> IF a.query > 0 THEN Matched(InScope(a), a.query) ELSE {}]
      first   == IF a.expanded = {} THEN AllNodeIds(tree) ELSE a.expanded
  IN  Clamp(Reflatten(
        [a EXCEPT !.last = IF Cursor(a) = NoNode THEN @ ELSE Cursor(a),
                  !.matches = matches,
                  !.tree = tree,
                  !.expanded = first \cup GroupsToOpen(a, matches, tree)]))

--------------------------------------------------------------------------
(* Filtering *)

FirstMatch(a) ==
  LET hits == {i \in 1 .. Len(a.rows) :
                 NodeId(a.rows[i])[1] = "agent" /\ NodeId(a.rows[i])[2] \in a.matches.ids}
  IN  IF hits = {} THEN a ELSE [a EXCEPT !.sel = CHOOSE i \in hits : \A j \in hits : i <= j]

ApplyFilterChange(a) ==
  LET kept == IF a.saved.on THEN a
              ELSE [a EXCEPT !.saved = [on |-> TRUE, ids |-> a.expanded, all |-> a.tree = {}]]
      new  == Rebuild(kept)
  IN  Clamp(FirstMatch(Reflatten([new EXCEPT !.expanded = @ \cup AllNodeIds(new.tree)])))

EndFilter(a) ==
  LET id   == IF Cursor(a) = NoNode THEN a.last ELSE Cursor(a)
      new  == Rebuild([a EXCEPT !.saved = NoFolds])
      open == (IF a.saved.all THEN AllNodeIds(new.tree) ELSE a.saved.ids)
              \cup Ancestors(PathTo(new.tree, id))
  IN  IF ~ a.saved.on THEN a
      ELSE Clamp(PutOn(Reflatten([new EXCEPT !.expanded = open]), id))

ClearFilter(a) == EndFilter([a EXCEPT !.searching = FALSE, !.query = 0])

PopSearchChar(a) ==
  IF a.query = 0 THEN a
  ELSE LET b == [a EXCEPT !.query = @ - 1]
       IN  IF b.query = 0 THEN EndFilter(b) ELSE ApplyFilterChange(b)

--------------------------------------------------------------------------
(* Folds *)

SelectedPath(a) == a.rows[a.sel]
OnRow(a) == a.sel <= Len(a.rows)
OnGroup(a) == OnRow(a) /\ HasChildren(a.tree, SelectedPath(a))

\* nearest_ancestor_id, top_level_ancestor_id: rows are in depth-first order.
NearestAncestor(a) ==
  IF Len(SelectedPath(a)) = 1 THEN NoNode
  ELSE SelectedPath(a)[Len(SelectedPath(a)) - 1]

SetNodeExpanded(a, id, open) ==
  IF id = NoNode THEN a
  ELSE Clamp(PutOn(Reflatten(
         [a EXCEPT !.expanded = IF open THEN @ \cup {id} ELSE @ \ {id}]), id))

OpenFold(a) ==
  IF OnGroup(a) /\ Cursor(a) \notin a.expanded
  THEN Reflatten([a EXCEPT !.expanded = @ \cup {Cursor(a)}]) ELSE a

CloseFold(a) ==
  CASE OnGroup(a) /\ Cursor(a) \in a.expanded -> SetNodeExpanded(a, Cursor(a), FALSE)
    [] OnRow(a) /\ ~ OnGroup(a) -> SetNodeExpanded(a, NearestAncestor(a), FALSE)
    [] OTHER -> a

ToggleFold(a) ==
  LET id == IF OnGroup(a) THEN Cursor(a) ELSE NearestAncestor(a)
  IN  IF OnRow(a) THEN SetNodeExpanded(a, id, id \notin a.expanded) ELSE a

CollapseAll(a) ==
  LET flat == Reflatten([a EXCEPT !.expanded = {}])
  IN  Clamp(IF OnRow(a) THEN PutOn(flat, SelectedPath(a)[1]) ELSE flat)

ExpandAll(a) == Reflatten([a EXCEPT !.expanded = AllNodeIds(a.tree)])

--------------------------------------------------------------------------
(* Moving the cursor *)

GoTo(a, i) ==
  [a EXCEPT !.sel = IF Len(a.rows) = 0 THEN 1 ELSE IF i < Len(a.rows) THEN i ELSE Len(a.rows)]
SelectDown(a, n) == GoTo(a, a.sel + n)
SelectUp(a, n) == [a EXCEPT !.sel = IF @ > n THEN @ - n ELSE 1]

\* select_attention: the next agent that wants attention, folded away or not.
SelectAttention(a, forward) ==
  LET all  == Flatten(a.tree, AllNodeIds(a.tree))
      n    == Len(all)
      here == {i \in 1 .. n : OnRow(a) /\ NodeId(all[i]) = Cursor(a)}
      from == IF here = {} THEN 1 ELSE CHOOSE i \in here : \A j \in here : i <= j
      At(step) == ((IF forward THEN from - 1 + step ELSE from - 1 + n - step) % n) + 1
      Wants(i) == /\ NodeId(all[i])[1] = "agent"
                  /\ a.sessions[NodeId(all[i])[2]].attn
      steps == {k \in 1 .. n : Wants(At(k))}
  IN  IF steps = {} THEN a
      ELSE LET id == NodeId(all[At(CHOOSE k \in steps : \A j \in steps : k <= j)])
           IN  PutOn(Reflatten([a EXCEPT !.expanded = @ \cup Ancestors(PathTo(a.tree, id))]), id)

--------------------------------------------------------------------------
(* The loop *)

Start(scoped) ==
  [state |-> "connecting", sessions |-> [s \in {} |-> {}], scoped |-> scoped, panes |-> {},
   tree |-> {}, rows |-> <<>>, expanded |-> {}, sel |-> 1, last |-> NoNode,
   query |-> 0, searching |-> FALSE, matches |-> [on |-> FALSE, ids |-> {}],
   saved |-> NoFolds, help |-> FALSE, target |-> 0, output |-> 0]

Init ==
  /\ app \in {Start(scoped) : scoped \in BOOLEAN}
  /\ capturing = 0 /\ inbox = 0 /\ keys = 0 /\ news = 0 /\ done = FALSE

\* sync_capture_target: every frame points the capture task at the selection.
Frame(a) ==
  LET pane == Pane(a, SelectedSession(a))
  IN  IF a.target = pane THEN a ELSE [a EXCEPT !.target = pane, !.output = 0]

User(a) ==
  /\ ~ done /\ keys < MaxKeys /\ keys' = keys + 1
  /\ app' = Frame(a)
  /\ UNCHANGED <<capturing, inbox, news, done>>

Listing == ~ app.help /\ ~ app.searching

\* The help popup takes every key; ? and Esc close it.
ToggleHelp == ~ app.searching /\ User([app EXCEPT !.help = ~ @])
StartSearch == Listing /\ User([app EXCEPT !.searching = TRUE])
Searching == ~ app.help /\ app.searching
TypeChar ==
  Searching /\ app.query < MaxQuery /\ User(ApplyFilterChange([app EXCEPT !.query = @ + 1]))
Backspace == Searching /\ User(PopSearchChar(app))
ConfirmSearch == Searching /\ User([app EXCEPT !.searching = FALSE])
\* Esc in the prompt, or in the list while a filter is active.
EscapeFilter == ~ app.help /\ (app.searching \/ app.matches.on) /\ User(ClearFilter(app))
Move ==
  Listing /\ \E n \in 1 .. 2 : \/ User(SelectDown(app, n))
                               \/ User(SelectUp(app, n))
                               \/ User(GoTo(app, n))
Attend == Listing /\ \E forward \in BOOLEAN : User(SelectAttention(app, forward))
Fold ==
  Listing /\ \/ User(OpenFold(app))
             \/ User(CloseFold(app))
             \/ User(ToggleFold(app))
             \/ User(CollapseAll(app))
             \/ User(ExpandAll(app))

\* Enter: toggles a group; on an agent it jumps to the pane, and a picker ends.
Jump ==
  /\ Listing /\ ~ done /\ keys < MaxKeys
  /\ keys' = keys + 1
  /\ IF SelectedSession(app) = 0
     THEN app' = Frame(ToggleFold(app)) /\ done' = FALSE
     ELSE /\ app' = app
          /\ done' \in IF Pane(app, SelectedSession(app)) = 0 THEN {FALSE} ELSE BOOLEAN
  /\ UNCHANGED <<capturing, inbox, news>>

\* q and Ctrl-c, and Esc with no filter.
Quit ==
  /\ ~ done /\ done' = TRUE
  /\ UNCHANGED <<app, capturing, inbox, keys, news>>

--------------------------------------------------------------------------
(* Events of the daemon client and the pane poll *)

News(a) ==
  /\ ~ done /\ news < MaxNews /\ news' = news + 1
  /\ app' = Frame(a)
  /\ UNCHANGED <<capturing, inbox, keys, done>>

Lists == UNION {{l \in [ids -> UNION {Views(s) : s \in Sessions}] : \A s \in ids : l[s] \in Views(s)} :
                  ids \in SUBSET Sessions}

ReplaceSessions ==
  \E list \in Lists : News(Rebuild([app EXCEPT !.sessions = list, !.state = "connected"]))

UpdateSession ==
  \E s \in Sessions : \E v \in Views(s) :
    News(Rebuild([app EXCEPT !.sessions = [t \in DOMAIN @ \cup {s} |->
                                             IF t = s THEN v ELSE app.sessions[t]],
                             !.state = "connected"]))

RemoveSession ==
  \E s \in DOMAIN app.sessions :
    News(Rebuild([app EXCEPT !.sessions = [t \in DOMAIN @ \ {s} |-> app.sessions[t]]]))

\* update_filter_panes, from the poll that runs only with --tmux-session.
FilterUpdate ==
  /\ app.scoped
  /\ \E panes \in SUBSET Panes :
       panes # app.panes /\ News(Rebuild([app EXCEPT !.panes = panes]))

\* The list stays on screen, stale, until the next connection replaces it.
DaemonDisconnected == app.state # "lost" /\ News([app EXCEPT !.state = "lost"])

--------------------------------------------------------------------------
(* The capture task *)

CaptureStart ==
  /\ ~ done /\ capturing = 0 /\ inbox = 0 /\ app.target # 0
  /\ capturing' = app.target
  /\ UNCHANGED <<app, inbox, keys, news, done>>

\* tmux answers, or fails and the task waits for the next tick.
CaptureEnd ==
  /\ ~ done /\ capturing # 0
  /\ inbox' \in {0, capturing} /\ capturing' = 0
  /\ UNCHANGED <<app, keys, news, done>>

\* Faulty: an answer is shown whatever pane it is of.
AnyCapture(a, pane) == [a EXCEPT !.output = pane]
UpdateCapture(a, pane) == IF a.target = pane THEN [a EXCEPT !.output = pane] ELSE a

CaptureUpdate ==
  /\ ~ done /\ inbox # 0
  /\ app' = Frame(UpdateCapture(app, inbox)) /\ inbox' = 0
  /\ UNCHANGED <<capturing, keys, news, done>>

Next ==
  \/ ToggleHelp \/ StartSearch \/ TypeChar \/ Backspace \/ ConfirmSearch \/ EscapeFilter
  \/ Move \/ Attend \/ Fold \/ Jump \/ Quit
  \/ ReplaceSessions \/ UpdateSession \/ RemoveSession \/ FilterUpdate \/ DaemonDisconnected
  \/ CaptureStart \/ CaptureEnd \/ CaptureUpdate

Spec == Init /\ [][Next]_vars

--------------------------------------------------------------------------
(* Properties *)

\* The rows drawn are the tree's under the current folds, and the cursor is on one
\* of them when there is one.
ScreenCurrent ==
  /\ app.rows = Flatten(app.tree, app.expanded)
  /\ app.tree = BuildTree(Shown(app))
  /\ app.sel \in 1 .. IF app.rows = <<>> THEN 1 ELSE Len(app.rows)
  /\ app.matches.on = (app.query > 0) /\ app.saved.on = (app.query > 0)

\* The output beside the list is of the agent under the cursor, whatever order
\* moves, list updates and late captures come in.
PreviewIsSelected == app.output # 0 => app.output = Pane(app, SelectedSession(app))

\* Every listed agent is in the tree exactly once, children that arrive before
\* their parent and teams that span projects included.
EachAgentOnce ==
  \A s \in DOMAIN Shown(app) :
    Cardinality({p \in app.tree : NodeId(p) = <<"agent", s>>}) = 1

\* While a filter is active, no event but the user's own folding hides a match:
\* what starts to match shows, what was visible stays visible.
Visible(a, s) == \E i \in 1 .. Len(a.rows) : NodeId(a.rows[i]) = <<"agent", s>>
KeepsMatchesVisible ==
  news' # news /\ app.matches.on =>
    \A s \in app'.matches.ids :
      s \notin app.matches.ids \/ Visible(app, s) => Visible(app', s)
MatchesStayVisible == [][KeepsMatchesVisible]_vars

\* Ending a filter leaves the cursor on the row it was on, opening the folds
\* around it, also when live updates left the filtered list without rows.
KeepsCursor ==
  app.saved.on /\ ~ app'.saved.on =>
    LET id == IF Cursor(app) = NoNode THEN app.last ELSE Cursor(app)
    IN  id \in AllNodeIds(app'.tree) => Cursor(app') = id
FilterEndKeepsCursor == [][KeepsCursor]_vars

=============================================================================
