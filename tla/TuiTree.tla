------------------------------ MODULE TuiTree ------------------------------
(***************************************************************************)
(* The tree the terminal interface shows (crates/atm-core/src/tree.rs) and *)
(* the free-text selection that narrows it (crates/atm/src/filter.rs).     *)
(*                                                                         *)
(* Sessions are naturals in the order in which they started.  A view is a  *)
(* record: the parent session, the project root and the worktree it runs   *)
(* in (0: none), its tmux pane (0: none), whether it wants attention, and  *)
(* `fits`, the longest query it answers: the queries are the prefixes of   *)
(* one text, so a query is its length.                                     *)
(*                                                                         *)
(* A node of the tree is the path of node ids that leads to it.  The id is *)
(* what folds and cursors remember; two nodes may share one, since the     *)
(* sessions without a worktree form the group "unknown" in every project.  *)
(***************************************************************************)
EXTENDS Naturals, Sequences, FiniteSets

Present(views, s) == views[s].parent \in DOMAIN views

\* Sessions nested under another one; an orphan stays a top-level row.
Nested(views) == {s \in DOMAIN views : Present(views, s)}

TopLevel(views) == DOMAIN views \ Nested(views)

(***************************************************************************)
(* Paths of agents below a top-level agent.  A cycle of parents is below   *)
(* no top-level agent, so its members are on no path.                      *)
(***************************************************************************)
Lines(views) ==
  LET line[n \in Nat] ==
        IF n = 0 THEN {<<s>> : s \in TopLevel(views)}
        ELSE {Append(l, s) : l \in line[n - 1], s \in DOMAIN views}
  IN  {l \in UNION {line[n] : n \in 0 .. Cardinality(DOMAIN views) - 1} :
         \A i \in 2 .. Len(l) : views[l[i]].parent = l[i - 1]}

\* A project has a worktree level only when its agents are in several.
Groups(views, s) ==
  LET peers == {t \in TopLevel(views) : views[t].project = views[s].project}
      project == <<"project", views[s].project>>
  IN  IF Cardinality({views[t].worktree : t \in peers}) <= 1
      THEN <<project>>
      ELSE <<project, <<"worktree", views[s].worktree>>>>

\* build_tree: every prefix of every agent's path is a node.
BuildTree(views) ==
  LET Agents(l) == [i \in 1 .. Len(l) |-> <<"agent", l[i]>>]
      full == {Groups(views, l[1]) \o Agents(l) : l \in Lines(views)}
  IN  UNION {{SubSeq(p, 1, i) : i \in 1 .. Len(p)} : p \in full}

NodeId(path) == path[Len(path)]

(***************************************************************************)
(* Order of siblings: projects by root with the ungrouped ones last,       *)
(* worktrees by path with "unknown" first, agents newest first below a     *)
(* group and oldest first below an agent.                                  *)
(***************************************************************************)
Sooner(above, a, b) ==
  CASE a[1] = "project"  -> b[2] = 0 \/ (a[2] # 0 /\ a[2] < b[2])
    [] a[1] = "worktree" -> a[2] < b[2]
    [] OTHER             -> IF above[1] = "agent" THEN a[2] < b[2] ELSE a[2] > b[2]

\* Depth-first order: a node before its children, siblings by Sooner.
Precedes(p, q) ==
  LET i == CHOOSE n \in 1 .. Len(p) + 1 :
             /\ SubSeq(p, 1, n - 1) = SubSeq(q, 1, n - 1)
             /\ n > Len(p) \/ n > Len(q) \/ p[n] # q[n]
  IN  /\ i <= Len(q)
      /\ i > Len(p) \/ Sooner(IF i = 1 THEN <<"root", 0>> ELSE p[i - 1], p[i], q[i])

InOrder(nodes) ==
  LET place == [p \in nodes |-> Cardinality({q \in nodes : q # p /\ Precedes(q, p)})]
  IN  [i \in 1 .. Cardinality(nodes) |-> CHOOSE p \in nodes : place[p] = i - 1]

\* flatten_tree: the nodes whose every ancestor is expanded, as rows.
Flatten(tree, expanded) ==
  InOrder({p \in tree : \A i \in 1 .. Len(p) - 1 : p[i] \in expanded})

AllNodeIds(tree) == {NodeId(p) : p \in tree}

HasChildren(tree, path) ==
  \E p \in tree : Len(p) = Len(path) + 1 /\ SubSeq(p, 1, Len(path)) = path

\* ancestor_ids: the path to the first node with the id; <<>> when absent.
PathTo(tree, id) ==
  LET found == {p \in tree : NodeId(p) = id}
  IN  IF found = {} THEN <<>> ELSE InOrder(found)[1]

Ancestors(path) == {path[i] : i \in 1 .. Len(path) - 1}

--------------------------------------------------------------------------
(* filter.rs *)

Matched(views, query) == {s \in DOMAIN views : views[s].fits >= query}

\* A match is shown with every ancestor that is in the list.
Selected(views, query) ==
  LET up[n \in Nat] ==
        IF n = 0 THEN Matched(views, query)
        ELSE up[n - 1] \cup {views[s].parent : s \in up[n - 1] \cap Nested(views)}
  IN  up[Cardinality(DOMAIN views)]
=============================================================================
