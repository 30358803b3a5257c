---------------------------- MODULE RemovalCascade ----------------------------
(***************************************************************************)
(* The removal of a row as remove.rs and children.rs perform it: the row   *)
(* goes first, then its children one by one through the index, each with   *)
(* its own children, and then it leaves its parent's list.  SessionRegistry *)
(* states the outcome in closed form (RemoveRows); here the two are        *)
(* compared in every reachable state of the registry.                      *)
(***************************************************************************)
EXTENDS SessionRegistry, FiniteSetsExt

RECURSIVE RemoveEntry(_, _, _)

RemoveAndAnnounce(s, p, id) == PublishRemoved(RemoveEntry(s, p, id), id)

RemoveById(id, s) ==
  IF s.index[id] = NoPid THEN s ELSE RemoveAndAnnounce(s, s.index[id], id)

\* Faulty: leaves the removed session in its parent's list.
DetachUnlisted(s, row) ==
  LET s1 == FoldSet(RemoveById, s, row.children)
  IN [s1 EXCEPT !.refs = [k \in ProcIds \X Refs |->
                            IF row.id \in {k[1], s1.refs[k]} THEN NoId ELSE s1.refs[k]]]

DetachRemovedSession(s, row) ==
  LET s1 == FoldSet(RemoveById, s, row.children)
      p == ParentPid(s1, row)
      s2 == IF p \notin Held(s1) THEN s1
            ELSE PublishUpdated([s1 EXCEPT !.rows[p].children = @ \ {row.id}], p)
  IN [s2 EXCEPT !.refs = [k \in ProcIds \X Refs |->
                            IF row.id \in {k[1], s2.refs[k]} THEN NoId ELSE s2.refs[k]]]

RemoveEntry(s, p, id) ==
  LET s1 == Unindex([s EXCEPT !.rows[p] = NoRow], id, p)
  IN IF s.rows[p] = NoRow THEN s1 ELSE DetachRemovedSession(s1, s.rows[p])

\* The loop of handle_cleanup_stale, over ids read before the first removal.
Sweep(s, gone) ==
  LET RemoveOne(p, t) == RemoveAndAnnounce(t, p, s.rows[p].id)
  IN FoldSet(RemoveOne, s, gone)

\* CascadeAgrees: removing any row by this recursion, which updates the index,
\* the lists and the references as it goes, leaves what RemoveRows says, and
\* so does sweeping any set of dead rows in a loop, whatever the nesting of
\* the rows and whichever ids they share.
CascadeAgrees ==
  \A gone \in SUBSET Held(reg) : Sweep(reg, gone) = RemoveRows(reg, gone)
=============================================================================
