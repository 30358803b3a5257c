------------------------- MODULE SessionRegistryProofs -------------------------
(***************************************************************************)
(* For every choice of the constants: the registry's state keeps its type, *)
(* its index stays sound, and it never holds more than MaxSessions rows.   *)
(* One lemma per handler, or part of one, says that it takes a good state  *)
(* to a good state; the steps of Next are uses of them.  The second part   *)
(* builds on the first: the registry's records agree with one another.     *)
(* The third is about the registry with the one process of ClearDelivery;  *)
(* only there are that module's constants and its assumption used.         *)
(***************************************************************************)
EXTENDS ClearDelivery, FiniteSetTheorems, TLAPS

\* A state of the actor that its handlers may meet and leave.
Good(s) == Typed(s) /\ Sound(s) /\ Cardinality(Held(s)) <= MaxSessions

EnvOK == starts \in [Pids -> 0..MaxStarts] /\ live \subseteq Pids

-----------------------------------------------------------------------------
(* The parts of a state *)

LEMMA NullNotRow == NoRow \notin Row /\ NoView \notin View
  BY NullAssumption

LEMMA NewRowType ==
  ASSUME NEW id \in SessionIds, NEW parent \in ProcIds \cup {NoId},
         NEW status \in Status, NEW start \in 0..MaxStarts
  PROVE  NewRow(id, parent, status, start) \in Row
  BY DEF NewRow, Row

LEMMA ViewType ==
  ASSUME NEW row \in Row
  PROVE  ViewOf(row) \in View
  BY DEF ViewOf, View, Row

\* The state s with another feed.
WithFeed(s, f) == [s EXCEPT !.feed = f]

\* Only the feed changes, and it keeps its type: the state stays good.
LEMMA FeedOnly ==
  ASSUME NEW s, Good(s), NEW f \in [SessionIds -> View \cup {NoView}]
  PROVE  Good(WithFeed(s, f))
<1> DEFINE t == WithFeed(s, f)
<1>1. t \in RegState /\ t.rows = s.rows /\ t.index = s.index
  BY DEF Good, Typed, RegState, WithFeed
<1>2. Held(t) = Held(s)
  BY <1>1 DEF Held
<1> QED
  BY <1>1, <1>2 DEF Good, Typed, Sound

LEMMA PublishGood ==
  ASSUME NEW s, Good(s), NEW p \in AllPids
  PROVE  Good(PublishUpdated(s, p))
<1>1. CASE s.rows[p] = NoRow
  BY <1>1 DEF PublishUpdated
<1>2. CASE s.rows[p] # NoRow
  <2>1. s.rows[p] \in Row /\ s.rows[p].id \in SessionIds
    BY <1>2 DEF Good, Typed, RegState, Row
  <2> DEFINE f == [s.feed EXCEPT ![s.rows[p].id] = ViewOf(s.rows[p])]
  <2>2. f \in [SessionIds -> View \cup {NoView}]
    BY <2>1, ViewType DEF Good, Typed, RegState
  <2>3. PublishUpdated(s, p) = WithFeed(s, f)
    BY <1>2 DEF PublishUpdated, WithFeed
  <2> QED
    BY <2>2, <2>3, FeedOnly
<1> QED
  BY <1>1, <1>2

LEMMA PublishRemovedGood ==
  ASSUME NEW s, Good(s), NEW id \in SessionIds
  PROVE  Good(PublishRemoved(s, id))
<1> DEFINE f == [s.feed EXCEPT ![id] = NoView]
<1>1. f \in [SessionIds -> View \cup {NoView}]
  BY DEF Good, Typed, RegState
<1>2. PublishRemoved(s, id) = WithFeed(s, f)
  BY DEF PublishRemoved, WithFeed
<1> QED
  BY <1>1, <1>2, FeedOnly

\* t has the rows of s under the same ids, and the index of s.
SameShape(s, t) ==
  /\ t \in RegState
  /\ t.index = s.index
  /\ \A p \in AllPids :
       /\ (t.rows[p] = NoRow) <=> (s.rows[p] = NoRow)
       /\ s.rows[p] # NoRow => /\ t.rows[p].id = s.rows[p].id
                               /\ t.rows[p].start = s.rows[p].start

LEMMA ShapeTyped ==
  ASSUME NEW s, NEW t, Typed(s), SameShape(s, t)
  PROVE  Typed(t)
  BY DEF Typed, SameShape, AllPids

LEMMA ShapeGood ==
  ASSUME NEW s, NEW t, Good(s), SameShape(s, t)
  PROVE  Good(t)
<1>1. Typed(t)
  BY ShapeTyped DEF Good
<1>2. Held(t) = Held(s)
  BY DEF SameShape, Held
<1>3. Sound(t)
  BY DEF Good, Typed, RegState, SameShape, Sound, AllPids
<1> QED
  BY <1>1, <1>2, <1>3 DEF Good

\* Renaming links touches parents, child lists, references and the feed only.
LEMMA RenameLinksShape ==
  ASSUME NEW s, Typed(s), NEW old \in ProcIds, NEW new \in ProcIds, NEW tie
  PROVE  SameShape(s, RenameLinks(s, old, new, tie))
<1> DEFINE Linked == {p \in Held(s) :
                        old = s.rows[p].parent \/ old \in s.rows[p].children}
           rows == [p \in AllPids |-> IF p \in Linked
                                       THEN Relink(s.rows[p], old, new)
                                       ELSE s.rows[p]]
           Shown(id) == {p \in Linked : rows[p].id = id}
           refs == RenameRefs(s.refs, old, new, tie)
           shown == [id \in SessionIds |->
                       IF Shown(id) = {} THEN s.feed[id]
                       ELSE ViewOf(rows[CHOOSE p \in Shown(id) : TRUE])]
           t == [s EXCEPT !.rows = rows, !.refs = refs, !.feed = shown]
<1>1. CASE \E p \in Held(s) : s.rows[p].id = old
  <2>1. RenameLinks(s, old, new, tie) = s
    BY <1>1 DEF RenameLinks
  <2> QED
    BY <2>1 DEF SameShape, Typed
<1>2. CASE ~\E p \in Held(s) : s.rows[p].id = old
  <2>1. RenameLinks(s, old, new, tie) = t
    BY <1>2 DEF RenameLinks
  <2>2. \A p \in Held(s) : s.rows[p] \in Row /\ p \in AllPids
    BY DEF Held, Typed, RegState
  <2>3. ASSUME NEW p \in Held(s)
        PROVE  /\ Relink(s.rows[p], old, new) \in Row
               /\ Relink(s.rows[p], old, new).id = s.rows[p].id
               /\ Relink(s.rows[p], old, new).start = s.rows[p].start
    <3> DEFINE row == s.rows[p]
               named == {Renamed(c, old, new) : c \in row.children}
    <3>1. row \in Row
      BY <2>2
    <3>2. named \in SUBSET ChildIds
      BY <3>1, IdAssumption DEF Renamed, Row
    <3>3. Renamed(row.parent, old, new) \in ProcIds \cup {NoId}
      BY <3>1 DEF Renamed, Row
    <3> HIDE DEF named
    <3>4. Relink(row, old, new) =
            [row EXCEPT !.parent = Renamed(row.parent, old, new),
                        !.children = named]
      BY DEF Relink, named
    <3> HIDE DEF row
    <3>5. /\ Relink(row, old, new) \in Row
          /\ Relink(row, old, new).id = row.id
          /\ Relink(row, old, new).start = row.start
      BY <3>1, <3>2, <3>3, <3>4 DEF Row
    <3> QED
      BY <3>5 DEF row
  <2>4. rows \in [AllPids -> Row \cup {NoRow}]
    BY <2>3, NullNotRow DEF Typed, RegState
  <2>5. \A p \in Linked : rows[p] \in Row
    BY <2>3, <2>2
  <2>6. refs \in [ProcIds \X Refs -> ChildIds \cup {NoId}]
    <3>1. \A c \in ChildIds \cup {NoId} : Renamed(c, old, new) = c
      BY IdAssumption DEF Renamed, SessionIds
    <3> QED
      BY <3>1 DEF RenameRefs, Typed, RegState
  <2>7. ASSUME NEW id \in SessionIds, Shown(id) # {}
        PROVE  ViewOf(rows[CHOOSE p \in Shown(id) : TRUE]) \in View
    <3> DEFINE q == CHOOSE p \in Shown(id) : TRUE
    <3>1. q \in Shown(id)
      BY <2>7
    <3>2. rows[q] \in Row
      BY <3>1, <2>5
    <3> QED
      BY <3>2, ViewType
  <2>8. shown \in [SessionIds -> View \cup {NoView}]
    BY <2>7 DEF Typed, RegState
  <2> HIDE DEF rows, refs, shown
  <2>9. t \in RegState /\ t.index = s.index /\ t.rows = rows
    BY <2>4, <2>6, <2>8 DEF Typed, RegState
  <2>10. \A p \in AllPids :
          /\ (rows[p] = NoRow) <=> (s.rows[p] = NoRow)
          /\ s.rows[p] # NoRow => /\ rows[p].id = s.rows[p].id
                                  /\ rows[p].start = s.rows[p].start
    BY <2>3, NullNotRow DEF rows, Held
  <2> QED
    BY <2>1, <2>9, <2>10 DEF SameShape
<1> QED
  BY <1>1, <1>2
LEMMA PublishShape ==
  ASSUME NEW s, Typed(s), NEW p \in AllPids
  PROVE  SameShape(s, PublishUpdated(s, p))
<1>1. CASE s.rows[p] = NoRow
  BY <1>1 DEF PublishUpdated, SameShape, Typed
<1>2. CASE s.rows[p] # NoRow
  <2>1. s.rows[p] \in Row /\ s.rows[p].id \in SessionIds
    BY <1>2 DEF Typed, RegState, Row
  <2>2. ViewOf(s.rows[p]) \in View
    BY <2>1, ViewType
  <2> QED
    BY <1>2, <2>1, <2>2 DEF PublishUpdated, SameShape, Typed, RegState
<1> QED
  BY <1>1, <1>2

\* u is s with the row of p under the id new, the index not yet updated.
Retitled(s, u, p, new) ==
  /\ Typed(u)
  /\ u.index = s.index
  /\ \A q \in AllPids : (u.rows[q] = NoRow) <=> (s.rows[q] = NoRow)
  /\ \A q \in AllPids \ {p} : s.rows[q] # NoRow => u.rows[q].id = s.rows[q].id
  /\ u.rows[p] # NoRow /\ u.rows[p].id = new

\* Moving the index entry of p's row to its new id restores soundness.
LEMMA ReindexGood ==
  ASSUME NEW s, NEW u, Good(s), NEW p \in Pids, NEW new \in ProcIds,
         Retitled(s, u, p, new)
  PROVE  Good([Unindex(u, s.rows[p].id, p) EXCEPT !.index[new] = p])
<1> DEFINE old == s.rows[p].id
           t == Unindex(u, old, p)
           w == [t EXCEPT !.index[new] = p]
<1>1. p \in AllPids /\ new \in SessionIds
  BY DEF AllPids, SessionIds
<1>2. t \in RegState /\ t.rows = u.rows
  BY DEF Unindex, Retitled, Typed, RegState
<1>3. \A id \in SessionIds :
        t.index[id] = IF id = old /\ s.index[id] = p THEN NoPid ELSE s.index[id]
  BY DEF Unindex, Retitled, Typed, RegState
<1> HIDE DEF t
<1>4. w \in RegState /\ w.rows = u.rows
  BY <1>1, <1>2 DEF RegState
<1>5. \A id \in SessionIds : w.index[id] = IF id = new THEN p ELSE t.index[id]
  BY <1>1, <1>2 DEF RegState
<1>6. Typed(w)
  BY <1>4 DEF Typed, Retitled
<1>7. Held(w) = Held(s)
  BY <1>4 DEF Held, Retitled
<1>8. ASSUME NEW id \in SessionIds, w.index[id] # NoPid
      PROVE  w.rows[w.index[id]] # NoRow /\ w.rows[w.index[id]].id = id
  <2>1. CASE id = new
    BY <2>1, <1>4, <1>5 DEF Retitled
  <2>2. CASE id # new
    <3>1. w.index[id] = s.index[id] /\ s.index[id] # NoPid
      BY <2>2, <1>5, <1>3, <1>8
    <3>2. s.index[id] \in AllPids
      BY <3>1 DEF Good, Typed, RegState
    <3>3. s.rows[s.index[id]] # NoRow /\ s.rows[s.index[id]].id = id
      BY <3>1 DEF Good, Sound
    <3>4. s.index[id] # p
      BY <3>1, <3>3, <1>3, <1>5, <2>2, <1>8, <1>1, PidAssumption
    <3> QED
      BY <3>1, <3>2, <3>3, <3>4, <1>4 DEF Retitled
  <2> QED
    BY <2>1, <2>2
<1> HIDE DEF w
<1> QED
  BY <1>6, <1>7, <1>8 DEF Good, Sound, t, w

LEMMA RetitleRow ==
  ASSUME NEW s, Good(s), NEW p \in Pids, s.rows[p] # NoRow, NEW new \in ProcIds
  PROVE  Retitled(s, [s EXCEPT !.rows[p].id = new], p, new)
<1> DEFINE u == [s EXCEPT !.rows[p].id = new]
<1>1. p \in AllPids /\ s.rows[p] \in Row /\ new \in SessionIds
  BY DEF AllPids, Good, Typed, RegState, SessionIds
<1>2. [s.rows[p] EXCEPT !.id = new] \in Row
  BY <1>1 DEF Row
<1>3. u \in RegState /\ u.index = s.index
  BY <1>1, <1>2 DEF Good, Typed, RegState
<1>4. /\ u.rows[p] = [s.rows[p] EXCEPT !.id = new]
      /\ \A q \in AllPids \ {p} : u.rows[q] = s.rows[q]
  BY <1>1 DEF Good, Typed, RegState
<1>5. u.rows[p] # NoRow /\ u.rows[p].id = new
  BY <1>1, <1>2, <1>4, NullNotRow DEF Row
<1> HIDE DEF u
<1> QED
  BY <1>3, <1>4, <1>5, PidAssumption DEF u, Good, Typed, Retitled, AllPids

LEMMA ReconcileGood ==
  ASSUME NEW s, Good(s), NEW p \in Pids, s.rows[p] # NoRow,
         NEW new \in ProcIds, NEW tie
  PROVE  /\ Good(ReconcileSessionId(s, p, new, tie))
         /\ ReconcileSessionId(s, p, new, tie).rows[p] # NoRow
<1> DEFINE old == s.rows[p].id
           u == [s EXCEPT !.rows[p].id = new]
           s1 == Unindex(u, old, p)
           s2 == [s1 EXCEPT !.index[new] = p]
           s3 == PublishRemoved(s2, old)
<1>1. p \in AllPids /\ s.rows[p] \in Row
  BY DEF AllPids, Good, Typed, RegState
<1>2. old \in ProcIds /\ old \in SessionIds /\ new \in SessionIds
  BY DEF Good, Typed, SessionIds
<1>3. Retitled(s, u, p, new)
  BY RetitleRow
<1>4. Good(s2)
  BY <1>3, ReindexGood
<1>5. Good(s3)
  BY <1>4, <1>2, PublishRemovedGood
<1>6. s3.rows = u.rows
  BY DEF PublishRemoved, Unindex
<1>7. ReconcileSessionId(s, p, new, tie) = RenameLinks(s3, old, new, tie)
  BY DEF ReconcileSessionId
<1> HIDE DEF s3
<1>8. SameShape(s3, RenameLinks(s3, old, new, tie))
  BY <1>5, <1>2, RenameLinksShape DEF Good
<1>9. Good(RenameLinks(s3, old, new, tie))
  BY <1>5, <1>8, ShapeGood
<1>10. RenameLinks(s3, old, new, tie).rows[p] # NoRow
  <2>1. s3.rows[p] # NoRow
    BY <1>3, <1>6 DEF Retitled
  <2> QED
    BY <1>1, <1>8, <2>1 DEF SameShape
<1> QED
  BY <1>7, <1>9, <1>10
LEMMA DiscoverExistingGood ==
  ASSUME NEW s, Good(s), NEW p \in Pids, s.rows[p] # NoRow, NEW tie
  PROVE  Good(HandleRegisterDiscovered(s, p, tie))
<1> DEFINE old == s.rows[p].id
           new == IF Pending(old) THEN pendingId[p] ELSE old
           u == [s EXCEPT !.rows[p].id = new]
           s1 == PublishUpdated(u, p)
           s2 == RenameLinks(s1, old, new, tie)
           t == [Unindex(s2, old, p) EXCEPT !.index[new] = p]
<1>1. p \in AllPids /\ s.rows[p] \in Row
  BY DEF AllPids, Good, Typed, RegState
<1>2. old \in ProcIds /\ new \in ProcIds /\ new \in SessionIds
  BY IdAssumption DEF Good, Typed, SessionIds, ProcIds, PendingIds
<1> HIDE DEF new
<1>3. Retitled(s, u, p, new)
  BY <1>1, <1>2, RetitleRow
<1> HIDE DEF u
<1>4. SameShape(u, s1)
  BY <1>1, <1>3, PublishShape DEF Retitled
<1>5. SameShape(s1, s2)
  BY <1>2, <1>3, <1>4, ShapeTyped, RenameLinksShape DEF Retitled
<1> HIDE DEF s1, s2
<1>6. Retitled(s, s2, p, new)
  <2>1. Typed(s2)
    BY <1>3, <1>4, <1>5, ShapeTyped DEF Retitled
  <2> QED
    BY <1>1, <1>3, <1>4, <1>5, <2>1 DEF Retitled, SameShape
<1>7. Good(t)
  BY <1>2, <1>6, ReindexGood
<1>8. HandleRegisterDiscovered(s, p, tie) = IF old = pendingId[p] THEN s ELSE t
  BY DEF HandleRegisterDiscovered, s2, s1, u, new
<1> QED
  BY <1>7, <1>8
-----------------------------------------------------------------------------
(* Creating and removing rows *)

LEMMA HeldFinite ==
  ASSUME NEW s
  PROVE  /\ IsFiniteSet(Held(s)) /\ Held(s) \subseteq AllPids
         /\ Cardinality(Held(s)) \in Nat
<1>1. IsFiniteSet(AllPids)
  BY PidAssumption, FS_Union DEF AllPids
<1>2. Held(s) \subseteq AllPids
  BY DEF Held
<1> QED
  BY <1>1, <1>2, FS_Subset, FS_CardinalityType

\* The row that may be stored under p.
RowFits(p, row) ==
  /\ row \in Row
  /\ p \in Pids => row.id \in ProcIds
  /\ p \in SyntheticPids => row.id \in ChildIds /\ row.start = Untracked

LEMMA InsertGood ==
  ASSUME NEW s, Good(s), ~Full(s), NEW p \in AllPids, s.rows[p] = NoRow,
         NEW row, RowFits(p, row)
  PROVE  /\ Good(InsertNewSession(s, p, row))
         /\ InsertNewSession(s, p, row).rows = [s.rows EXCEPT ![p] = row]
<1> DEFINE t == InsertNewSession(s, p, row)
<1>1. row \in Row /\ row # NoRow /\ row.id \in SessionIds
  BY NullNotRow DEF RowFits, Row
<1>2. t \in RegState /\ t.rows = [s.rows EXCEPT ![p] = row]
                     /\ t.index = [s.index EXCEPT ![row.id] = p]
  BY <1>1 DEF InsertNewSession, Good, Typed, RegState
<1> HIDE DEF t
<1>3. Typed(t)
  BY <1>2, <1>1 DEF RowFits, Good, Typed, RegState, AllPids
<1>4. Sound(t)
  <2>1. ASSUME NEW id \in SessionIds, t.index[id] # NoPid
        PROVE  t.rows[t.index[id]] # NoRow /\ t.rows[t.index[id]].id = id
    <3>1. CASE id = row.id
      BY <3>1, <1>1, <1>2 DEF Good, Typed, RegState
    <3>2. CASE id # row.id
      <4>1. t.index[id] = s.index[id] /\ s.index[id] \in AllPids
        BY <3>2, <1>2, <2>1 DEF Good, Typed, RegState
      <4>2. s.rows[s.index[id]] # NoRow /\ s.rows[s.index[id]].id = id
        BY <4>1, <2>1 DEF Good, Sound
      <4> QED
        BY <4>1, <4>2, <1>2 DEF Good, Typed, RegState
    <3> QED
      BY <3>1, <3>2
  <2> QED
    BY <2>1 DEF Sound
<1>5. Held(t) = Held(s) \cup {p}
  BY <1>1, <1>2 DEF Held, Good, Typed, RegState
<1>6. Cardinality(Held(t)) = Cardinality(Held(s)) + 1
  <2>1. p \notin Held(s)
    BY DEF Held
  <2> QED
    BY <1>5, <2>1, HeldFinite, FS_AddElement
<1>7. Cardinality(Held(t)) <= MaxSessions
  BY <1>6, HeldFinite, BoundAssumption DEF Full, Good
<1> QED
  BY <1>2, <1>3, <1>4, <1>7 DEF Good, t
\* Rows go, with the index entries that lead to them, and none comes.
LEMMA RemoveRowsGood ==
  ASSUME NEW s, Good(s), NEW roots
  PROVE  /\ Good(RemoveRows(s, roots))
         /\ \A p \in AllPids :
              s.rows[p] = NoRow => RemoveRows(s, roots).rows[p] = NoRow
<1> DEFINE gone == Doomed(s, roots)
           ids == {s.rows[p].id : p \in gone}
           Lost(p) == {s.rows[q].id :
                         q \in {r \in gone : ParentPid(s, s.rows[r]) = p}}
           rows == [p \in AllPids |->
                      IF p \in gone \/ s.rows[p] = NoRow THEN NoRow
                      ELSE [s.rows[p] EXCEPT !.children = @ \ Lost(p)]]
           Parents == {p \in Held(s) \ gone : Lost(p) # {}}
           index == [id \in SessionIds |->
                       IF /\ s.index[id] \in gone
                          /\ s.rows[s.index[id]].id = id
                       THEN NoPid ELSE s.index[id]]
           refs == [k \in ProcIds \X Refs |->
                      IF k[1] \in ids \/ s.refs[k] \in ids
                      THEN NoId ELSE s.refs[k]]
           shown == [id \in SessionIds |->
                       IF id \in ids THEN NoView
                       ELSE IF s.index[id] \in Parents
                            THEN ViewOf(rows[s.index[id]])
                       ELSE s.feed[id]]
           t == [s EXCEPT !.rows = rows, !.index = index, !.refs = refs,
                          !.feed = shown]
<1>1. RemoveRows(s, roots) = t
  BY DEF RemoveRows
<1>2. ASSUME NEW p \in AllPids, s.rows[p] # NoRow, p \notin gone
      PROVE  rows[p] \in Row /\ rows[p].id = s.rows[p].id
                             /\ rows[p].start = s.rows[p].start
  <2>1. s.rows[p] \in Row
    BY <1>2 DEF Good, Typed, RegState
  <2>2. rows[p] = [s.rows[p] EXCEPT !.children = @ \ Lost(p)]
    BY <1>2
  <2> HIDE DEF rows, Lost
  <2> QED
    BY <2>1, <2>2 DEF Row
<1>3. \A p \in AllPids : p \in gone \/ s.rows[p] = NoRow => rows[p] = NoRow
  OBVIOUS
<1> HIDE DEF gone
<1>4. rows \in [AllPids -> Row \cup {NoRow}]
  <2> rows = [p \in AllPids |-> rows[p]]
    OBVIOUS
  <2> HIDE DEF rows
  <2> QED
    BY <1>2, <1>3
<1>5. index \in [SessionIds -> AllPids \cup {NoPid}]
  BY DEF Good, Typed, RegState
<1>6. refs \in [ProcIds \X Refs -> ChildIds \cup {NoId}]
  BY DEF Good, Typed, RegState
<1>7. \A p \in Parents : rows[p] \in Row
  <2> SUFFICES ASSUME NEW p \in Parents PROVE rows[p] \in Row
    OBVIOUS
  <2>1. p \in AllPids /\ s.rows[p] # NoRow /\ p \notin gone
    BY DEF Held
  <2> QED
    BY <1>2, <2>1
<1> HIDE DEF rows, Parents, ids
<1>8. shown \in [SessionIds -> View \cup {NoView}]
  BY <1>7, ViewType DEF Good, Typed, RegState
<1>9. t \in RegState /\ t.rows = rows /\ t.index = index
  BY <1>4, <1>5, <1>6, <1>8 DEF Good, Typed, RegState
<1> HIDE DEF t
<1>10. Typed(t)
  BY <1>2, <1>3, <1>9 DEF Good, Typed, AllPids
<1>11. Sound(t)
  <2>1. ASSUME NEW id \in SessionIds, index[id] # NoPid
        PROVE  rows[index[id]] # NoRow /\ rows[index[id]].id = id
    <3>1. index[id] = s.index[id] /\ s.index[id] \in AllPids
      BY <2>1 DEF Good, Typed, RegState
    <3>2. s.rows[s.index[id]] # NoRow /\ s.rows[s.index[id]].id = id
      BY <2>1, <3>1 DEF Good, Sound
    <3>3. s.index[id] \notin gone
      BY <2>1, <3>1, <3>2
    <3> QED
      BY <1>2, <3>1, <3>2, <3>3, NullNotRow
  <2> QED
    BY <2>1, <1>9 DEF Sound
<1>12. Held(t) \subseteq Held(s)
  BY <1>3, <1>9 DEF Held
<1>13. Cardinality(Held(t)) <= MaxSessions
  <2>1. Cardinality(Held(t)) <= Cardinality(Held(s))
    BY <1>12, HeldFinite, FS_Subset
  <2> QED
    BY <2>1, HeldFinite, BoundAssumption DEF Good
<1> QED
  BY <1>1, <1>3, <1>9, <1>10, <1>11, <1>13 DEF Good

LEMMA HandleRemoveGood ==
  ASSUME NEW s, Good(s), NEW id \in SessionIds
  PROVE  Good(HandleRemove(s, id))
  BY RemoveRowsGood DEF HandleRemove

LEMMA EndSessionGood ==
  ASSUME NEW s, Good(s), NEW id \in ProcIds, NEW p \in Pids
  PROVE  Good(EndSessionIn(s, id, p))
<1> DEFINE t == [s EXCEPT !.ended = @ \cup {<<id, p>>}]
<1>1. SameShape(s, t)
  BY DEF Good, Typed, RegState, SameShape
<1>2. Good(t)
  BY <1>1, ShapeGood
<1> QED
  BY <1>2, RemoveRowsGood DEF EndSessionIn

LEMMA CleanupGood ==
  ASSUME NEW s, Good(s)
  PROVE  Good(HandleCleanupStale(s))
  BY RemoveRowsGood DEF HandleCleanupStale
-----------------------------------------------------------------------------
(* In-process children *)

WithRow(s, p, row) == [s EXCEPT !.rows[p] = row]

\* Another row in the place of p's, with its id and its start.
LEMMA ReplaceRowGood ==
  ASSUME NEW s, Good(s), NEW p \in AllPids, s.rows[p] # NoRow,
         NEW row \in Row, row.id = s.rows[p].id, row.start = s.rows[p].start
  PROVE  SameShape(s, WithRow(s, p, row)) /\ Good(WithRow(s, p, row))
<1> DEFINE t == WithRow(s, p, row)
<1>1. t \in RegState /\ t.index = s.index /\ t.rows = [s.rows EXCEPT ![p] = row]
  BY DEF WithRow, Good, Typed, RegState
<1> HIDE DEF t
<1>2. SameShape(s, t)
  BY <1>1, NullNotRow DEF SameShape, Good, Typed, RegState
<1>3. Good(t)
  BY <1>2, ShapeGood
<1> QED
  BY <1>2, <1>3 DEF t

LEMMA ChildIdType ==
  ASSUME NEW s, Good(s), NEW parent \in ProcIds, NEW ref \in Refs
  PROVE  ChildIdFor(s, parent, ref) \in ChildIds
<1>1. s.refs[<<parent, ref>>] \in ChildIds \cup {NoId}
  BY DEF Good, Typed, RegState
<1>2. ref \in AgentIds => ref \in ChildIds
  BY DEF ChildIds
<1>3. ref \in Names => scopedId[<<ref, parent>>] \in ChildIds
  BY IdAssumption DEF ChildIds
<1> QED
  BY <1>1, <1>2, <1>3 DEF ChildIdFor, Refs

\* A registry that is not full has a synthetic pid left.
LEMMA SyntheticPidLeft ==
  ASSUME NEW s, ~Full(s)
  PROVE  \E q \in SyntheticPids : q \notin Held(s)
<1> SUFFICES ASSUME SyntheticPids \subseteq Held(s) PROVE FALSE
  OBVIOUS
<1>1. Cardinality(SyntheticPids) <= Cardinality(Held(s))
  BY HeldFinite, FS_Subset
<1>2. Cardinality(SyntheticPids) \in Nat
  BY PidAssumption, FS_CardinalityType
<1> QED
  BY <1>1, <1>2, HeldFinite, BoundAssumption DEF Full

LEMMA EnsureChildGood ==
  ASSUME NEW s, Good(s), NEW p \in Pids, NEW id \in ChildIds
  PROVE  /\ Good(EnsureChildSession(s, p, id))
         /\ \A q \in AllPids :
              s.rows[q] # NoRow => EnsureChildSession(s, p, id).rows[q] # NoRow
<1> DEFINE child == CHOOSE q \in SyntheticPids : q \notin Held(s)
           row == NewRow(id, s.rows[p].id, "Working", Untracked)
           s1 == InsertNewSession(s, child, row)
           s2 == [s1 EXCEPT !.rows[p].children = @ \cup {id}]
           s3 == PublishUpdated(s2, child)
           s4 == PublishUpdated(s3, p)
<1>1. CASE s.index[id] # NoPid \/ s.rows[p] = NoRow \/ Full(s)
  BY <1>1 DEF EnsureChildSession
<1>2. CASE ~(s.index[id] # NoPid \/ s.rows[p] = NoRow \/ Full(s))
  <2>1. EnsureChildSession(s, p, id) = s4
    BY <1>2 DEF EnsureChildSession
  <2>2. child \in SyntheticPids /\ child \notin Held(s)
    BY <1>2, SyntheticPidLeft
  <2> HIDE DEF child
  <2>3. p \in AllPids /\ child \in AllPids /\ child # p
    BY <2>2, PidAssumption DEF AllPids
  <2>4. s.rows[child] = NoRow
    BY <2>2, <2>3 DEF Held
  <2>5. s.rows[p] \in Row /\ s.rows[p].id \in ProcIds
    BY <1>2, <2>3 DEF Good, Typed, RegState
  <2>6. row \in Row
    BY <2>5, NewRowType, BoundAssumption DEF SessionIds, Status, Untracked
  <2>7. row.id = id /\ row.start = Untracked
    BY DEF NewRow
  <2> HIDE DEF row
  <2>8. RowFits(child, row)
    BY <2>2, <2>6, <2>7, PidAssumption DEF RowFits
  <2>9. Good(s1) /\ s1.rows = [s.rows EXCEPT ![child] = row]
    BY <1>2, <2>3, <2>4, <2>8, InsertGood
  <2> HIDE DEF s1
  <2>10. s1.rows[p] = s.rows[p]
    BY <2>3, <2>9 DEF Good, Typed, RegState
  <2> DEFINE longer == [s.rows[p] EXCEPT !.children = @ \cup {id}]
  <2>11. longer \in Row /\ longer.id = s.rows[p].id
                        /\ longer.start = s.rows[p].start
    BY <2>5 DEF Row
  <2>12. s2 = WithRow(s1, p, longer)
    BY <2>10 DEF WithRow
  <2> HIDE DEF longer, s2
  <2>13. Good(s2) /\ SameShape(s1, s2)
    <3>1. s1.rows[p] # NoRow /\ longer.id = s1.rows[p].id
                            /\ longer.start = s1.rows[p].start
      BY <1>2, <2>10, <2>11
    <3>2. SameShape(s1, WithRow(s1, p, longer)) /\ Good(WithRow(s1, p, longer))
      BY <2>3, <2>9, <2>11, <3>1, ReplaceRowGood
    <3> QED
      BY <2>12, <3>2
  <2>14. Good(s3) /\ SameShape(s2, s3)
    BY <2>3, <2>13, PublishGood, PublishShape DEF Good
  <2> HIDE DEF s3
  <2>15. Good(s4) /\ SameShape(s3, s4)
    BY <2>3, <2>14, PublishGood, PublishShape DEF Good
  <2> HIDE DEF s4
  <2>16. ASSUME NEW q \in AllPids, s.rows[q] # NoRow
         PROVE  s4.rows[q] # NoRow
    <3>1. s1.rows[q] # NoRow
      BY <2>4, <2>9, <2>16 DEF Good, Typed, RegState
    <3> QED
      BY <3>1, <2>13, <2>14, <2>15 DEF SameShape
  <2> QED
    BY <2>1, <2>15, <2>16
<1> QED
  BY <1>1, <1>2

LEMMA RegisterAliasGood ==
  ASSUME NEW s, Good(s), NEW parent \in ProcIds, NEW name \in Names,
         NEW ref \in AgentIds
  PROVE  Good(RegisterChildAlias(s, parent, name, ref))
<1> DEFINE target == ChildIdFor(s, parent, ref)
           placeholder == ChildIdFor(s, parent, name)
           s1 == IF placeholder # target /\ SyntheticChild(s, placeholder)
                 THEN HandleRemove(s, placeholder) ELSE s
           s2 == [s1 EXCEPT !.refs[<<parent, name>>] = target,
                            !.refs[<<parent, ref>>] = target]
<1>1. target \in ChildIds /\ placeholder \in SessionIds
  BY ChildIdType DEF Refs, SessionIds
<1> HIDE DEF target, placeholder
<1>2. Good(s1)
  BY <1>1, HandleRemoveGood
<1>3. RegisterChildAlias(s, parent, name, ref) = s2
  BY DEF RegisterChildAlias, target, placeholder
<1> HIDE DEF s1
<1>4. SameShape(s1, s2)
  BY <1>1, <1>2 DEF Good, Typed, RegState, SameShape
<1> QED
  BY <1>2, <1>3, <1>4, ShapeGood
LEMMA ApplyGood ==
  ASSUME NEW s, Good(s), NEW p \in AllPids, NEW effect \in Status \cup {"Same"}
  PROVE  Good(ApplyToSession(s, p, effect))
<1>1. CASE s.rows[p] = NoRow
  BY <1>1 DEF ApplyToSession
<1>2. CASE s.rows[p] # NoRow
  <2> DEFINE row == [s.rows[p] EXCEPT !.status = StatusAfter(@, effect)]
  <2>1. s.rows[p] \in Row
    BY <1>2 DEF Good, Typed, RegState
  <2>2. row \in Row /\ row.id = s.rows[p].id /\ row.start = s.rows[p].start
    BY <2>1 DEF Row, StatusAfter, Status
  <2>3. ApplyToSession(s, p, effect) = PublishUpdated(WithRow(s, p, row), p)
    BY <1>2 DEF ApplyToSession, WithRow
  <2> HIDE DEF row
  <2>4. Good(WithRow(s, p, row))
    BY <1>2, <2>2, ReplaceRowGood
  <2> QED
    BY <2>3, <2>4, PublishGood
<1> QED
  BY <1>1, <1>2

LEMMA BackgroundGood ==
  ASSUME NEW s, Good(s), NEW p, NEW background
  PROVE  Good(ApplyBackgroundActivity(s, p, background))
  BY RemoveRowsGood DEF ApplyBackgroundActivity

-----------------------------------------------------------------------------
(* Commands *)

\* What an event may carry.
EventOK(e) ==
  /\ e.effect \in Status \cup {"Same"}
  /\ e.kind \in {"ChildSessionStart", "ChildSessionEnd"} => e.agent \in Refs
  /\ e.child # NoId => e.child \in Refs
  /\ e.alias # <<>> => e.alias[1] \in Names /\ e.alias[2] \in AgentIds

LEMMA TrackGood ==
  ASSUME NEW s, Good(s), NEW p \in Pids, NEW parent \in ProcIds,
         NEW e, EventOK(e)
  PROVE  Good(TrackChildren(s, p, parent, e))
<1> DEFINE s1 == IF e.alias = <<>> THEN s
                 ELSE RegisterChildAlias(s, parent, e.alias[1], e.alias[2])
           child == ChildIdFor(s1, parent, e.agent)
<1>1. Good(s1)
  BY RegisterAliasGood DEF EventOK
<1>2. TrackChildren(s, p, parent, e) =
        IF e.kind = "ChildSessionStart" THEN EnsureChildSession(s1, p, child)
        ELSE IF e.kind = "ChildSessionEnd" THEN HandleRemove(s1, child)
        ELSE s1
  BY DEF TrackChildren
<1> HIDE DEF s1
<1>3. e.kind \in {"ChildSessionStart", "ChildSessionEnd"} =>
        child \in ChildIds /\ child \in SessionIds
  BY <1>1, ChildIdType DEF EventOK, SessionIds
<1> HIDE DEF child
<1> QED
  BY <1>1, <1>2, <1>3, EnsureChildGood, HandleRemoveGood

LEMMA RouteGood ==
  ASSUME NEW s, Good(s), NEW p \in Pids, NEW parent \in ProcIds,
         NEW e, EventOK(e), e.child # NoId
  PROVE  Good(RouteToChild(s, p, parent, e))
<1> DEFINE id == ChildIdFor(s, parent, e.child)
           s1 == EnsureChildSession(s, p, id)
<1>1. id \in ChildIds /\ id \in SessionIds
  BY ChildIdType DEF EventOK, SessionIds
<1> HIDE DEF id
<1>2. Good(s1)
  BY <1>1, EnsureChildGood
<1> HIDE DEF s1
<1>3. s1.index[id] # NoPid => s1.index[id] \in AllPids
  BY <1>1, <1>2 DEF Good, Typed, RegState
<1> QED
  BY <1>2, <1>3, ApplyGood DEF RouteToChild, s1, id, EventOK

LEMMA ApplyEventGood ==
  ASSUME NEW s, Good(s), NEW p \in Pids, s.rows[p] # NoRow, NEW e, EventOK(e)
  PROVE  Good(ApplyEvent(s, p, e))
<1> DEFINE parent == s.rows[p].id
           s1 == TrackChildren(s, p, parent, e)
<1>1. parent \in ProcIds /\ p \in AllPids
  BY DEF Good, Typed, AllPids
<1> HIDE DEF parent
<1>2. Good(s1)
  BY <1>1, TrackGood
<1> HIDE DEF s1
<1>3. CASE e.child # NoId
  BY <1>1, <1>2, <1>3, RouteGood DEF ApplyEvent, s1, parent
<1>4. CASE e.child = NoId
  <2>1. Good(ApplyToSession(s1, p, e.effect))
    BY <1>1, <1>2, ApplyGood DEF EventOK
  <2> QED
    BY <1>4, <2>1, BackgroundGood DEF ApplyEvent, s1, parent
<1> QED
  BY <1>3, <1>4

\* The pid an event is for is a real one, if it is for any.
LEMMA TargetReal ==
  ASSUME NEW s, Good(s), NEW id \in ProcIds, NEW pid \in Pids \cup {NoPid}
  PROVE  Target(s, id, pid) \in Pids \cup {NoPid}
<1>1. CASE pid # NoPid
  BY <1>1 DEF Target
<1>2. CASE pid = NoPid
  <2>1. id \in SessionIds /\ id \notin ChildIds
    BY IdAssumption DEF SessionIds
  <2>2. s.index[id] \in AllPids \cup {NoPid}
    BY <2>1 DEF Good, Typed, RegState
  <2>3. s.index[id] \notin SyntheticPids
    BY <2>1, PidAssumption DEF Good, Typed, Sound, AllPids
  <2> QED
    BY <1>2, <2>2, <2>3 DEF Target, AllPids
<1> QED
  BY <1>1, <1>2
LEMMA FreshRowFits ==
  ASSUME EnvOK, NEW p \in Pids, NEW id \in ProcIds,
         NEW parent \in RealIds \cup {NoId}
  PROVE  RowFits(p, NewRow(id, parent, "Idle", StartTime(p)))
<1>1. StartTime(p) \in 0..MaxStarts
  BY BoundAssumption DEF EnvOK, StartTime, Untracked
<1>2. id \in SessionIds /\ parent \in ProcIds \cup {NoId} /\ "Idle" \in Status
  BY DEF SessionIds, ProcIds, Status
<1>3. NewRow(id, parent, "Idle", StartTime(p)) \in Row
  BY <1>1, <1>2, NewRowType
<1> QED
  BY <1>3, PidAssumption DEF RowFits, NewRow

LEMMA SessionEndGood ==
  ASSUME NEW s, Good(s), NEW id \in ProcIds, NEW p \in Pids \cup {NoPid}
  PROVE  Good(HandleSessionEnd(s, id, p))
<1>1. p \in Held(s) => p \in Pids
  BY PidAssumption DEF Held
<1> QED
  BY <1>1, EndSessionGood DEF HandleSessionEnd

LEMMA AdoptGood ==
  ASSUME NEW s, Good(s), NEW id \in ProcIds, NEW p \in Pids \cup {NoPid},
         NEW e, NEW tie
  PROVE  Good(AdoptSessionId(s, id, p, e, tie))
<1>1. CASE p \notin Held(s) \/ Pending(id) \/ s.rows[p].id = id
  BY <1>1 DEF AdoptSessionId
<1>2. CASE p \in Held(s) /\ ~Pending(id) /\ s.rows[p].id # id
  <2>1. p \in Pids /\ s.rows[p] # NoRow /\ s.rows[p].id \in ProcIds
    BY <1>2, PidAssumption DEF Held, Good, Typed
  <2>2. Good(ReconcileSessionId(s, p, id, tie))
    BY <2>1, ReconcileGood
  <2>3. Good(EndSessionIn(s, s.rows[p].id, p))
    BY <2>1, EndSessionGood
  <2> QED
    BY <2>2, <2>3 DEF AdoptSessionId
<1> QED
  BY <1>1, <1>2

LEMMA LifecycleGood ==
  ASSUME NEW s, Good(s), EnvOK, NEW id \in ProcIds,
         NEW pid \in Pids \cup {NoPid}, NEW e, EventOK(e), NEW tie
  PROVE  Good(HandleApplyLifecycleEvent(s, id, pid, e, tie))
<1> DEFINE p == Target(s, id, pid)
           s1 == IF Untagged(e, "SessionStart")
                 THEN [s EXCEPT !.ended = @ \ {<<id, p>>}] ELSE s
           s2 == AdoptSessionId(s1, id, p, e, tie)
           row == NewRow(id, ParentOnCmdline(pid), "Idle", StartTime(pid))
           s3 == InsertNewSession(s2, pid, row)
<1>1. p \in Pids \cup {NoPid}
  BY TargetReal
<1>2. pid # NoPid => p = pid
  BY DEF Target
<1>3. HandleApplyLifecycleEvent(s, id, pid, e, tie) =
        IF Untagged(e, "SessionEnd") THEN HandleSessionEnd(s, id, p)
        ELSE IF p \in Held(s2) THEN ApplyEvent(s2, p, e)
        ELSE IF pid = NoPid \/ Full(s2) THEN s2
        ELSE ApplyEvent(s3, pid, e)
  BY DEF HandleApplyLifecycleEvent
<1> HIDE DEF p
<1>4. Good(s1)
  <2> DEFINE t == [s EXCEPT !.ended = @ \ {<<id, p>>}]
  <2>1. SameShape(s, t)
    BY DEF Good, Typed, RegState, SameShape
  <2>2. Good(t)
    BY <2>1, ShapeGood
  <2> HIDE DEF t
  <2> QED
    BY <2>2 DEF t
<1> HIDE DEF s1
<1>5. Good(s2)
  BY <1>1, <1>4, AdoptGood
<1> HIDE DEF s2
<1>6. Good(HandleSessionEnd(s, id, p))
  BY <1>1, SessionEndGood
<1>7. ASSUME p \in Held(s2)
      PROVE  Good(ApplyEvent(s2, p, e))
  <2>1. p \in Pids /\ s2.rows[p] # NoRow
    BY <1>1, <1>7, PidAssumption DEF Held
  <2> QED
    BY <1>5, <2>1, ApplyEventGood
<1>8. ASSUME p \notin Held(s2), pid # NoPid, ~Full(s2)
      PROVE  Good(ApplyEvent(s3, pid, e))
  <2>1. pid \in Pids /\ pid \in AllPids /\ s2.rows[pid] = NoRow
    BY <1>2, <1>8 DEF Held, AllPids
  <2>2. ParentOnCmdline(pid) \in RealIds \cup {NoId}
    BY <2>1, BoundAssumption DEF ParentOnCmdline
  <2>3. RowFits(pid, row)
    BY <2>1, <2>2, FreshRowFits
  <2>4. row # NoRow
    BY <2>3, NullNotRow DEF RowFits
  <2> HIDE DEF row
  <2>5. Good(s3) /\ s3.rows = [s2.rows EXCEPT ![pid] = row]
    BY <1>5, <1>8, <2>1, <2>3, InsertGood
  <2> HIDE DEF s3
  <2>6. s3.rows[pid] # NoRow
    BY <1>5, <2>1, <2>4, <2>5 DEF Good, Typed, RegState
  <2> QED
    BY <2>1, <2>5, <2>6, ApplyEventGood
<1> QED
  BY <1>3, <1>5, <1>6, <1>7, <1>8

LEMMA StatusLineGood ==
  ASSUME NEW s, Good(s), EnvOK, NEW id \in RealIds,
         NEW pid \in Pids \cup {NoPid}, NEW tie
  PROVE  Good(HandleUpdateFromStatusLine(s, id, pid, tie))
<1>1. id \in ProcIds /\ id \in SessionIds
  BY DEF ProcIds, SessionIds
<1>2. CASE pid # NoPid
  <2> DEFINE s1 == IF pid \in Held(s) /\ s.rows[pid].id # id
                   THEN ReconcileSessionId(s, pid, id, tie) ELSE s
             row == NewRow(id, NoId, "Idle", StartTime(pid))
             s2 == InsertNewSession(s, pid, row)
  <2>1. pid \in Pids /\ pid \in AllPids
    BY <1>2 DEF AllPids
  <2>2. Good(s1)
    BY <1>1, <2>1, ReconcileGood DEF Held
  <2> HIDE DEF s1
  <2>3. Good(PublishUpdated(s1, pid))
    BY <2>1, <2>2, PublishGood
  <2>4. RowFits(pid, row)
    BY <1>1, <2>1, FreshRowFits
  <2> HIDE DEF row
  <2>5. ASSUME pid \notin Held(s), ~Full(s)
        PROVE  Good(PublishUpdated(s2, pid))
    <3>1. s.rows[pid] = NoRow
      BY <2>1, <2>5 DEF Held
    <3>2. Good(s2)
      BY <2>1, <2>4, <2>5, <3>1, InsertGood
    <3> QED
      BY <2>1, <3>2, PublishGood
  <2> QED
    BY <1>2, <2>3, <2>5
       DEF HandleUpdateFromStatusLine, UpdateOrCreateByPid, s1, row
<1>3. CASE pid = NoPid
  <2>1. s.index[id] \in Held(s) => s.index[id] \in AllPids
    BY DEF Held
  <2> QED
    BY <1>3, <2>1, PublishGood DEF HandleUpdateFromStatusLine
<1> QED
  BY <1>2, <1>3

LEMMA DiscoverGood ==
  ASSUME NEW s, Good(s), EnvOK, NEW p \in Pids, NEW tie
  PROVE  Good(HandleRegisterDiscovered(s, p, tie))
<1> DEFINE row == NewRow(pendingId[p], ParentOnCmdline(p), "Idle", StartTime(p))
           s1 == InsertNewSession(s, p, row)
<1>1. p \in AllPids /\ pendingId[p] \in ProcIds
  BY IdAssumption DEF AllPids, ProcIds
<1>2. CASE s.rows[p] # NoRow
  BY <1>2, DiscoverExistingGood
<1>3. CASE s.rows[p] = NoRow /\ Full(s)
  BY <1>3 DEF HandleRegisterDiscovered
<1>4. CASE s.rows[p] = NoRow /\ ~Full(s)
  <2>1. ParentOnCmdline(p) \in RealIds \cup {NoId}
    BY BoundAssumption DEF ParentOnCmdline
  <2>2. RowFits(p, row)
    BY <1>1, <2>1, FreshRowFits
  <2> HIDE DEF row
  <2>3. Good(s1)
    BY <1>1, <1>4, <2>2, InsertGood
  <2>4. Good(PublishUpdated(s1, p))
    BY <1>1, <2>3, PublishGood
  <2> QED
    BY <1>4, <2>4 DEF HandleRegisterDiscovered, row
<1> QED
  BY <1>2, <1>3, <1>4
-----------------------------------------------------------------------------
(* The invariant *)

\* The inductive invariant: the registry is in a good state.
Inv == Good(reg) /\ EnvOK

\* Becoming a good state keeps the invariant.
LEMMA BecomeInv ==
  ASSUME NEW s, Good(s), EnvOK, Become(s)
  PROVE  Inv'
<1>1. /\ sessions_by_pid' = s.rows /\ session_id_to_pid' = s.index
      /\ child_refs' = s.refs /\ ended_sessions' = s.ended /\ feed' = s.feed
      /\ starts' = starts /\ live' = live
  BY DEF Become
<1>2. reg' = s
  BY <1>1 DEF reg, Good, Typed, RegState
<1>3. Typed(reg)' /\ Sound(reg)' /\ (Cardinality(Held(reg)) <= MaxSessions)'
  BY <1>2 DEF Good, Typed, Sound, Held
<1>4. EnvOK'
  BY <1>1 DEF EnvOK
<1> QED
  BY <1>3, <1>4 DEF Inv, Good

LEMMA InitInv == Init => Inv
<1> SUFFICES ASSUME Init PROVE Inv
  OBVIOUS
<1>1. Typed(reg)
  BY DEF Init, Typed, reg, RegState, AllPids
<1>2. Sound(reg)
  BY DEF Init, Sound, reg
<1>3. Held(reg) = {}
  BY DEF Init, Held, reg
<1>4. EnvOK
  BY BoundAssumption DEF Init, EnvOK
<1> QED
  BY <1>1, <1>2, <1>3, <1>4, FS_EmptySet, BoundAssumption DEF Inv, Good
\* Whatever a command carries, it names an agent's id and a real pid, if any.
LEMMA OriginType ==
  ASSUME NEW origin \in Origins \cup PendingOrigins
  PROVE  origin[1] \in ProcIds /\ origin[2] \in Pids \cup {NoPid}
<1>1. CASE origin \in Origins
  BY <1>1 DEF Origins, ProcIds
<1>2. CASE origin \in PendingOrigins
  BY <1>2, IdAssumption, BoundAssumption DEF PendingOrigins, ProcIds
<1> QED
  BY <1>1, <1>2

LEMMA LifecycleInv ==
  ASSUME Inv, NEW origin \in Origins \cup PendingOrigins,
         NEW e, EventOK(e), Lifecycle(origin, e)
  PROVE  Inv'
<1>1. PICK tie \in SUBSET Names :
        Become(HandleApplyLifecycleEvent(reg, origin[1], origin[2], e, tie))
  BY DEF Lifecycle
<1>2. Good(HandleApplyLifecycleEvent(reg, origin[1], origin[2], e, tie))
  BY OriginType, LifecycleGood DEF Inv
<1> QED
  BY <1>1, <1>2, BecomeInv DEF Inv

LEMMA ReportInv ==
  ASSUME Inv, NEW origin \in Origins \cup PendingOrigins, Report(origin)
  PROVE  Inv'
<1>1. CASE SessionStart(origin)
  <2>1. EventOK(Event("SessionStart", "Idle"))
    BY DEF EventOK, Event, Status
  <2> QED
    BY <1>1, <2>1, LifecycleInv DEF SessionStart
<1>2. CASE SessionEnd(origin)
  <2>1. EventOK(Event("SessionEnd", "Idle"))
    BY DEF EventOK, Event, Status
  <2> QED
    BY <1>2, <2>1, LifecycleInv DEF SessionEnd
<1>3. ASSUME NEW effect \in Effects, OrdinaryEvent(origin, effect)
      PROVE  Inv'
  <2>1. EventOK(Event("Other", effect))
    BY BoundAssumption DEF EventOK, Event
  <2> QED
    BY <1>3, <2>1, LifecycleInv DEF OrdinaryEvent
<1> QED
  BY <1>1, <1>2, <1>3 DEF Report

LEMMA ClaudeReportInv ==
  ASSUME Inv, NEW origin \in Origins, ClaudeReport(origin)
  PROVE  Inv'
<1>1. CASE Report(origin)
  BY <1>1, ReportInv
<1>2. CASE StatusLine(origin)
  <2>1. PICK tie \in SUBSET Names :
          Become(HandleUpdateFromStatusLine(reg, origin[1], origin[2], tie))
    BY <1>2 DEF StatusLine
  <2>2. origin[1] \in RealIds /\ origin[2] \in Pids \cup {NoPid}
    BY DEF Origins
  <2>3. Good(HandleUpdateFromStatusLine(reg, origin[1], origin[2], tie))
    BY <2>2, StatusLineGood DEF Inv
  <2> QED
    BY <2>1, <2>3, BecomeInv DEF Inv
<1>3. ASSUME NEW background, Stop(origin, background)
      PROVE  Inv'
  <2> DEFINE e == [Event("Other", "Idle") EXCEPT !.background = background]
  <2>1. EventOK(e)
    BY DEF EventOK, Event, Status
  <2> QED
    BY <1>3, <2>1, LifecycleInv DEF Stop
<1>4. ASSUME NEW ref \in AgentIds, ChildSessionStart(origin, ref)
      PROVE  Inv'
  <2> DEFINE e == [Event("ChildSessionStart", "Same") EXCEPT !.agent = ref]
  <2>1. EventOK(e)
    BY DEF EventOK, Event, Refs
  <2> QED
    BY <1>4, <2>1, LifecycleInv DEF ChildSessionStart
<1>5. ASSUME NEW ref \in AgentIds, ChildSessionEnd(origin, ref)
      PROVE  Inv'
  <2> DEFINE e == [Event("ChildSessionEnd", "Same") EXCEPT !.agent = ref]
  <2>1. EventOK(e)
    BY DEF EventOK, Event, Refs
  <2> QED
    BY <1>5, <2>1, LifecycleInv DEF ChildSessionEnd
<1>6. ASSUME NEW ref \in Refs, NEW effect \in Effects,
             ChildEvent(origin, ref, effect)
      PROVE  Inv'
  <2> DEFINE e == [Event("Other", effect) EXCEPT !.child = ref]
  <2>1. EventOK(e)
    BY BoundAssumption DEF EventOK, Event
  <2> QED
    BY <1>6, <2>1, LifecycleInv DEF ChildEvent
<1>7. ASSUME NEW name \in Names, NEW ref \in AgentIds,
             ChildSpawned(origin, name, ref)
      PROVE  Inv'
  <2> DEFINE e == [Event("Other", "Working") EXCEPT !.alias = <<name, ref>>]
  <2>1. EventOK(e)
    BY DEF EventOK, Event, Status
  <2> QED
    BY <1>7, <2>1, LifecycleInv DEF ChildSpawned
<1> QED
  BY <1>1, <1>2, <1>3, <1>4, <1>5, <1>6, <1>7 DEF ClaudeReport

LEMMA NextInv == Inv /\ [Next]_vars => Inv'
<1> SUFFICES ASSUME Inv, [Next]_vars PROVE Inv'
  OBVIOUS
<1>1. ASSUME NEW origin \in Origins, ClaudeReport(origin)
      PROVE  Inv'
  BY <1>1, ClaudeReportInv
<1>2. ASSUME NEW origin \in PendingOrigins, Report(origin)
      PROVE  Inv'
  BY <1>2, ReportInv
<1>3. ASSUME NEW p \in Pids, RegisterDiscovered(p)
      PROVE  Inv'
  <2>1. PICK tie \in SUBSET Names : Become(HandleRegisterDiscovered(reg, p, tie))
    BY <1>3 DEF RegisterDiscovered
  <2>2. Good(HandleRegisterDiscovered(reg, p, tie))
    BY DiscoverGood DEF Inv
  <2> QED
    BY <2>1, <2>2, BecomeInv DEF Inv
<1>4. CASE CleanupStale
  <2>1. Good(HandleCleanupStale(reg))
    BY CleanupGood DEF Inv
  <2> QED
    BY <1>4, <2>1, BecomeInv DEF CleanupStale, Inv
<1>5. ASSUME NEW mark \in ProcIds \X Pids, MarkerExpires(mark)
      PROVE  Inv'
  <2> DEFINE t == [reg EXCEPT !.ended = @ \ {mark}]
  <2>1. SameShape(reg, t)
    BY DEF Inv, Good, Typed, RegState, SameShape
  <2>2. Good(t)
    BY <2>1, ShapeGood DEF Inv
  <2> QED
    BY <1>5, <2>2, BecomeInv DEF MarkerExpires, Inv
<1>6. ASSUME NEW p \in Pids, ProcessExits(p)
      PROVE  Inv'
  BY <1>6 DEF ProcessExits, Inv, Good, Typed, Sound, Held, reg, EnvOK
<1>7. ASSUME NEW p \in Pids, ProcessStarts(p)
      PROVE  Inv'
  <2>1. EnvOK'
    BY <1>7, BoundAssumption DEF ProcessStarts, Inv, EnvOK
  <2> QED
    BY <1>7, <2>1 DEF ProcessStarts, Inv, Good, Typed, Sound, Held, reg
<1>8. CASE UNCHANGED vars
  BY <1>8 DEF vars, Inv, Good, Typed, Sound, Held, reg, EnvOK
<1> QED
  BY <1>1, <1>2, <1>3, <1>4, <1>5, <1>6, <1>7, <1>8 DEF Next

\* Invariance: every reachable state of the registry is good.
THEOREM Invariance == Spec => []Inv
<1>1. Init => Inv
  BY InitInv
<1>2. Inv /\ [Next]_vars => Inv'
  BY NextInv
<1> QED
  BY <1>1, <1>2, PTL DEF Spec

\* TypeCorrect: the actor's maps always have the types that the Rust types
\* and the pid ranges give them (SessionRegistry!TypeOK).
THEOREM TypeCorrect == Spec => []TypeOK
<1>1. Inv => TypeOK
  BY DEF Inv, Good, EnvOK, TypeOK
<1> QED
  BY <1>1, Invariance, PTL

\* IndexAlwaysSound: however many processes, ids, children and renames, an
\* index entry of session_id_to_pid leads to the row that has that id.
THEOREM IndexAlwaysSound == Spec => []IndexSound
<1>1. Inv => IndexSound
  BY DEF Inv, Good, IndexSound
<1> QED
  BY <1>1, Invariance, PTL

\* CapacityAlwaysRespected: for any limit, no handler takes the registry past
\* it, though four different paths create rows and some two in one command.
THEOREM CapacityAlwaysRespected == Spec => []CapacityRespected
<1>1. Inv => CapacityRespected
  BY DEF Inv, Good, CapacityRespected
<1> QED
  BY <1>1, Invariance, PTL

-----------------------------------------------------------------------------
(* The rows, the index, the child lists, the references and the published    *)
(* views go on telling one story.  The invariant is Kept, on top of the good *)
(* states; one lemma per handler says that it takes a kept state to a kept   *)
(* one, and what it may do to the rows of real pids on the way.              *)


\* No real id is reported under two pids.
AllExclusive == \A id \in RealIds : Exclusive(id)

RowAt(s, p, id) == s.rows[p] # NoRow /\ s.rows[p].id = id

\* An agent's row has an id that its own pid reported, or its pid's pending id.
Own(s) ==
  \A p \in Pids :
    s.rows[p] # NoRow => s.rows[p].id \in Reports[p] \cup {pendingId[p]}

\* ExclusiveIdsIndexed, of a state.
Found(s) ==
  \A p \in AllPids :
    s.rows[p] # NoRow /\ Exclusive(s.rows[p].id) => s.index[s.rows[p].id] = p

\* ChildrenOwned, of a state.
Owned(s) ==
  \A c \in SyntheticPids :
    s.rows[c] # NoRow =>
      \E p \in Pids : s.rows[p] # NoRow /\ s.rows[c].id \in s.rows[p].children

\* NoGhosts, of a state.
NoGhost(s) ==
  \A id \in SessionIds :
    s.feed[id] # NoView => \E p \in AllPids : RowAt(s, p, id)

\* ViewsCurrent, of a state.
Current(s) ==
  \A p \in AllPids :
    /\ s.rows[p] # NoRow /\ Exclusive(s.rows[p].id)
    /\ s.feed[s.rows[p].id] # NoView
    => s.feed[s.rows[p].id] = ViewOf(s.rows[p])

\* AliasesLive, of a state.
Aliased(s) ==
  \A k \in ProcIds \X Refs :
    s.refs[k] # NoId => \E p \in Pids : RowAt(s, p, k[1])

\* Every listed child has a row, whose parent is the session that lists it.
Mutual(s) ==
  \A p \in Pids :
    s.rows[p] # NoRow =>
      \A id \in s.rows[p].children :
        \E c \in SyntheticPids :
          RowAt(s, c, id) /\ s.rows[c].parent = s.rows[p].id

\* What holds in the middle of a rename as well.
Core(s) ==
  Good(s) /\ Own(s) /\ Found(s) /\ Owned(s) /\ NoGhost(s) /\ Current(s)

Kept(s) == Core(s) /\ Aliased(s) /\ (AllExclusive => Mutual(s))

\* The rows of real pids are the same ones, under the same ids.
SamePids(s, t) ==
  /\ t.ended = s.ended
  /\ \A p \in Pids :
       /\ (t.rows[p] = NoRow) <=> (s.rows[p] = NoRow)
       /\ s.rows[p] # NoRow => t.rows[p].id = s.rows[p].id

-----------------------------------------------------------------------------
(* Whose an id is *)

\* A child's id is no agent's, and nobody reports it.
LEMMA ChildIdExclusive ==
  ASSUME NEW id \in ChildIds
  PROVE  /\ Exclusive(id) /\ id \in SessionIds /\ id \notin ProcIds
         /\ id # NoId
<1>1. id \in SessionIds /\ id \notin ProcIds /\ id # NoId
  BY IdAssumption DEF SessionIds
<1>2. \A p \in Pids : id \notin Reports[p]
  BY <1>1, BoundAssumption DEF ProcIds
<1> QED
  BY <1>1, <1>2 DEF Exclusive

\* The pids that hold an agent's id, and those that hold a child's.
LEMMA HolderKind ==
  ASSUME NEW s, Typed(s), NEW p \in AllPids, s.rows[p] # NoRow
  PROVE  /\ s.rows[p] \in Row /\ s.rows[p].id \in SessionIds
         /\ s.rows[p].id \in ProcIds <=> p \in Pids
         /\ s.rows[p].id \in ChildIds <=> p \in SyntheticPids
<1>1. s.rows[p] \in Row /\ s.rows[p].id \in SessionIds
  BY DEF Typed, RegState, Row
<1>2. p \in Pids => s.rows[p].id \in ProcIds
  BY DEF Typed
<1>3. p \in SyntheticPids => s.rows[p].id \in ChildIds
  BY DEF Typed
<1>4. p \in Pids \/ p \in SyntheticPids
  BY DEF AllPids
<1>5. ~(s.rows[p].id \in ProcIds /\ s.rows[p].id \in ChildIds)
  BY IdAssumption
<1>6. ~(p \in Pids /\ p \in SyntheticPids)
  BY PidAssumption
<1> QED
  BY <1>1, <1>2, <1>3, <1>4, <1>5, <1>6

\* One pid only can come to hold an exclusive id of an agent.
LEMMA OneOwner ==
  ASSUME NEW p \in Pids, NEW q \in Pids, NEW id, Exclusive(id),
         id \in Reports[p] \cup {pendingId[p]},
         id \in Reports[q] \cup {pendingId[q]}
  PROVE  p = q
<1>1. Reports[p] \subseteq RealIds /\ Reports[q] \subseteq RealIds
  BY BoundAssumption
<1>2. pendingId[p] \in PendingIds /\ pendingId[q] \in PendingIds
  BY DEF PendingIds
<1>3. CASE id \in RealIds
  BY <1>2, <1>3, IdAssumption DEF Exclusive
<1>4. CASE id \notin RealIds
  BY <1>1, <1>4, IdAssumption
<1> QED
  BY <1>3, <1>4

\* Two rows share an id only if it is not exclusive.
LEMMA OneHolder ==
  ASSUME NEW s, Found(s), NEW p \in AllPids, NEW q \in AllPids,
         s.rows[p] # NoRow, s.rows[q] # NoRow, s.rows[p].id = s.rows[q].id,
         Exclusive(s.rows[p].id)
  PROVE  p = q
  BY DEF Found

\* An agent's row does not hold an exclusive id of another.
LEMMA OnlyHolder ==
  ASSUME NEW s, Typed(s), Own(s), NEW p \in Pids, NEW id \in ProcIds,
         Exclusive(id), id \in Reports[p] \cup {pendingId[p]},
         NEW q \in AllPids, RowAt(s, q, id)
  PROVE  q = p
<1>1. q \in Pids
  BY HolderKind DEF RowAt
<1> QED
  BY <1>1, OneOwner DEF Own, RowAt

LEMMA AllProcExclusive ==
  ASSUME AllExclusive, NEW id \in ProcIds
  PROVE  Exclusive(id)
<1>1. CASE id \in RealIds
  BY <1>1 DEF AllExclusive
<1>2. CASE id \notin RealIds
  BY <1>2, BoundAssumption DEF Exclusive
<1> QED
  BY <1>1, <1>2

LEMMA SamePidsTransitive ==
  ASSUME NEW s, NEW t, NEW u, SamePids(s, t), SamePids(t, u)
  PROVE  SamePids(s, u)
  BY DEF SamePids

-----------------------------------------------------------------------------
(* Removing rows *)

LEMMA DoomedFacts ==
  ASSUME NEW s, NEW roots
  PROVE  /\ Doomed(s, roots) \subseteq Held(s)
         /\ roots \cap Held(s) \subseteq Doomed(s, roots)
         /\ \A q \in Doomed(s, roots) : Children(s, q) \subseteq Doomed(s, roots)
         /\ \A S \in SUBSET Held(s) :
              /\ roots \cap Held(s) \subseteq S
              /\ \A q \in S : Children(s, q) \subseteq S
              => Doomed(s, roots) \subseteq S
<1>1. Doomed(s, roots) \subseteq Held(s)
  BY DEF Doomed
<1>2. roots \cap Held(s) \subseteq Doomed(s, roots)
  BY DEF Doomed
<1>3. ASSUME NEW S \in SUBSET Held(s), roots \cap Held(s) \subseteq S,
             \A q \in S : Children(s, q) \subseteq S
      PROVE  Doomed(s, roots) \subseteq S
  BY <1>3 DEF Doomed
<1>4. ASSUME NEW q \in Doomed(s, roots), NEW r \in Children(s, q)
      PROVE  r \in Doomed(s, roots)
  <2>1. r \in Held(s)
    BY <1>4 DEF Children
  <2>2. ASSUME NEW S \in SUBSET Held(s), roots \cap Held(s) \subseteq S,
               \A o \in S : Children(s, o) \subseteq S
        PROVE  r \in S
    <3>1. q \in S
      BY <2>2, <1>3
    <3> QED
      BY <3>1, <2>2, <1>4
  <2> QED
    BY <2>1, <2>2 DEF Doomed
<1> QED
  BY <1>1, <1>2, <1>3, <1>4

\* A removal spreads to in-process children only.
LEMMA DoomedPids ==
  ASSUME NEW s, Good(s), NEW roots, NEW p \in Pids, p \in Doomed(s, roots)
  PROVE  p \in roots
<1> DEFINE S == {q \in Held(s) : q \in roots \/ q \in SyntheticPids}
<1>1. ASSUME NEW q \in S, NEW r \in Children(s, q)
      PROVE  r \in S
  <2>1. q \in AllPids /\ s.rows[q] \in Row
    BY HolderKind DEF Held, Good
  <2>2. PICK c \in s.rows[q].children : r = s.index[c] /\ r \in Held(s)
    BY <1>1 DEF Children
  <2>3. c \in ChildIds /\ c \in SessionIds
    BY <2>1, ChildIdExclusive DEF Row
  <2>4. r \in AllPids /\ s.rows[r] # NoRow /\ r # NoPid
    BY <2>2, PidAssumption DEF Held
  <2>5. s.rows[r].id = c
    BY <2>2, <2>3, <2>4 DEF Good, Sound
  <2> QED
    BY <2>2, <2>3, <2>4, <2>5, HolderKind DEF Good
<1>2. S \subseteq Held(s) /\ roots \cap Held(s) \subseteq S
  OBVIOUS
<1>3. p \in S
  BY <1>1, <1>2, DoomedFacts
<1> QED
  BY <1>3, PidAssumption

\* The ids that leave the child list of p, and the ids that go altogether.
LostBy(s, roots, p) ==
  {s.rows[q].id : q \in {r \in Doomed(s, roots) : ParentPid(s, s.rows[r]) = p}}
GoneIds(s, roots) == {s.rows[p].id : p \in Doomed(s, roots)}

\* What RemoveRows does to each part of a state.
LEMMA RemoveParts ==
  ASSUME NEW s, Good(s), NEW roots, NEW t, t = RemoveRows(s, roots)
  PROVE  /\ t.ended = s.ended
         /\ \A p \in Doomed(s, roots) : t.rows[p] = NoRow
         /\ \A p \in AllPids : s.rows[p] = NoRow => t.rows[p] = NoRow
         /\ \A p \in AllPids :
              p \notin Doomed(s, roots) /\ s.rows[p] # NoRow =>
                t.rows[p] # NoRow
         /\ \A p \in AllPids :
              p \notin Doomed(s, roots) /\ s.rows[p] # NoRow =>
                t.rows[p] =
                  [s.rows[p] EXCEPT !.children = @ \ LostBy(s, roots, p)]
         /\ \A id \in SessionIds :
              s.index[id] \notin Doomed(s, roots) => t.index[id] = s.index[id]
         /\ \A k \in ProcIds \X Refs :
              t.refs[k] # NoId => s.refs[k] # NoId /\ k[1] \notin GoneIds(s, roots)
         /\ \A id \in SessionIds :
              t.feed[id] # NoView =>
                /\ id \notin GoneIds(s, roots)
                /\ \/ /\ s.index[id] \in Held(s) \ Doomed(s, roots)
                      /\ t.feed[id] = ViewOf(t.rows[s.index[id]])
                   \/ /\ s.index[id] \in Held(s) \ Doomed(s, roots) =>
                           LostBy(s, roots, s.index[id]) = {}
                      /\ t.feed[id] = s.feed[id]
<1> DEFINE gone == Doomed(s, roots)
           ids == {s.rows[p].id : p \in gone}
           Lost(p) == {s.rows[q].id :
                         q \in {r \in gone : ParentPid(s, s.rows[r]) = p}}
           rows == [p \in AllPids |->
                      IF p \in gone \/ s.rows[p] = NoRow THEN NoRow
                      ELSE [s.rows[p] EXCEPT !.children = @ \ Lost(p)]]
           Parents == {p \in Held(s) \ gone : Lost(p) # {}}
           index == [id \in SessionIds |->
                       IF /\ s.index[id] \in gone
                          /\ s.rows[s.index[id]].id = id
                       THEN NoPid ELSE s.index[id]]
           refs == [k \in ProcIds \X Refs |->
                      IF k[1] \in ids \/ s.refs[k] \in ids
                      THEN NoId ELSE s.refs[k]]
           shown == [id \in SessionIds |->
                       IF id \in ids THEN NoView
                       ELSE IF s.index[id] \in Parents
                            THEN ViewOf(rows[s.index[id]])
                       ELSE s.feed[id]]
<1>1. t = [s EXCEPT !.rows = rows, !.index = index, !.refs = refs,
                    !.feed = shown]
  BY DEF RemoveRows
<1> HIDE DEF rows, index, refs, shown
<1>2. /\ t.rows = rows /\ t.index = index /\ t.refs = refs /\ t.feed = shown
      /\ t.ended = s.ended
  BY <1>1 DEF Good, Typed, RegState
<1>3. \A p : Lost(p) = LostBy(s, roots, p)
  BY DEF LostBy
<1>4. ids = GoneIds(s, roots)
  BY DEF GoneIds
<1> HIDE DEF gone, ids, Lost
<1>5. ASSUME NEW p \in AllPids
      PROVE  /\ p \in gone => rows[p] = NoRow
             /\ s.rows[p] = NoRow => rows[p] = NoRow
             /\ p \notin gone /\ s.rows[p] # NoRow =>
                  /\ rows[p] # NoRow
                  /\ rows[p] = [s.rows[p] EXCEPT !.children = @ \ Lost(p)]
  <2>1. CASE p \in gone \/ s.rows[p] = NoRow
    BY <2>1 DEF rows
  <2>2. CASE p \notin gone /\ s.rows[p] # NoRow
    <3> DEFINE row == [s.rows[p] EXCEPT !.children = @ \ Lost(p)]
    <3>1. rows[p] = row
      BY <2>2 DEF rows
    <3>2. s.rows[p] \in Row
      BY <2>2 DEF Good, Typed, RegState
    <3>3. row \in Row
      BY <3>2 DEF Row
    <3> QED
      BY <2>2, <3>1, <3>3, NullNotRow
  <2> QED
    BY <2>1, <2>2
<1>9. \A p \in gone : p \in AllPids
  BY DoomedFacts DEF Held, gone
<1>6. \A id \in SessionIds : s.index[id] \notin gone => index[id] = s.index[id]
  BY DEF index
<1>7. \A k \in ProcIds \X Refs :
        refs[k] # NoId => s.refs[k] # NoId /\ k[1] \notin ids
  BY DEF refs
<1>8. ASSUME NEW id \in SessionIds, shown[id] # NoView
      PROVE  /\ id \notin ids
             /\ \/ /\ s.index[id] \in Held(s) \ gone
                   /\ shown[id] = ViewOf(rows[s.index[id]])
                \/ /\ s.index[id] \in Held(s) \ gone => Lost(s.index[id]) = {}
                   /\ shown[id] = s.feed[id]
  BY <1>8 DEF shown
<1> QED
  BY <1>2, <1>3, <1>4, <1>5, <1>6, <1>7, <1>8, <1>9 DEF gone

\* What removing rows leaves of a row that stays, and of a child that does.
LEMMA RemoveStays ==
  ASSUME NEW s, Good(s), NEW roots, NEW t, t = RemoveRows(s, roots),
         NEW p \in AllPids, t.rows[p] # NoRow
  PROVE  /\ s.rows[p] # NoRow /\ p \notin Doomed(s, roots)
         /\ s.rows[p] \in Row
         /\ t.rows[p].id = s.rows[p].id /\ t.rows[p].parent = s.rows[p].parent
         /\ t.rows[p].children = s.rows[p].children \ LostBy(s, roots, p)
         /\ t.rows[p].status = s.rows[p].status
<1>1. s.rows[p] # NoRow /\ p \notin Doomed(s, roots)
  <2>1. /\ p \in Doomed(s, roots) => t.rows[p] = NoRow
        /\ s.rows[p] = NoRow => t.rows[p] = NoRow
    BY RemoveParts
  <2> QED
    BY <2>1
<1>2. t.rows[p] = [s.rows[p] EXCEPT !.children = @ \ LostBy(s, roots, p)]
  BY <1>1, RemoveParts
<1>3. s.rows[p] \in Row
  BY <1>1 DEF Good, Typed, RegState
<1> QED
  BY <1>1, <1>2, <1>3 DEF Row

\* A child whose row stays is in the list of a parent whose row stays.
LEMMA RemoveOwned ==
  ASSUME NEW s, Good(s), Found(s), Owned(s), NEW roots,
         NEW t, t = RemoveRows(s, roots)
  PROVE  Owned(t)
<1> SUFFICES ASSUME NEW c \in SyntheticPids, t.rows[c] # NoRow
             PROVE  \E p \in Pids : /\ t.rows[p] # NoRow
                                    /\ t.rows[c].id \in t.rows[p].children
  BY DEF Owned
<1> DEFINE id == s.rows[c].id
<1>1. c \in AllPids
  BY DEF AllPids
<1>2. s.rows[c] # NoRow /\ c \notin Doomed(s, roots) /\ t.rows[c].id = id
  BY <1>1, RemoveStays
<1>3. id \in ChildIds /\ id \in SessionIds /\ s.index[id] = c
  BY <1>1, <1>2, HolderKind, ChildIdExclusive DEF Good, Found
<1>4. PICK p \in Pids : s.rows[p] # NoRow /\ id \in s.rows[p].children
  BY <1>2 DEF Owned
<1> HIDE DEF id
<1>5. p \in AllPids /\ c \in Held(s)
  BY <1>1, <1>2 DEF AllPids, Held
<1>6. p \notin Doomed(s, roots)
  <2>1. c \in Children(s, p)
    BY <1>3, <1>4, <1>5 DEF Children
  <2> QED
    BY <2>1, <1>2, DoomedFacts
<1>7. t.rows[p] # NoRow
  BY <1>4, <1>5, <1>6, RemoveParts
<1>8. t.rows[p].children = s.rows[p].children \ LostBy(s, roots, p)
  BY <1>5, <1>7, RemoveStays
<1>9. id \notin LostBy(s, roots, p)
  <2> SUFFICES ASSUME NEW q \in Doomed(s, roots), s.rows[q].id = id
               PROVE  FALSE
    BY DEF LostBy
  <2>1. q \in AllPids /\ s.rows[q] # NoRow
    BY DoomedFacts DEF Held
  <2>2. q = c
    BY <2>1, <1>1, <1>2, <1>3, ChildIdExclusive, OneHolder DEF id
  <2> QED
    BY <2>2, <1>2
<1> QED
  BY <1>2, <1>4, <1>7, <1>8, <1>9

LEMMA RemoveFeed ==
  ASSUME NEW s, Good(s), Found(s), NoGhost(s), Current(s), NEW roots,
         NEW t, t = RemoveRows(s, roots)
  PROVE  NoGhost(t) /\ Current(t)
<1>1. ASSUME NEW id \in SessionIds, t.feed[id] # NoView
      PROVE  \E p \in AllPids : RowAt(t, p, id)
  <2>1. id \notin GoneIds(s, roots)
    BY <1>1, RemoveParts
  <2>2. PICK p \in AllPids : RowAt(s, p, id)
    <3>1. CASE s.index[id] \in Held(s)
      <4>1. s.index[id] \in AllPids /\ s.index[id] # NoPid
        BY <3>1, PidAssumption DEF Held
      <4> QED
        BY <4>1 DEF Good, Sound, RowAt
    <3>2. CASE s.index[id] \notin Held(s)
      <4>1. t.feed[id] = s.feed[id]
        BY <1>1, <3>2, RemoveParts
      <4> QED
        BY <1>1, <4>1 DEF NoGhost
    <3> QED
      BY <3>1, <3>2
  <2>3. p \notin Doomed(s, roots)
    BY <2>1, <2>2 DEF GoneIds, RowAt
  <2>4. t.rows[p] # NoRow
    BY <2>2, <2>3, RemoveParts DEF RowAt
  <2>5. t.rows[p].id = id
    BY <2>2, <2>4, RemoveStays DEF RowAt
  <2> QED
    BY <2>4, <2>5 DEF RowAt
<1>2. ASSUME NEW p \in AllPids, t.rows[p] # NoRow, Exclusive(t.rows[p].id),
             t.feed[t.rows[p].id] # NoView
      PROVE  t.feed[t.rows[p].id] = ViewOf(t.rows[p])
  <2> DEFINE id == t.rows[p].id
  <2>1. /\ s.rows[p] # NoRow /\ s.rows[p] \in Row /\ p \notin Doomed(s, roots)
        /\ s.rows[p].id = id
    BY <1>2, RemoveStays
  <2>2. id \in SessionIds /\ s.index[id] = p /\ p \in Held(s) \ Doomed(s, roots)
    BY <1>2, <2>1 DEF Found, Held, Row
  <2>3. CASE t.feed[id] = ViewOf(t.rows[s.index[id]])
    BY <2>2, <2>3
  <2>4. CASE LostBy(s, roots, p) = {} /\ t.feed[id] = s.feed[id]
    <3>1. s.feed[id] = ViewOf(s.rows[p])
      BY <1>2, <2>1, <2>4 DEF Current
    <3>2. ViewOf(t.rows[p]) = ViewOf(s.rows[p])
      <4>1. /\ t.rows[p].parent = s.rows[p].parent
            /\ t.rows[p].children = s.rows[p].children
            /\ t.rows[p].status = s.rows[p].status
        <5>1. t.rows[p].children = s.rows[p].children \ LostBy(s, roots, p)
          BY <1>2, RemoveStays
        <5> QED
          BY <1>2, <2>4, <5>1, RemoveStays
      <4> QED
        BY <4>1 DEF ViewOf
    <3> QED
      BY <2>4, <3>1, <3>2
  <2> HIDE DEF id
  <2>5. \/ t.feed[id] = ViewOf(t.rows[s.index[id]])
        \/ LostBy(s, roots, p) = {} /\ t.feed[id] = s.feed[id]
    <3>1. id \in SessionIds /\ t.feed[id] # NoView
      BY <1>2, <2>2 DEF id
    <3>2. \/ /\ s.index[id] \in Held(s) \ Doomed(s, roots)
             /\ t.feed[id] = ViewOf(t.rows[s.index[id]])
          \/ /\ s.index[id] \in Held(s) \ Doomed(s, roots) =>
                  LostBy(s, roots, s.index[id]) = {}
             /\ t.feed[id] = s.feed[id]
      BY <1>1, <3>1, RemoveParts
    <3> QED
      BY <2>2, <3>2
  <2> QED
    BY <2>3, <2>4, <2>5 DEF id
<1> QED
  BY <1>1, <1>2 DEF NoGhost, Current

LEMMA RemoveMutual ==
  ASSUME NEW s, Good(s), Found(s), Mutual(s), AllExclusive, NEW roots,
         NEW t, t = RemoveRows(s, roots)
  PROVE  Mutual(t)
<1> SUFFICES ASSUME NEW p \in Pids, t.rows[p] # NoRow,
                    NEW id \in t.rows[p].children
             PROVE  \E c \in SyntheticPids :
                      RowAt(t, c, id) /\ t.rows[c].parent = t.rows[p].id
  BY DEF Mutual
<1>1. p \in AllPids
  BY DEF AllPids
<1>2. /\ s.rows[p] # NoRow /\ t.rows[p].id = s.rows[p].id
      /\ id \in s.rows[p].children /\ id \notin LostBy(s, roots, p)
  BY <1>1, RemoveStays
<1>3. PICK c \in SyntheticPids :
        RowAt(s, c, id) /\ s.rows[c].parent = s.rows[p].id
  BY <1>2 DEF Mutual
<1>4. c \in AllPids
  BY DEF AllPids
<1>5. c \notin Doomed(s, roots)
  <2> SUFFICES ASSUME c \in Doomed(s, roots) PROVE FALSE
    OBVIOUS
  <2>1. s.rows[p].id \in ProcIds /\ s.rows[p].id # NoId
    BY <1>1, <1>2, HolderKind, IdAssumption DEF Good
  <2>2. s.index[s.rows[p].id] = p
    BY <1>1, <1>2, <2>1, AllProcExclusive DEF Found
  <2>3. ParentPid(s, s.rows[c]) = p
    BY <1>3, <2>1, <2>2 DEF ParentPid
  <2> QED
    BY <1>2, <1>3, <2>3 DEF LostBy, RowAt
<1>6. t.rows[c] # NoRow
  BY <1>3, <1>4, <1>5, RemoveParts DEF RowAt
<1>7. t.rows[c].id = id /\ t.rows[c].parent = s.rows[p].id
  BY <1>3, <1>4, <1>6, RemoveStays DEF RowAt
<1> QED
  BY <1>2, <1>6, <1>7 DEF RowAt

\* The rows of real pids outside the roots stay, and the end markers do.
LEMMA RemovePids ==
  ASSUME NEW s, Good(s), NEW roots, NEW t, t = RemoveRows(s, roots)
  PROVE  /\ t.ended = s.ended
         /\ \A p \in Pids :
              /\ s.rows[p] = NoRow => t.rows[p] = NoRow
              /\ t.rows[p] # NoRow => t.rows[p].id = s.rows[p].id
              /\ p \notin roots /\ s.rows[p] # NoRow => t.rows[p] # NoRow
<1>1. \A p \in Pids : p \in AllPids
  BY DEF AllPids
<1>2. \A p \in Pids : p \in Doomed(s, roots) => p \in roots
  BY DoomedPids
<1>3. t.ended = s.ended
  BY RemoveParts
<1>4. ASSUME NEW p \in Pids
      PROVE  /\ s.rows[p] = NoRow => t.rows[p] = NoRow
             /\ p \notin roots /\ s.rows[p] # NoRow => t.rows[p] # NoRow
  <2>1. s.rows[p] = NoRow => t.rows[p] = NoRow
    BY <1>1, RemoveParts
  <2>2. p \notin Doomed(s, roots) /\ s.rows[p] # NoRow => t.rows[p] # NoRow
    BY <1>1, RemoveParts
  <2> QED
    BY <1>2, <2>1, <2>2
<1>5. ASSUME NEW p \in Pids, t.rows[p] # NoRow
      PROVE  t.rows[p].id = s.rows[p].id
  BY <1>1, <1>5, RemoveStays
<1> QED
  BY <1>3, <1>4, <1>5

LEMMA RemoveKept ==
  ASSUME NEW s, Kept(s), NEW roots
  PROVE  Kept(RemoveRows(s, roots))
<1> DEFINE t == RemoveRows(s, roots)
<1>1. Good(s) /\ Own(s) /\ Found(s) /\ Owned(s) /\ NoGhost(s) /\ Current(s)
  BY DEF Kept, Core
<1>2. Good(t)
  BY <1>1, RemoveRowsGood
<1>3. \A p \in AllPids :
        t.rows[p] # NoRow => /\ s.rows[p] # NoRow /\ p \notin Doomed(s, roots)
                             /\ t.rows[p].id = s.rows[p].id
                             /\ s.rows[p].id \in SessionIds
  BY <1>1, RemoveStays DEF Row
<1>4. Own(t)
  BY <1>1, <1>3 DEF Own, AllPids
<1>5. Found(t)
  <2> SUFFICES ASSUME NEW p \in AllPids, t.rows[p] # NoRow,
                      Exclusive(t.rows[p].id)
               PROVE  t.index[t.rows[p].id] = p
    BY DEF Found
  <2>1. s.index[s.rows[p].id] = p
    BY <1>1, <1>3 DEF Found
  <2>2. t.index[s.rows[p].id] = s.index[s.rows[p].id]
    BY <1>1, <1>3, <2>1, RemoveParts
  <2> QED
    BY <1>3, <2>1, <2>2
<1>6. Owned(t) /\ NoGhost(t) /\ Current(t)
  BY <1>1, RemoveOwned, RemoveFeed
<1>7. Aliased(t)
  <2> SUFFICES ASSUME NEW k \in ProcIds \X Refs, t.refs[k] # NoId
               PROVE  \E p \in Pids : RowAt(t, p, k[1])
    BY DEF Aliased
  <2>1. s.refs[k] # NoId /\ k[1] \notin GoneIds(s, roots)
    BY <1>1, RemoveParts
  <2>2. PICK p \in Pids : RowAt(s, p, k[1])
    BY <2>1 DEF Kept, Aliased
  <2>3. p \in AllPids /\ p \notin Doomed(s, roots)
    BY <2>1, <2>2 DEF AllPids, GoneIds, RowAt
  <2>4. t.rows[p] # NoRow
    BY <1>1, <2>2, <2>3, RemoveParts DEF RowAt
  <2> QED
    BY <1>3, <2>2, <2>3, <2>4 DEF RowAt
<1>8. AllExclusive => Mutual(t)
  BY <1>1, RemoveMutual DEF Kept
<1> QED
  BY <1>2, <1>4, <1>5, <1>6, <1>7, <1>8 DEF Kept, Core

-----------------------------------------------------------------------------
(* In-process children *)

\* What a new child of p's row changes, child being the pid it is given.
AddsChild(s, t, p, id, child) ==
  /\ t.ended = s.ended /\ t.refs = s.refs
  /\ t.rows[child] = NewRow(id, s.rows[p].id, "Working", Untracked)
  /\ t.rows[p] = [s.rows[p] EXCEPT !.children = @ \cup {id}]
  /\ \A q \in AllPids \ {child, p} : t.rows[q] = s.rows[q]
  /\ t.index[id] = child
  /\ \A i \in SessionIds \ {id} : t.index[i] = s.index[i]
  /\ t.feed[id] = ViewOf(t.rows[child])
  /\ t.feed[s.rows[p].id] = ViewOf(t.rows[p])
  /\ \A i \in SessionIds \ {id, s.rows[p].id} : t.feed[i] = s.feed[i]

LEMMA EnsureParts ==
  ASSUME NEW s, Good(s), NEW p \in Pids, NEW id \in ChildIds,
         s.index[id] = NoPid, s.rows[p] # NoRow, ~Full(s),
         NEW t, t = EnsureChildSession(s, p, id)
  PROVE  \E child \in SyntheticPids :
           s.rows[child] = NoRow /\ AddsChild(s, t, p, id, child)
<1> DEFINE child == CHOOSE q \in SyntheticPids : q \notin Held(s)
           row == NewRow(id, s.rows[p].id, "Working", Untracked)
           longer == [s.rows[p] EXCEPT !.children = @ \cup {id}]
           rows == [s.rows EXCEPT ![child] = row, ![p] = longer]
           index == [s.index EXCEPT ![id] = child]
           s2 == [s EXCEPT !.rows = rows, !.index = index]
           f == [s.feed EXCEPT ![id] = ViewOf(row)]
           g == [f EXCEPT ![s.rows[p].id] = ViewOf(longer)]
<1>1. child \in SyntheticPids /\ child \notin Held(s)
  BY SyntheticPidLeft
<1> HIDE DEF child
<1>2. p \in AllPids /\ child \in AllPids /\ child # p /\ s.rows[child] = NoRow
  BY <1>1, PidAssumption DEF AllPids, Held
<1>3. s.rows[p] \in Row /\ s.rows[p].id \in ProcIds /\ s.rows[p].id \in SessionIds
  BY <1>2, HolderKind DEF Good
<1>4. id \in SessionIds /\ id # s.rows[p].id
  BY <1>3, ChildIdExclusive
<1>5. row \in Row /\ row.id = id
  BY <1>3, <1>4, NewRowType, BoundAssumption
     DEF NewRow, Status, Untracked
<1>6. longer \in Row /\ longer.id = s.rows[p].id
  BY <1>3 DEF Row
<1> HIDE DEF row, longer
<1>7. /\ s.rows \in [AllPids -> Row \cup {NoRow}]
      /\ s.index \in [SessionIds -> AllPids \cup {NoPid}]
      /\ s.feed \in [SessionIds -> View \cup {NoView}]
  BY DEF Good, Typed, RegState
<1>8. rows[child] = row /\ rows[p] = longer
      /\ \A q \in AllPids \ {child, p} : rows[q] = s.rows[q]
  BY <1>2, <1>7
<1>9. [InsertNewSession(s, child, row) EXCEPT !.rows[p].children = @ \cup {id}]
        = s2
  <2>1. [s.rows EXCEPT ![child] = row][p] = s.rows[p]
    BY <1>2, <1>7
  <2>2. [[s.rows EXCEPT ![child] = row] EXCEPT ![p].children = @ \cup {id}] = rows
    BY <2>1 DEF longer
  <2>3. InsertNewSession(s, child, row) =
          [s EXCEPT !.rows = [s.rows EXCEPT ![child] = row], !.index = index]
    BY <1>5 DEF InsertNewSession, Good, Typed, RegState
  <2> QED
    BY <2>2, <2>3 DEF Good, Typed, RegState
<1> HIDE DEF rows, index
<1>10. s2.rows = rows /\ s2.index = index /\ s2.feed = s.feed
       /\ s2.refs = s.refs /\ s2.ended = s.ended
  BY DEF Good, Typed, RegState
<1> HIDE DEF s2
<1>11. PublishUpdated(s2, child) = [s2 EXCEPT !.feed = f]
  BY <1>5, <1>8, <1>10, NullNotRow DEF PublishUpdated
<1> DEFINE s3 == [s2 EXCEPT !.feed = f]
<1>12. /\ s3.rows = rows /\ s3.index = index /\ s3.feed = f
       /\ s3.refs = s.refs /\ s3.ended = s.ended
  BY <1>10 DEF s2, Good, Typed, RegState
<1>13. PublishUpdated(s3, p) = [s3 EXCEPT !.feed = g]
  BY <1>6, <1>8, <1>12, NullNotRow DEF PublishUpdated
<1>14. t = [s3 EXCEPT !.feed = g]
  BY <1>9, <1>11, <1>13 DEF EnsureChildSession, child, row
<1>15. /\ t.rows = rows /\ t.index = index /\ t.feed = g
       /\ t.refs = s.refs /\ t.ended = s.ended
  BY <1>12, <1>14 DEF s3, s2, Good, Typed, RegState
<1>16. /\ g[id] = ViewOf(row) /\ g[s.rows[p].id] = ViewOf(longer)
       /\ \A i \in SessionIds \ {id, s.rows[p].id} : g[i] = s.feed[i]
  BY <1>3, <1>4, <1>7
<1>17. index[id] = child /\ \A i \in SessionIds \ {id} : index[i] = s.index[i]
  BY <1>4, <1>7 DEF index
<1> HIDE DEF f, g, s3
<1>18. AddsChild(s, t, p, id, child)
  BY <1>8, <1>15, <1>16, <1>17 DEF AddsChild, row, longer
<1> QED
  BY <1>1, <1>2, <1>18

LEMMA AddsChildKept ==
  ASSUME NEW s, Kept(s), NEW t, Good(t), NEW p \in Pids, s.rows[p] # NoRow,
         NEW id \in ChildIds, s.index[id] = NoPid,
         NEW child \in SyntheticPids, s.rows[child] = NoRow,
         AddsChild(s, t, p, id, child)
  PROVE  Kept(t) /\ SamePids(s, t)
<1> DEFINE title == s.rows[p].id
<1>1. /\ Good(s) /\ Own(s) /\ Found(s) /\ Owned(s) /\ NoGhost(s) /\ Current(s)
      /\ Typed(s) /\ Typed(t) /\ Aliased(s)
  BY DEF Kept, Core, Good
<1>2. /\ p \in AllPids /\ child \in AllPids /\ child # p /\ child \notin Pids
      /\ NoPid \notin AllPids
  BY PidAssumption DEF AllPids
<1>3. /\ s.rows[p] \in Row /\ title \in ProcIds /\ title \in SessionIds
      /\ id \in SessionIds /\ id # title /\ id \notin ProcIds
  BY <1>1, <1>2, HolderKind, ChildIdExclusive
<1>4. t.rows[child].id = id /\ t.rows[child].parent = title
  BY DEF AddsChild, NewRow
<1>5. /\ t.rows[p].id = title /\ t.rows[p].parent = s.rows[p].parent
      /\ t.rows[p].children = s.rows[p].children \cup {id}
  <2>1. t.rows[p] = [s.rows[p] EXCEPT !.children = @ \cup {id}]
    BY DEF AddsChild
  <2> QED
    BY <1>3, <2>1 DEF Row
<1>6. t.rows[child] # NoRow /\ t.rows[p] # NoRow
  <2>1. t.rows[child] \in Row
    BY <1>3, NewRowType, BoundAssumption DEF AddsChild, Status, Untracked
  <2>2. t.rows[p] = [s.rows[p] EXCEPT !.children = @ \cup {id}]
    BY DEF AddsChild
  <2>3. t.rows[p] \in Row
    BY <1>3, <2>2 DEF Row
  <2> QED
    BY <2>1, <2>3, NullNotRow
<1>7. \A q \in AllPids \ {child, p} : t.rows[q] = s.rows[q]
  BY DEF AddsChild
<1>8. ASSUME NEW q \in AllPids, s.rows[q] # NoRow
      PROVE  s.rows[q].id # id /\ q # child
  <2>1. s.rows[q].id = id => s.index[id] = q
    BY <1>1, <1>8, ChildIdExclusive DEF Found
  <2> QED
    BY <1>2, <1>8, <2>1
<1>9. ASSUME NEW q \in AllPids, s.rows[q] # NoRow
      PROVE  t.rows[q] # NoRow /\ t.rows[q].id = s.rows[q].id
  BY <1>5, <1>6, <1>7, <1>8, <1>9
<1>10. ASSUME NEW q \in AllPids, q # child, t.rows[q] # NoRow
       PROVE  s.rows[q] # NoRow /\ t.rows[q].id = s.rows[q].id
  BY <1>5, <1>7, <1>10
<1>11. Own(t)
  BY <1>1, <1>2, <1>10 DEF Own, AllPids
<1>12. Found(t)
  <2> SUFFICES ASSUME NEW q \in AllPids, t.rows[q] # NoRow,
                      Exclusive(t.rows[q].id)
               PROVE  t.index[t.rows[q].id] = q
    BY DEF Found
  <2>1. CASE q = child
    BY <2>1, <1>4 DEF AddsChild
  <2>2. CASE q # child
    <3>1. s.rows[q] # NoRow /\ t.rows[q].id = s.rows[q].id
      BY <2>2, <1>10
    <3>2. s.rows[q].id # id /\ s.rows[q].id \in SessionIds
      BY <1>1, <1>8, <3>1, HolderKind
    <3>3. s.index[s.rows[q].id] = q
      BY <1>1, <3>1 DEF Found
    <3> QED
      BY <3>1, <3>2, <3>3 DEF AddsChild
  <2> QED
    BY <2>1, <2>2
<1>13. \A q \in Pids : s.rows[q] # NoRow =>
          s.rows[q].children \subseteq t.rows[q].children
  BY <1>2, <1>5, <1>7 DEF AllPids
<1>14. Owned(t)
  <2> SUFFICES ASSUME NEW c \in SyntheticPids, t.rows[c] # NoRow
               PROVE  \E q \in Pids : /\ t.rows[q] # NoRow
                                      /\ t.rows[c].id \in t.rows[q].children
    BY DEF Owned
  <2>1. CASE c = child
    BY <2>1, <1>4, <1>5, <1>6
  <2>2. CASE c # child
    <3>1. c \in AllPids
      BY DEF AllPids
    <3>2. s.rows[c] # NoRow /\ t.rows[c].id = s.rows[c].id
      BY <2>2, <3>1, <1>10
    <3>3. PICK q \in Pids : s.rows[q] # NoRow /\ s.rows[c].id \in s.rows[q].children
      BY <1>1, <3>2 DEF Owned
    <3>4. q \in AllPids
      BY DEF AllPids
    <3> QED
      BY <1>9, <1>13, <3>2, <3>3, <3>4
  <2> QED
    BY <2>1, <2>2
<1>15. NoGhost(t)
  <2> SUFFICES ASSUME NEW i \in SessionIds, t.feed[i] # NoView
               PROVE  \E q \in AllPids : RowAt(t, q, i)
    BY DEF NoGhost
  <2>1. CASE i = id
    BY <2>1, <1>2, <1>4, <1>6 DEF RowAt
  <2>2. CASE i = title
    BY <2>2, <1>2, <1>5, <1>6 DEF RowAt
  <2>3. CASE i # id /\ i # title
    <3>1. t.feed[i] = s.feed[i]
      BY <2>3 DEF AddsChild
    <3>2. PICK q \in AllPids : RowAt(s, q, i)
      BY <1>1, <3>1 DEF NoGhost
    <3> QED
      BY <1>9, <3>2 DEF RowAt
  <2> QED
    BY <2>1, <2>2, <2>3
<1>16. Current(t)
  <2> SUFFICES ASSUME NEW q \in AllPids, t.rows[q] # NoRow,
                      Exclusive(t.rows[q].id), t.feed[t.rows[q].id] # NoView
               PROVE  t.feed[t.rows[q].id] = ViewOf(t.rows[q])
    BY DEF Current
  <2>1. CASE q = child
    BY <2>1, <1>4 DEF AddsChild
  <2>2. CASE q = p
    BY <2>2, <1>5 DEF AddsChild
  <2>3. CASE q # child /\ q # p
    <3>1. s.rows[q] # NoRow /\ t.rows[q] = s.rows[q]
      BY <2>3, <1>7
    <3>2. s.rows[q].id # id /\ s.rows[q].id \in SessionIds
      BY <1>1, <1>8, <3>1, HolderKind
    <3>3. s.rows[q].id # title
      BY <1>1, <1>2, <2>3, <3>1, OneHolder
    <3>4. t.feed[s.rows[q].id] = s.feed[s.rows[q].id]
      BY <3>2, <3>3 DEF AddsChild
    <3> QED
      BY <1>1, <3>1, <3>4 DEF Current
  <2> QED
    BY <2>1, <2>2, <2>3
<1>17. Aliased(t)
  <2>1. t.refs = s.refs
    BY DEF AddsChild
  <2>2. \A q \in Pids : q \in AllPids
    BY DEF AllPids
  <2> QED
    BY <1>1, <1>9, <2>1, <2>2 DEF Aliased, RowAt
<1>18. ASSUME AllExclusive
       PROVE  Mutual(t)
  <2> SUFFICES ASSUME NEW q \in Pids, t.rows[q] # NoRow,
                      NEW i \in t.rows[q].children
               PROVE  \E c \in SyntheticPids :
                        RowAt(t, c, i) /\ t.rows[c].parent = t.rows[q].id
    BY DEF Mutual
  <2>1. q \in AllPids /\ q # child
    BY <1>2 DEF AllPids
  <2>2. s.rows[q] # NoRow /\ t.rows[q].id = s.rows[q].id
    BY <1>10, <2>1
  <2>3. CASE q = p /\ i = id
    BY <2>3, <1>4, <1>5, <1>6 DEF RowAt
  <2>4. CASE ~(q = p /\ i = id)
    <3>1. i \in s.rows[q].children
      BY <2>1, <2>4, <1>5, <1>7
    <3>2. PICK c \in SyntheticPids :
            RowAt(s, c, i) /\ s.rows[c].parent = s.rows[q].id
      BY <1>18, <2>2, <3>1 DEF Kept, Mutual
    <3>3. c \in AllPids /\ c # child /\ c # p
      BY <1>2, <3>2, PidAssumption DEF AllPids, RowAt
    <3>4. t.rows[c] = s.rows[c]
      BY <1>7, <3>3
    <3> QED
      BY <2>2, <3>2, <3>4 DEF RowAt
  <2> QED
    BY <2>3, <2>4
<1>19. SamePids(s, t)
  <2>1. t.ended = s.ended
    BY DEF AddsChild
  <2>2. \A q \in Pids : q \in AllPids /\ q # child
    BY <1>2 DEF AllPids
  <2> QED
    BY <1>9, <1>10, <2>1, <2>2 DEF SamePids
<1> QED
  BY <1>1, <1>11, <1>12, <1>14, <1>15, <1>16, <1>17, <1>18, <1>19
     DEF Kept, Core

LEMMA SamePidsReflexive ==
  ASSUME NEW s
  PROVE  SamePids(s, s)
  BY DEF SamePids

LEMMA EnsureKept ==
  ASSUME NEW s, Kept(s), NEW p \in Pids, NEW id \in ChildIds
  PROVE  /\ Kept(EnsureChildSession(s, p, id))
         /\ SamePids(s, EnsureChildSession(s, p, id))
<1>1. CASE s.index[id] # NoPid \/ s.rows[p] = NoRow \/ Full(s)
  BY <1>1, SamePidsReflexive DEF EnsureChildSession
<1>2. CASE ~(s.index[id] # NoPid \/ s.rows[p] = NoRow \/ Full(s))
  <2>1. Good(s) /\ Good(EnsureChildSession(s, p, id))
    BY EnsureChildGood DEF Kept, Core
  <2>2. PICK child \in SyntheticPids :
          /\ s.rows[child] = NoRow
          /\ AddsChild(s, EnsureChildSession(s, p, id), p, id, child)
    BY <1>2, <2>1, EnsureParts
  <2> QED
    BY <1>2, <2>1, <2>2, AddsChildKept
<1> QED
  BY <1>1, <1>2

-----------------------------------------------------------------------------
(* Events *)

\* The row of p changes in no link, and is shown as it is then.
Shows(s, t, p) ==
  /\ t.ended = s.ended /\ t.refs = s.refs /\ t.index = s.index
  /\ t.rows[p] # NoRow /\ t.rows[p].id = s.rows[p].id
  /\ t.rows[p].parent = s.rows[p].parent
  /\ t.rows[p].children = s.rows[p].children
  /\ \A q \in AllPids \ {p} : t.rows[q] = s.rows[q]
  /\ t.feed[s.rows[p].id] = ViewOf(t.rows[p])
  /\ \A i \in SessionIds \ {s.rows[p].id} : t.feed[i] = s.feed[i]

LEMMA ShowsCore ==
  ASSUME NEW s, Core(s), NEW t, Good(t), NEW p \in AllPids, s.rows[p] # NoRow,
         Shows(s, t, p)
  PROVE  Core(t) /\ SamePids(s, t)
<1>1. /\ Good(s) /\ Own(s) /\ Found(s) /\ Owned(s) /\ NoGhost(s) /\ Current(s)
      /\ Typed(s)
  BY DEF Core, Good
<1>2. \A q \in AllPids :
        /\ (t.rows[q] = NoRow) <=> (s.rows[q] = NoRow)
        /\ s.rows[q] # NoRow => /\ t.rows[q].id = s.rows[q].id
                                /\ t.rows[q].parent = s.rows[q].parent
                                /\ t.rows[q].children = s.rows[q].children
  BY DEF Shows
<1>3. \A q : q \in Pids \/ q \in SyntheticPids => q \in AllPids
  BY DEF AllPids
<1>4. Own(t)
  BY <1>1, <1>2, <1>3 DEF Own
<1>5. Found(t)
  BY <1>1, <1>2 DEF Found, Shows
<1>6. Owned(t)
  <2> SUFFICES ASSUME NEW c \in SyntheticPids, t.rows[c] # NoRow
               PROVE  \E q \in Pids : /\ t.rows[q] # NoRow
                                      /\ t.rows[c].id \in t.rows[q].children
    BY DEF Owned
  <2>1. s.rows[c] # NoRow /\ t.rows[c].id = s.rows[c].id
    BY <1>2, <1>3
  <2>2. PICK q \in Pids : s.rows[q] # NoRow /\ s.rows[c].id \in s.rows[q].children
    BY <1>1, <2>1 DEF Owned
  <2> QED
    BY <1>2, <1>3, <2>1, <2>2
<1>7. NoGhost(t)
  <2> SUFFICES ASSUME NEW i \in SessionIds, t.feed[i] # NoView
               PROVE  \E q \in AllPids : RowAt(t, q, i)
    BY DEF NoGhost
  <2>1. CASE i = s.rows[p].id
    BY <2>1 DEF Shows, RowAt
  <2>2. CASE i # s.rows[p].id
    <3>1. s.feed[i] # NoView
      BY <2>2 DEF Shows
    <3>2. PICK q \in AllPids : RowAt(s, q, i)
      BY <1>1, <3>1 DEF NoGhost
    <3> QED
      BY <1>2, <3>2 DEF RowAt
  <2> QED
    BY <2>1, <2>2
<1>8. Current(t)
  <2> SUFFICES ASSUME NEW q \in AllPids, t.rows[q] # NoRow,
                      Exclusive(t.rows[q].id), t.feed[t.rows[q].id] # NoView
               PROVE  t.feed[t.rows[q].id] = ViewOf(t.rows[q])
    BY DEF Current
  <2>1. CASE q = p
    BY <2>1 DEF Shows
  <2>2. CASE q # p
    <3>1. t.rows[q] = s.rows[q]
      BY <2>2 DEF Shows
    <3>2. s.rows[q].id # s.rows[p].id
      BY <1>1, <2>2, <3>1, OneHolder
    <3>3. s.rows[q].id \in SessionIds
      BY <1>1, <3>1, HolderKind
    <3>4. t.feed[s.rows[q].id] = s.feed[s.rows[q].id]
      BY <3>2, <3>3 DEF Shows
    <3> QED
      BY <1>1, <3>1, <3>4 DEF Current
  <2> QED
    BY <2>1, <2>2
<1>9. SamePids(s, t)
  BY <1>2, <1>3 DEF SamePids, Shows
<1> QED
  BY <1>4, <1>5, <1>6, <1>7, <1>8, <1>9 DEF Core

LEMMA ShowsKept ==
  ASSUME NEW s, Kept(s), NEW t, Good(t), NEW p \in AllPids, s.rows[p] # NoRow,
         Shows(s, t, p)
  PROVE  Kept(t) /\ SamePids(s, t)
<1>1. Core(t) /\ SamePids(s, t)
  BY ShowsCore DEF Kept
<1>2. Aliased(t)
  BY <1>1 DEF Kept, Aliased, RowAt, SamePids, Shows
<1>3. ASSUME AllExclusive
      PROVE  Mutual(t)
  <2> SUFFICES ASSUME NEW q \in Pids, t.rows[q] # NoRow,
                      NEW i \in t.rows[q].children
               PROVE  \E c \in SyntheticPids :
                        RowAt(t, c, i) /\ t.rows[c].parent = t.rows[q].id
    BY DEF Mutual
  <2>1. \A r \in AllPids : s.rows[r] # NoRow =>
          /\ t.rows[r] # NoRow /\ t.rows[r].id = s.rows[r].id
          /\ t.rows[r].parent = s.rows[r].parent
    BY DEF Shows
  <2>2. q \in AllPids /\ s.rows[q] # NoRow /\ i \in s.rows[q].children
    BY DEF Shows, AllPids
  <2>3. PICK c \in SyntheticPids :
          RowAt(s, c, i) /\ s.rows[c].parent = s.rows[q].id
    BY <1>3, <2>2 DEF Kept, Mutual
  <2> QED
    BY <2>1, <2>2, <2>3 DEF RowAt, AllPids
<1> QED
  BY <1>1, <1>2, <1>3 DEF Kept

LEMMA PublishShows ==
  ASSUME NEW s, Good(s), NEW p \in AllPids, s.rows[p] # NoRow
  PROVE  Shows(s, PublishUpdated(s, p), p)
<1> DEFINE t == PublishUpdated(s, p)
<1>1. s.rows[p].id \in SessionIds
  BY HolderKind DEF Good
<1>2. t = [s EXCEPT !.feed[s.rows[p].id] = ViewOf(s.rows[p])]
  BY DEF PublishUpdated
<1>3. /\ t.rows = s.rows /\ t.index = s.index /\ t.refs = s.refs
      /\ t.ended = s.ended
      /\ t.feed = [s.feed EXCEPT ![s.rows[p].id] = ViewOf(s.rows[p])]
  BY <1>2 DEF Good, Typed, RegState
<1> QED
  BY <1>1, <1>3 DEF Shows, Good, Typed, RegState

LEMMA PublishKept ==
  ASSUME NEW s, Kept(s), NEW p \in AllPids
  PROVE  Kept(PublishUpdated(s, p)) /\ SamePids(s, PublishUpdated(s, p))
<1>1. Good(s) /\ Good(PublishUpdated(s, p))
  BY PublishGood DEF Kept, Core
<1>2. CASE s.rows[p] = NoRow
  BY <1>2, SamePidsReflexive DEF PublishUpdated
<1>3. CASE s.rows[p] # NoRow
  BY <1>1, <1>3, PublishShows, ShowsKept
<1> QED
  BY <1>2, <1>3

LEMMA ApplyKept ==
  ASSUME NEW s, Kept(s), NEW p \in AllPids, NEW effect \in Status \cup {"Same"}
  PROVE  /\ Kept(ApplyToSession(s, p, effect))
         /\ SamePids(s, ApplyToSession(s, p, effect))
<1> DEFINE t == ApplyToSession(s, p, effect)
<1>1. Good(s) /\ Good(t)
  BY ApplyGood DEF Kept, Core
<1>2. CASE s.rows[p] = NoRow
  BY <1>2, SamePidsReflexive DEF ApplyToSession
<1>3. CASE s.rows[p] # NoRow
  <2> DEFINE row == [s.rows[p] EXCEPT !.status = StatusAfter(@, effect)]
             u == WithRow(s, p, row)
  <2>1. s.rows[p] \in Row
    BY <1>1, <1>3, HolderKind DEF Good
  <2>2. /\ row \in Row /\ row.id = s.rows[p].id /\ row.start = s.rows[p].start
        /\ row.parent = s.rows[p].parent /\ row.children = s.rows[p].children
    BY <2>1 DEF Row, StatusAfter, Status
  <2>3. t = PublishUpdated(u, p)
    BY <1>3 DEF ApplyToSession, WithRow
  <2> HIDE DEF row, t
  <2>4. Good(u)
    BY <1>1, <1>3, <2>2, ReplaceRowGood
  <2>5. /\ u.rows = [s.rows EXCEPT ![p] = row] /\ u.index = s.index
        /\ u.refs = s.refs /\ u.ended = s.ended /\ u.feed = s.feed
    BY <1>1 DEF WithRow, Good, Typed, RegState
  <2>6. u.rows[p] = row /\ \A q \in AllPids \ {p} : u.rows[q] = s.rows[q]
    BY <1>1, <2>5 DEF Good, Typed, RegState
  <2> HIDE DEF u
  <2>7. Shows(u, t, p)
    BY <2>2, <2>3, <2>4, <2>6, NullNotRow, PublishShows
  <2>8. Shows(s, t, p)
    BY <2>2, <2>5, <2>6, <2>7 DEF Shows
  <2> QED
    BY <1>1, <1>3, <2>8, ShowsKept DEF t
<1> QED
  BY <1>2, <1>3

\* Removing rows of in-process children.
LEMMA RemoveChildrenKept ==
  ASSUME NEW s, Kept(s), NEW roots, roots \cap Pids = {}
  PROVE  Kept(RemoveRows(s, roots)) /\ SamePids(s, RemoveRows(s, roots))
<1>1. Kept(RemoveRows(s, roots))
  BY RemoveKept
<1>2. Good(s)
  BY DEF Kept, Core
<1>3. SamePids(s, RemoveRows(s, roots))
  BY <1>2, RemovePids DEF SamePids
<1> QED
  BY <1>1, <1>3

\* The index entry of a child's id leads to no agent's row.
LEMMA ChildIndex ==
  ASSUME NEW s, Good(s), NEW id \in ChildIds
  PROVE  s.index[id] \in SyntheticPids \cup {NoPid}
<1>1. id \in SessionIds
  BY ChildIdExclusive
<1>2. CASE s.index[id] # NoPid
  <2>1. s.index[id] \in AllPids /\ s.rows[s.index[id]] # NoRow
        /\ s.rows[s.index[id]].id = id
    BY <1>1, <1>2 DEF Good, Typed, RegState, Sound
  <2> QED
    BY <2>1, HolderKind DEF Good
<1> QED
  BY <1>2

LEMMA HandleRemoveKept ==
  ASSUME NEW s, Kept(s), NEW id \in ChildIds
  PROVE  Kept(HandleRemove(s, id)) /\ SamePids(s, HandleRemove(s, id))
<1>1. s.index[id] \in SyntheticPids \cup {NoPid}
  BY ChildIndex DEF Kept, Core
<1>2. CASE s.index[id] = NoPid
  BY <1>2, SamePidsReflexive DEF HandleRemove
<1>3. CASE s.index[id] # NoPid
  <2>1. {s.index[id]} \cap Pids = {}
    BY <1>1, <1>3, PidAssumption
  <2> QED
    BY <1>3, <2>1, RemoveChildrenKept DEF HandleRemove
<1> QED
  BY <1>2, <1>3

LEMMA BackgroundKept ==
  ASSUME NEW s, Kept(s), NEW p \in Pids, NEW background
  PROVE  /\ Kept(ApplyBackgroundActivity(s, p, background))
         /\ SamePids(s, ApplyBackgroundActivity(s, p, background))
<1> DEFINE Finished == {id \in s.rows[p].children :
                          /\ SyntheticChild(s, id)
                          /\ s.rows[s.index[id]].status = "Working"}
           roots == {s.index[id] : id \in Finished}
<1>1. CASE background # "quiet" \/ s.rows[p] = NoRow
  BY <1>1, SamePidsReflexive DEF ApplyBackgroundActivity
<1>2. CASE ~(background # "quiet" \/ s.rows[p] = NoRow)
  <2>1. s.rows[p] \in Row /\ Good(s)
    BY <1>2, HolderKind DEF Kept, Core, Good, AllPids
  <2>2. ASSUME NEW id \in Finished
        PROVE  s.index[id] \notin Pids
    <3>1. id \in ChildIds
      BY <2>1 DEF Row
    <3> QED
      BY <2>1, <3>1, ChildIndex, PidAssumption DEF AllPids
  <2>3. roots \cap Pids = {}
    BY <2>2
  <2>4. ApplyBackgroundActivity(s, p, background) = RemoveRows(s, roots)
    BY <1>2 DEF ApplyBackgroundActivity
  <2> HIDE DEF roots
  <2> QED
    BY <2>3, <2>4, RemoveChildrenKept
<1> QED
  BY <1>1, <1>2

\* References may be added under the id of a row of an agent.
LEMMA RegisterAliasKept ==
  ASSUME NEW s, Kept(s), NEW p \in Pids, NEW parent \in ProcIds,
         RowAt(s, p, parent), NEW name \in Names, NEW ref \in AgentIds
  PROVE  /\ Kept(RegisterChildAlias(s, parent, name, ref))
         /\ SamePids(s, RegisterChildAlias(s, parent, name, ref))
<1> DEFINE target == ChildIdFor(s, parent, ref)
           placeholder == ChildIdFor(s, parent, name)
           s1 == IF placeholder # target /\ SyntheticChild(s, placeholder)
                 THEN HandleRemove(s, placeholder) ELSE s
           t == [s1 EXCEPT !.refs[<<parent, name>>] = target,
                           !.refs[<<parent, ref>>] = target]
<1>1. placeholder \in ChildIds
  BY ChildIdType DEF Refs, Kept, Core
<1> HIDE DEF target, placeholder
<1>2. Kept(s1) /\ SamePids(s, s1)
  BY <1>1, HandleRemoveKept, SamePidsReflexive
<1>3. RegisterChildAlias(s, parent, name, ref) = t
  BY DEF RegisterChildAlias, target, placeholder
<1> HIDE DEF s1
<1>4. Good(t)
  <2>1. Good(RegisterChildAlias(s, parent, name, ref))
    BY RegisterAliasGood DEF Kept, Core
  <2> QED
    BY <1>3, <2>1
<1>5. /\ t.rows = s1.rows /\ t.index = s1.index /\ t.feed = s1.feed
      /\ t.ended = s1.ended
      /\ \A k \in ProcIds \X Refs : k[1] # parent => t.refs[k] = s1.refs[k]
  BY <1>2 DEF Kept, Core, Good, Typed, RegState
<1> HIDE DEF t
<1>6. Own(t) /\ Found(t) /\ Owned(t)
  BY <1>2, <1>5 DEF Kept, Core, Own, Found, Owned
<1>7. NoGhost(t) /\ Current(t)
  BY <1>2, <1>5 DEF Kept, Core, NoGhost, Current, RowAt
<1>8. RowAt(t, p, parent)
  BY <1>2, <1>5 DEF RowAt, SamePids
<1>9. Aliased(t)
  <2> SUFFICES ASSUME NEW k \in ProcIds \X Refs, t.refs[k] # NoId
               PROVE  \E q \in Pids : RowAt(t, q, k[1])
    BY DEF Aliased
  <2>1. CASE k[1] = parent
    BY <2>1, <1>8
  <2>2. CASE k[1] # parent
    <3>1. PICK q \in Pids : RowAt(s1, q, k[1])
      BY <2>2, <1>2, <1>5 DEF Kept, Aliased
    <3> QED
      BY <3>1, <1>5 DEF RowAt
  <2> QED
    BY <2>1, <2>2
<1>10. AllExclusive => Mutual(t)
  BY <1>2, <1>5 DEF Kept, Mutual, RowAt
<1>11. SamePids(s, t)
  BY <1>2, <1>5 DEF SamePids
<1> QED
  BY <1>3, <1>4, <1>6, <1>7, <1>9, <1>10, <1>11 DEF Kept, Core

LEMMA TrackKept ==
  ASSUME NEW s, Kept(s), NEW p \in Pids, NEW parent \in ProcIds,
         RowAt(s, p, parent), NEW e, EventOK(e)
  PROVE  /\ Kept(TrackChildren(s, p, parent, e))
         /\ SamePids(s, TrackChildren(s, p, parent, e))
<1> DEFINE s1 == IF e.alias = <<>> THEN s
                 ELSE RegisterChildAlias(s, parent, e.alias[1], e.alias[2])
           child == ChildIdFor(s1, parent, e.agent)
<1>1. Kept(s1) /\ SamePids(s, s1)
  BY RegisterAliasKept, SamePidsReflexive DEF EventOK
<1>2. TrackChildren(s, p, parent, e) =
        IF e.kind = "ChildSessionStart" THEN EnsureChildSession(s1, p, child)
        ELSE IF e.kind = "ChildSessionEnd" THEN HandleRemove(s1, child)
        ELSE s1
  BY DEF TrackChildren
<1> HIDE DEF s1
<1>3. e.kind \in {"ChildSessionStart", "ChildSessionEnd"} => child \in ChildIds
  BY <1>1, ChildIdType DEF EventOK, Kept, Core
<1> HIDE DEF child
<1>4. CASE e.kind = "ChildSessionStart"
  <2>1. /\ Kept(EnsureChildSession(s1, p, child))
        /\ SamePids(s1, EnsureChildSession(s1, p, child))
    BY <1>1, <1>3, <1>4, EnsureKept
  <2> QED
    BY <1>1, <1>2, <1>4, <2>1, SamePidsTransitive
<1>5. CASE e.kind = "ChildSessionEnd"
  <2>1. Kept(HandleRemove(s1, child)) /\ SamePids(s1, HandleRemove(s1, child))
    BY <1>1, <1>3, <1>5, HandleRemoveKept
  <2> QED
    BY <1>1, <1>2, <1>5, <2>1, SamePidsTransitive
<1>6. CASE e.kind \notin {"ChildSessionStart", "ChildSessionEnd"}
  BY <1>1, <1>2, <1>6
<1> QED
  BY <1>4, <1>5, <1>6

LEMMA RouteKept ==
  ASSUME NEW s, Kept(s), NEW p \in Pids, NEW parent \in ProcIds,
         NEW e, EventOK(e), e.child # NoId
  PROVE  /\ Kept(RouteToChild(s, p, parent, e))
         /\ SamePids(s, RouteToChild(s, p, parent, e))
<1> DEFINE id == ChildIdFor(s, parent, e.child)
           s1 == EnsureChildSession(s, p, id)
<1>1. id \in ChildIds
  BY ChildIdType DEF EventOK, Kept, Core
<1>2. RouteToChild(s, p, parent, e) =
        IF s1.index[id] = NoPid THEN s1
        ELSE ApplyToSession(s1, s1.index[id], e.effect)
  BY DEF RouteToChild
<1> HIDE DEF id
<1>3. Kept(s1) /\ SamePids(s, s1)
  BY <1>1, EnsureKept
<1> HIDE DEF s1
<1>4. CASE s1.index[id] = NoPid
  BY <1>2, <1>3, <1>4
<1>5. CASE s1.index[id] # NoPid
  <2>1. s1.index[id] \in AllPids
    BY <1>1, <1>3, <1>5, ChildIndex DEF Kept, Core, AllPids
  <2>2. /\ Kept(ApplyToSession(s1, s1.index[id], e.effect))
        /\ SamePids(s1, ApplyToSession(s1, s1.index[id], e.effect))
    BY <1>3, <2>1, ApplyKept DEF EventOK
  <2> QED
    BY <1>2, <1>3, <1>5, <2>2, SamePidsTransitive
<1> QED
  BY <1>4, <1>5

LEMMA ApplyEventKept ==
  ASSUME NEW s, Kept(s), NEW p \in Pids, s.rows[p] # NoRow, NEW e, EventOK(e)
  PROVE  /\ Kept(ApplyEvent(s, p, e))
         /\ SamePids(s, ApplyEvent(s, p, e))
<1> DEFINE parent == s.rows[p].id
           s1 == TrackChildren(s, p, parent, e)
           s2 == ApplyToSession(s1, p, e.effect)
<1>1. parent \in ProcIds /\ p \in AllPids /\ RowAt(s, p, parent)
  BY DEF Kept, Core, Good, Typed, AllPids, RowAt
<1>2. ApplyEvent(s, p, e) =
        IF e.child # NoId THEN RouteToChild(s1, p, parent, e)
        ELSE ApplyBackgroundActivity(s2, p, e.background)
  BY DEF ApplyEvent
<1> HIDE DEF parent
<1>3. Kept(s1) /\ SamePids(s, s1)
  BY <1>1, TrackKept
<1> HIDE DEF s1
<1>4. CASE e.child # NoId
  <2>1. /\ Kept(RouteToChild(s1, p, parent, e))
        /\ SamePids(s1, RouteToChild(s1, p, parent, e))
    BY <1>1, <1>3, <1>4, RouteKept
  <2> QED
    BY <1>2, <1>3, <1>4, <2>1, SamePidsTransitive
<1>5. CASE e.child = NoId
  <2>1. Kept(s2) /\ SamePids(s1, s2)
    BY <1>1, <1>3, ApplyKept DEF EventOK
  <2> HIDE DEF s2
  <2>2. /\ Kept(ApplyBackgroundActivity(s2, p, e.background))
        /\ SamePids(s2, ApplyBackgroundActivity(s2, p, e.background))
    BY <2>1, BackgroundKept
  <2>3. SamePids(s, s2)
    BY <1>3, <2>1, SamePidsTransitive
  <2> QED
    BY <1>2, <1>5, <2>2, <2>3, SamePidsTransitive
<1> QED
  BY <1>4, <1>5

-----------------------------------------------------------------------------
(* New rows *)

\* A row may be made under an id that its pid reports, or its pending id.
LEMMA InsertKept ==
  ASSUME NEW s, Kept(s), ~Full(s), NEW p \in Pids, s.rows[p] = NoRow,
         NEW row, RowFits(p, row), row.children = {},
         row.id \in Reports[p] \cup {pendingId[p]}
  PROVE  /\ Kept(InsertNewSession(s, p, row))
         /\ InsertNewSession(s, p, row).rows[p] = row /\ row # NoRow
         /\ InsertNewSession(s, p, row).ended = s.ended
         /\ \A q \in Pids \ {p} :
              InsertNewSession(s, p, row).rows[q] = s.rows[q]
<1> DEFINE t == InsertNewSession(s, p, row)
           id == row.id
<1>1. /\ Good(s) /\ Own(s) /\ Found(s) /\ Owned(s) /\ NoGhost(s) /\ Current(s)
      /\ Typed(s) /\ Aliased(s)
  BY DEF Kept, Core, Good
<1>2. \A q : q \in Pids \/ q \in SyntheticPids => q \in AllPids
  BY DEF AllPids
<1>3. p \in AllPids /\ row # NoRow /\ id \in SessionIds /\ id \in ProcIds
  BY <1>2, NullNotRow DEF RowFits, Row
<1>4. Good(t) /\ t.rows = [s.rows EXCEPT ![p] = row]
  BY <1>1, <1>3, InsertGood
<1>5. /\ t.index = [s.index EXCEPT ![id] = p] /\ t.feed = s.feed
      /\ t.refs = s.refs /\ t.ended = s.ended
  BY <1>1 DEF InsertNewSession, Good, Typed, RegState
<1>6. t.rows[p] = row /\ \A q \in AllPids \ {p} : t.rows[q] = s.rows[q]
  BY <1>1, <1>3, <1>4 DEF Good, Typed, RegState
<1>7. t.index[id] = p /\ \A i \in SessionIds \ {id} : t.index[i] = s.index[i]
  BY <1>1, <1>3, <1>5 DEF Good, Typed, RegState
<1> HIDE DEF t
<1>8. ASSUME Exclusive(id), NEW q \in AllPids, RowAt(s, q, id)
      PROVE  FALSE
  <2>1. q = p
    BY <1>1, <1>3, <1>8, OnlyHolder DEF id
  <2> QED
    BY <1>8, <2>1 DEF RowAt
<1> HIDE DEF id
<1>9. \A q \in AllPids : s.rows[q] # NoRow => q # p /\ t.rows[q] = s.rows[q]
  BY <1>6
<1>10. \A q \in AllPids : t.rows[q] # NoRow /\ q # p => t.rows[q] = s.rows[q]
  BY <1>6
<1>11. Own(t)
  BY <1>1, <1>2, <1>6 DEF Own, id
<1>12. Found(t)
  <2> SUFFICES ASSUME NEW q \in AllPids, t.rows[q] # NoRow,
                      Exclusive(t.rows[q].id)
               PROVE  t.index[t.rows[q].id] = q
    BY DEF Found
  <2>1. CASE q = p
    BY <2>1, <1>6, <1>7 DEF id
  <2>2. CASE q # p
    <3>1. s.rows[q] # NoRow /\ t.rows[q] = s.rows[q]
      BY <2>2, <1>6
    <3>2. s.rows[q].id # id
      BY <1>8, <3>1 DEF RowAt
    <3>3. s.rows[q].id \in SessionIds
      BY <1>1, <3>1, HolderKind
    <3> QED
      BY <1>1, <1>7, <3>1, <3>2, <3>3 DEF Found
  <2> QED
    BY <2>1, <2>2
<1>13. Owned(t)
  <2> SUFFICES ASSUME NEW c \in SyntheticPids, t.rows[c] # NoRow
               PROVE  \E q \in Pids : /\ t.rows[q] # NoRow
                                      /\ t.rows[c].id \in t.rows[q].children
    BY DEF Owned
  <2>1. t.rows[c] = s.rows[c]
    BY <1>2, <1>10, PidAssumption
  <2>2. PICK q \in Pids : s.rows[q] # NoRow /\ s.rows[c].id \in s.rows[q].children
    BY <1>1, <2>1 DEF Owned
  <2> QED
    BY <1>2, <1>9, <2>1, <2>2
<1>14. NoGhost(t)
  BY <1>1, <1>5, <1>9 DEF NoGhost, RowAt
<1>15. Current(t)
  <2> SUFFICES ASSUME NEW q \in AllPids, t.rows[q] # NoRow,
                      Exclusive(t.rows[q].id), t.feed[t.rows[q].id] # NoView
               PROVE  t.feed[t.rows[q].id] = ViewOf(t.rows[q])
    BY DEF Current
  <2>1. q # p
    <3> SUFFICES ASSUME q = p PROVE FALSE
      OBVIOUS
    <3>1. s.feed[id] # NoView /\ Exclusive(id)
      BY <1>5, <1>6 DEF id
    <3>2. PICK r \in AllPids : RowAt(s, r, id)
      BY <1>1, <1>3, <3>1 DEF NoGhost
    <3> QED
      BY <1>8, <3>1, <3>2
  <2> QED
    BY <1>1, <1>5, <1>6, <2>1 DEF Current
<1>16. Aliased(t)
  BY <1>1, <1>2, <1>5, <1>9 DEF Aliased, RowAt
<1>17. ASSUME AllExclusive
       PROVE  Mutual(t)
  <2> SUFFICES ASSUME NEW q \in Pids, t.rows[q] # NoRow,
                      NEW i \in t.rows[q].children
               PROVE  \E c \in SyntheticPids :
                        RowAt(t, c, i) /\ t.rows[c].parent = t.rows[q].id
    BY DEF Mutual
  <2>1. q # p /\ t.rows[q] = s.rows[q]
    BY <1>2, <1>6
  <2>2. PICK c \in SyntheticPids :
          RowAt(s, c, i) /\ s.rows[c].parent = s.rows[q].id
    BY <1>17, <2>1 DEF Kept, Mutual
  <2> QED
    BY <1>2, <1>9, <2>1, <2>2 DEF RowAt
<1>18. Kept(t)
  BY <1>4, <1>11, <1>12, <1>13, <1>14, <1>15, <1>16, <1>17 DEF Kept, Core
<1> QED
  BY <1>2, <1>3, <1>5, <1>6, <1>18 DEF t

-----------------------------------------------------------------------------
(* Renaming sessions *)

\* What renaming links from old to new changes when no row has old any more.
Relinked(s, t, old, new) ==
  /\ t.ended = s.ended /\ t.index = s.index
  /\ \A p \in AllPids : (t.rows[p] = NoRow) <=> (s.rows[p] = NoRow)
  /\ \A p \in AllPids :
       s.rows[p] # NoRow =>
         /\ t.rows[p].id = s.rows[p].id
         /\ t.rows[p].children = s.rows[p].children
         /\ t.rows[p].parent = Renamed(s.rows[p].parent, old, new)
  /\ \A k \in ProcIds \X Refs :
       t.refs[k] # NoId => k[1] # old /\ (k[1] = new \/ s.refs[k] # NoId)
  /\ \A i \in SessionIds :
       \/ \E p \in AllPids : RowAt(s, p, i) /\ t.feed[i] = ViewOf(t.rows[p])
       \/ /\ t.feed[i] = s.feed[i]
          /\ \A p \in AllPids : RowAt(s, p, i) => t.rows[p] = s.rows[p]

LEMMA RenameParts ==
  ASSUME NEW s, Typed(s), NEW old \in ProcIds, NEW new \in ProcIds, NEW tie,
         \A p \in AllPids : ~RowAt(s, p, old)
  PROVE  Relinked(s, RenameLinks(s, old, new, tie), old, new)
<1> DEFINE Linked == {p \in Held(s) :
                        old = s.rows[p].parent \/ old \in s.rows[p].children}
           rows == [p \in AllPids |-> IF p \in Linked
                                       THEN Relink(s.rows[p], old, new)
                                       ELSE s.rows[p]]
           Shown(id) == {p \in Linked : rows[p].id = id}
           refs == RenameRefs(s.refs, old, new, tie)
           shown == [id \in SessionIds |->
                       IF Shown(id) = {} THEN s.feed[id]
                       ELSE ViewOf(rows[CHOOSE p \in Shown(id) : TRUE])]
           t == RenameLinks(s, old, new, tie)
<1>1. ~\E p \in Held(s) : s.rows[p].id = old
  BY DEF Held, RowAt
<1>2. t = [s EXCEPT !.rows = rows, !.refs = refs, !.feed = shown]
  BY <1>1 DEF RenameLinks
<1> HIDE DEF t
<1>3. /\ t.rows = rows /\ t.refs = refs /\ t.feed = shown
      /\ t.index = s.index /\ t.ended = s.ended
  BY <1>2 DEF Typed, RegState
<1>4. SameShape(s, t)
  BY RenameLinksShape DEF t
<1>5. ASSUME NEW p \in AllPids, s.rows[p] # NoRow
      PROVE  /\ t.rows[p].id = s.rows[p].id
             /\ t.rows[p].children = s.rows[p].children
             /\ t.rows[p].parent = Renamed(s.rows[p].parent, old, new)
  <2> DEFINE row == s.rows[p]
  <2>1. row \in Row
    BY <1>5, HolderKind
  <2>2. CASE p \in Linked
    <3>1. {Renamed(c, old, new) : c \in row.children} = row.children
      <4>1. \A c \in row.children : Renamed(c, old, new) = c
        BY <2>1, IdAssumption DEF Row, Renamed
      <4> QED
        BY <4>1
    <3>2. t.rows[p] = Relink(row, old, new)
      BY <1>3, <2>2
    <3> HIDE DEF row
    <3>3. Relink(row, old, new) =
            [row EXCEPT !.parent = Renamed(row.parent, old, new),
                        !.children = row.children]
      BY <2>1, <3>1 DEF Relink, Row
    <3> QED
      BY <2>1, <3>2, <3>3 DEF Row, row
  <2>3. CASE p \notin Linked
    <3>1. t.rows[p] = row
      BY <1>3, <2>3
    <3>2. row.parent # old
      BY <1>5, <2>3 DEF Held
    <3> QED
      BY <3>1, <3>2 DEF Renamed
  <2> QED
    BY <2>2, <2>3
<1> HIDE DEF rows
<1>6. ASSUME NEW k \in ProcIds \X Refs, t.refs[k] # NoId
      PROVE  k[1] # old /\ (k[1] = new \/ s.refs[k] # NoId)
  <2>1. refs[k] # NoId
    BY <1>3, <1>6
  <2>2. Renamed(NoId, old, new) = NoId
    BY IdAssumption DEF Renamed, SessionIds
  <2> QED
    BY <2>1, <2>2 DEF RenameRefs
<1>7. ASSUME NEW i \in SessionIds
      PROVE  \/ \E p \in AllPids : RowAt(s, p, i) /\ t.feed[i] = ViewOf(t.rows[p])
             \/ /\ t.feed[i] = s.feed[i]
                /\ \A p \in AllPids : RowAt(s, p, i) => t.rows[p] = s.rows[p]
  <2>1. CASE Shown(i) = {}
    <3>1. t.feed[i] = s.feed[i]
      BY <1>3, <2>1
    <3>2. ASSUME NEW p \in AllPids, RowAt(s, p, i)
          PROVE  t.rows[p] = s.rows[p]
      <4>1. rows[p].id = i
        BY <1>3, <1>5, <3>2 DEF RowAt
      <4>2. p \notin Linked
        BY <2>1, <4>1
      <4> QED
        BY <1>3, <4>2 DEF rows
    <3> QED
      BY <3>1, <3>2
  <2>2. CASE Shown(i) # {}
    <3> DEFINE q == CHOOSE p \in Shown(i) : TRUE
    <3>1. q \in Shown(i)
      BY <2>2
    <3>2. shown[i] = ViewOf(rows[q])
      BY <2>2
    <3> HIDE DEF q, shown
    <3>3. q \in AllPids /\ s.rows[q] # NoRow /\ t.rows[q].id = i
      BY <1>3, <3>1 DEF Held
    <3>4. RowAt(s, q, i)
      BY <1>5, <3>3 DEF RowAt
    <3>5. t.feed[i] = ViewOf(t.rows[q])
      BY <1>3, <3>2
    <3> QED
      BY <3>3, <3>4, <3>5
  <2> QED
    BY <2>1, <2>2
<1> HIDE DEF refs, shown
<1>8. \A p \in AllPids : (t.rows[p] = NoRow) <=> (s.rows[p] = NoRow)
  BY <1>4 DEF SameShape
<1> QED
  BY <1>3, <1>5, <1>6, <1>7, <1>8 DEF Relinked, t

LEMMA RelinkedCore ==
  ASSUME NEW s, Core(s), NEW t, Good(t), NEW old \in ProcIds,
         NEW new \in ProcIds, Relinked(s, t, old, new)
  PROVE  Core(t) /\ SamePids(s, t)
<1>1. /\ Good(s) /\ Own(s) /\ Found(s) /\ Owned(s) /\ NoGhost(s) /\ Current(s)
      /\ Typed(s)
  BY DEF Core, Good
<1>2. \A q \in AllPids :
        /\ (t.rows[q] = NoRow) <=> (s.rows[q] = NoRow)
        /\ s.rows[q] # NoRow => /\ t.rows[q].id = s.rows[q].id
                                /\ t.rows[q].children = s.rows[q].children
  BY DEF Relinked
<1>3. \A q : q \in Pids \/ q \in SyntheticPids => q \in AllPids
  BY DEF AllPids
<1>4. Own(t)
  BY <1>1, <1>2, <1>3 DEF Own
<1>5. Found(t)
  BY <1>1, <1>2 DEF Found, Relinked
<1>6. Owned(t)
  <2> SUFFICES ASSUME NEW c \in SyntheticPids, t.rows[c] # NoRow
               PROVE  \E q \in Pids : /\ t.rows[q] # NoRow
                                      /\ t.rows[c].id \in t.rows[q].children
    BY DEF Owned
  <2>1. s.rows[c] # NoRow /\ t.rows[c].id = s.rows[c].id
    BY <1>2, <1>3
  <2>2. PICK q \in Pids : s.rows[q] # NoRow /\ s.rows[c].id \in s.rows[q].children
    BY <1>1, <2>1 DEF Owned
  <2> QED
    BY <1>2, <1>3, <2>1, <2>2
<1>7. NoGhost(t)
  <2> SUFFICES ASSUME NEW i \in SessionIds, t.feed[i] # NoView
               PROVE  \E q \in AllPids : RowAt(t, q, i)
    BY DEF NoGhost
  <2>1. PICK q \in AllPids : RowAt(s, q, i)
    BY <1>1 DEF Relinked, NoGhost
  <2> QED
    BY <1>2, <2>1 DEF RowAt
<1>8. Current(t)
  <2> SUFFICES ASSUME NEW q \in AllPids, t.rows[q] # NoRow,
                      Exclusive(t.rows[q].id), t.feed[t.rows[q].id] # NoView
               PROVE  t.feed[t.rows[q].id] = ViewOf(t.rows[q])
    BY DEF Current
  <2> DEFINE i == t.rows[q].id
  <2>1. s.rows[q] # NoRow /\ i = s.rows[q].id /\ i \in SessionIds
    BY <1>1, <1>2, HolderKind
  <2>2. RowAt(s, q, i)
    BY <2>1 DEF RowAt
  <2> HIDE DEF i
  <2>3. CASE \E p \in AllPids : RowAt(s, p, i) /\ t.feed[i] = ViewOf(t.rows[p])
    <3>1. PICK p \in AllPids : RowAt(s, p, i) /\ t.feed[i] = ViewOf(t.rows[p])
      BY <2>3
    <3>2. p = q
      BY <1>1, <2>1, <3>1, OneHolder DEF RowAt, i
    <3> QED
      BY <3>1, <3>2 DEF i
  <2>4. CASE t.feed[i] = s.feed[i] /\ t.rows[q] = s.rows[q]
    BY <1>1, <2>1, <2>4 DEF Current, i
  <2> QED
    BY <2>1, <2>2, <2>3, <2>4 DEF Relinked
<1>9. SamePids(s, t)
  <2>1. t.ended = s.ended
    BY DEF Relinked
  <2> QED
    BY <1>2, <1>3, <2>1 DEF SamePids
<1> QED
  BY <1>4, <1>5, <1>6, <1>7, <1>8, <1>9 DEF Core

\* The row of p has the id new; nothing else that names old is touched yet.
Retagged(s, u, p, new) ==
  /\ u.ended = s.ended /\ u.refs = s.refs
  /\ u.rows[p] # NoRow /\ u.rows[p].id = new
  /\ u.rows[p].children = s.rows[p].children
  /\ \A q \in AllPids \ {p} : u.rows[q] = s.rows[q]
  /\ u.index[new] = p
  /\ \A i \in SessionIds \ {new} : s.index[i] # p => u.index[i] = s.index[i]
  /\ u.feed[s.rows[p].id] = NoView
  /\ \A i \in SessionIds \ {s.rows[p].id} : u.feed[i] = s.feed[i]

LEMMA RetagParts ==
  ASSUME NEW s, Good(s), NEW p \in Pids, s.rows[p] # NoRow, NEW new \in ProcIds,
         NEW u, u = PublishRemoved(
                      [Unindex([s EXCEPT !.rows[p].id = new], s.rows[p].id, p)
                         EXCEPT !.index[new] = p], s.rows[p].id)
  PROVE  Good(u) /\ Retagged(s, u, p, new)
<1> DEFINE old == s.rows[p].id
           row == [s.rows[p] EXCEPT !.id = new]
           s0 == [s EXCEPT !.rows[p].id = new]
           s1 == Unindex(s0, old, p)
           s2 == [s1 EXCEPT !.index[new] = p]
<1>1. p \in AllPids
  BY DEF AllPids
<1>2. /\ s.rows[p] \in Row /\ old \in SessionIds /\ new \in SessionIds
      /\ old \in ProcIds
  BY <1>1, HolderKind DEF Good, SessionIds
<1>3. Good(u)
  <2>1. Good(s2)
    BY RetitleRow, ReindexGood
  <2> HIDE DEF s2
  <2> QED
    BY <1>2, <2>1, PublishRemovedGood DEF s2
<1>4. row \in Row /\ row # NoRow /\ row.id = new
      /\ row.children = s.rows[p].children
  BY <1>2, NullNotRow DEF Row, SessionIds
<1> HIDE DEF row
<1>5. /\ s0.rows = [s.rows EXCEPT ![p] = row] /\ s0.index = s.index
      /\ s0.refs = s.refs /\ s0.ended = s.ended /\ s0.feed = s.feed
  BY DEF Good, Typed, RegState, row
<1> HIDE DEF s0
<1>6. /\ s1.rows = s0.rows /\ s1.refs = s0.refs /\ s1.ended = s0.ended
      /\ s1.feed = s0.feed
  BY DEF Unindex, s0
<1>7. \A i \in SessionIds :
        s1.index[i] = IF i = old /\ s.index[i] = p THEN NoPid ELSE s.index[i]
  BY <1>5 DEF Unindex, s0, Good, Typed, RegState
<1>8. s1.index \in [SessionIds -> AllPids \cup {NoPid}]
  BY <1>5 DEF Unindex, s0, Good, Typed, RegState
<1>9. /\ s2.rows = s1.rows /\ s2.refs = s1.refs /\ s2.ended = s1.ended
      /\ s2.feed = s1.feed /\ s2.index = [s1.index EXCEPT ![new] = p]
  BY DEF Unindex, s0, Good, Typed, RegState
<1> HIDE DEF s1
<1>10. /\ u.rows = s2.rows /\ u.refs = s2.refs /\ u.ended = s2.ended
       /\ u.index = s2.index /\ u.feed = [s2.feed EXCEPT ![old] = NoView]
  BY DEF PublishRemoved, s1, Unindex, s0, Good, Typed, RegState
<1> HIDE DEF s2
<1>11. u.rows[p] = row /\ \A q \in AllPids \ {p} : u.rows[q] = s.rows[q]
  <2>1. s.rows \in [AllPids -> Row \cup {NoRow}]
    BY DEF Good, Typed, RegState
  <2>2. u.rows = [s.rows EXCEPT ![p] = row]
    BY <1>5, <1>6, <1>9, <1>10
  <2> QED
    BY <1>1, <2>1, <2>2
<1>12. u.index[new] = p
       /\ \A i \in SessionIds \ {new} : u.index[i] = s1.index[i]
  BY <1>2, <1>8, <1>9, <1>10
<1>13. u.feed[old] = NoView /\ \A i \in SessionIds \ {old} : u.feed[i] = s.feed[i]
  <2>1. s.feed \in [SessionIds -> View \cup {NoView}]
    BY DEF Good, Typed, RegState
  <2>2. u.feed = [s.feed EXCEPT ![old] = NoView]
    BY <1>5, <1>6, <1>9, <1>10
  <2> HIDE DEF old
  <2> QED
    BY <1>2, <2>1, <2>2
<1>14. u.ended = s.ended /\ u.refs = s.refs
  BY <1>5, <1>6, <1>9, <1>10
<1> HIDE DEF old
<1> QED
  BY <1>3, <1>4, <1>7, <1>11, <1>12, <1>13, <1>14 DEF Retagged, old

LEMMA RetagCore ==
  ASSUME NEW s, Core(s), NEW u, Good(u), NEW p \in Pids, s.rows[p] # NoRow,
         NEW new \in Reports[p], s.rows[p].id # new, Retagged(s, u, p, new)
  PROVE  Core(u)
<1> DEFINE old == s.rows[p].id
<1>1. /\ Good(s) /\ Own(s) /\ Found(s) /\ Owned(s) /\ NoGhost(s) /\ Current(s)
      /\ Typed(s)
  BY DEF Core, Good
<1>2. /\ p \in AllPids /\ new \in RealIds /\ new \in ProcIds /\ new \in SessionIds
      /\ new \notin ChildIds
  BY BoundAssumption, IdAssumption DEF AllPids, ProcIds, SessionIds
<1>3. old \in ProcIds /\ old \in SessionIds
  BY <1>1, <1>2, HolderKind
<1>4. \A q \in AllPids : (u.rows[q] = NoRow) <=> (s.rows[q] = NoRow)
  BY DEF Retagged
<1>5. \A q \in AllPids : s.rows[q] # NoRow =>
        u.rows[q].children = s.rows[q].children
  BY DEF Retagged
<1>6. ASSUME Exclusive(new), NEW q \in AllPids, RowAt(s, q, new)
      PROVE  FALSE
  <2>1. q = p
    BY <1>1, <1>2, <1>6, OnlyHolder
  <2> QED
    BY <1>6, <2>1 DEF RowAt
<1>7. Own(u)
  <2> SUFFICES ASSUME NEW q \in Pids, u.rows[q] # NoRow
               PROVE  u.rows[q].id \in Reports[q] \cup {pendingId[q]}
    BY DEF Own
  <2>1. CASE q = p
    BY <2>1 DEF Retagged
  <2>2. CASE q # p
    <3>1. u.rows[q] = s.rows[q]
      BY <2>2 DEF Retagged, AllPids
    <3> QED
      BY <1>1, <3>1 DEF Own
  <2> QED
    BY <2>1, <2>2
<1>8. Found(u)
  <2> SUFFICES ASSUME NEW q \in AllPids, u.rows[q] # NoRow,
                      Exclusive(u.rows[q].id)
               PROVE  u.index[u.rows[q].id] = q
    BY DEF Found
  <2>1. CASE q = p
    BY <2>1 DEF Retagged
  <2>2. CASE q # p
    <3>1. u.rows[q] = s.rows[q]
      BY <2>2 DEF Retagged
    <3>2. s.rows[q].id # new
      BY <1>6, <3>1 DEF RowAt
    <3>3. s.index[s.rows[q].id] = q /\ s.rows[q].id \in SessionIds
      BY <1>1, <3>1, HolderKind DEF Found
    <3> QED
      BY <2>2, <3>1, <3>2, <3>3 DEF Retagged
  <2> QED
    BY <2>1, <2>2
<1>9. Owned(u)
  <2> SUFFICES ASSUME NEW c \in SyntheticPids, u.rows[c] # NoRow
               PROVE  \E q \in Pids : /\ u.rows[q] # NoRow
                                      /\ u.rows[c].id \in u.rows[q].children
    BY DEF Owned
  <2>1. c \in AllPids /\ c # p
    BY PidAssumption DEF AllPids
  <2>2. u.rows[c] = s.rows[c]
    BY <2>1 DEF Retagged
  <2>3. PICK q \in Pids : s.rows[q] # NoRow /\ s.rows[c].id \in s.rows[q].children
    BY <1>1, <2>2 DEF Owned
  <2>4. q \in AllPids
    BY DEF AllPids
  <2> QED
    BY <1>4, <1>5, <2>2, <2>3, <2>4
<1>10. NoGhost(u)
  <2> SUFFICES ASSUME NEW i \in SessionIds, u.feed[i] # NoView
               PROVE  \E q \in AllPids : RowAt(u, q, i)
    BY DEF NoGhost
  <2>1. i # old /\ s.feed[i] # NoView
    BY <1>3 DEF Retagged
  <2>2. PICK q \in AllPids : RowAt(s, q, i)
    BY <1>1, <2>1 DEF NoGhost
  <2>3. q # p
    BY <2>1, <2>2 DEF RowAt
  <2> QED
    BY <2>2, <2>3 DEF RowAt, Retagged
<1>11. Current(u)
  <2> SUFFICES ASSUME NEW q \in AllPids, u.rows[q] # NoRow,
                      Exclusive(u.rows[q].id), u.feed[u.rows[q].id] # NoView
               PROVE  u.feed[u.rows[q].id] = ViewOf(u.rows[q])
    BY DEF Current
  <2>1. q # p
    <3> SUFFICES ASSUME q = p PROVE FALSE
      OBVIOUS
    <3>1. u.rows[q].id = new
      BY DEF Retagged
    <3>2. s.feed[new] # NoView
      BY <1>2, <3>1 DEF Retagged
    <3>3. PICK r \in AllPids : RowAt(s, r, new)
      BY <1>1, <1>2, <3>2 DEF NoGhost
    <3> QED
      BY <1>6, <3>1, <3>3
  <2>2. u.rows[q] = s.rows[q]
    BY <2>1 DEF Retagged
  <2>3. s.rows[q].id \in SessionIds
    BY <1>1, <2>2, HolderKind
  <2>4. u.feed[s.rows[q].id] = s.feed[s.rows[q].id]
    BY <2>2, <2>3 DEF Retagged
  <2> QED
    BY <1>1, <2>2, <2>4 DEF Current
<1> QED
  BY <1>7, <1>8, <1>9, <1>10, <1>11 DEF Core

\* A row takes an id that its pid reports; other agents' rows stay.
LEMMA ReconcileKept ==
  ASSUME NEW s, Kept(s), NEW p \in Pids, s.rows[p] # NoRow,
         NEW new \in Reports[p], s.rows[p].id # new, NEW tie,
         NEW t, t = ReconcileSessionId(s, p, new, tie)
  PROVE  /\ Kept(t) /\ RowAt(t, p, new) /\ t.ended = s.ended
         /\ \A q \in Pids \ {p} :
              /\ (t.rows[q] = NoRow) <=> (s.rows[q] = NoRow)
              /\ s.rows[q] # NoRow => t.rows[q].id = s.rows[q].id
<1> DEFINE old == s.rows[p].id
           u == PublishRemoved(
                  [Unindex([s EXCEPT !.rows[p].id = new], old, p)
                     EXCEPT !.index[new] = p], old)
<1>1. /\ Core(s) /\ Good(s) /\ Found(s) /\ Typed(s) /\ Aliased(s)
  BY DEF Kept, Core, Good
<1>2. p \in AllPids /\ new \in RealIds /\ new \in ProcIds
  BY BoundAssumption DEF AllPids, ProcIds
<1>3. old \in ProcIds /\ old # new
  BY <1>1, <1>2, HolderKind
<1>4. t = RenameLinks(u, old, new, tie)
  BY DEF ReconcileSessionId
<1>5. Good(u) /\ Retagged(s, u, p, new)
  BY <1>1, <1>2, RetagParts
<1> HIDE DEF u
<1>6. Core(u) /\ Typed(u)
  BY <1>1, <1>5, RetagCore DEF Good
<1>7. Good(t)
  BY <1>1, <1>2, ReconcileGood
<1>8. \A q : q \in Pids \/ q \in SyntheticPids => q \in AllPids
  BY DEF AllPids
<1>9. /\ RowAt(u, p, new) /\ u.ended = s.ended /\ u.refs = s.refs
      /\ \A q \in AllPids \ {p} : u.rows[q] = s.rows[q]
      /\ u.rows[p].children = s.rows[p].children
  BY <1>5 DEF Retagged, RowAt
<1>10. CASE \E q \in AllPids : RowAt(u, q, old)
  <2>1. PICK q \in AllPids : RowAt(u, q, old)
    BY <1>10
  <2>2. q # p /\ RowAt(s, q, old) /\ q \in Pids
    <3>1. q # p
      BY <1>3, <1>9, <2>1 DEF RowAt
    <3>2. RowAt(s, q, old)
      BY <1>9, <2>1, <3>1 DEF RowAt
    <3> HIDE DEF old
    <3> QED
      BY <1>1, <1>3, <2>1, <3>1, <3>2, HolderKind DEF RowAt
  <2>3. t = u
    <3>1. q \in Held(u) /\ u.rows[q].id = old
      BY <2>1 DEF Held, RowAt
    <3> QED
      BY <1>4, <3>1 DEF RenameLinks
  <2>4. Aliased(u)
    <3> SUFFICES ASSUME NEW k \in ProcIds \X Refs, u.refs[k] # NoId
                 PROVE  \E r \in Pids : RowAt(u, r, k[1])
      BY DEF Aliased
    <3>1. PICK r \in Pids : RowAt(s, r, k[1])
      BY <1>1, <1>9 DEF Aliased
    <3>2. CASE r = p
      BY <2>1, <2>2, <3>1, <3>2 DEF RowAt
    <3>3. CASE r # p
      BY <1>8, <1>9, <3>1, <3>3 DEF RowAt
    <3> QED
      BY <3>2, <3>3
  <2>5. ~AllExclusive
    <3> SUFFICES ASSUME AllExclusive PROVE FALSE
      OBVIOUS
    <3>1. Exclusive(old)
      BY <1>3, AllProcExclusive
    <3> QED
      BY <1>1, <1>2, <2>1, <2>2, <3>1, OneHolder DEF RowAt
  <2>6. Kept(t)
    BY <1>6, <2>3, <2>4, <2>5 DEF Kept
  <2> QED
    BY <1>8, <1>9, <2>3, <2>6
<1>11. CASE \A q \in AllPids : ~RowAt(u, q, old)
  <2>1. Relinked(u, t, old, new)
    BY <1>2, <1>3, <1>4, <1>6, <1>11, RenameParts
  <2>2. Core(t) /\ SamePids(u, t)
    BY <1>2, <1>3, <1>6, <1>7, <2>1, RelinkedCore
  <2>3. RowAt(t, p, new)
    BY <1>9, <2>2 DEF SamePids, RowAt
  <2>4. \A q \in Pids \ {p} : RowAt(s, q, s.rows[q].id) =>
          RowAt(t, q, s.rows[q].id)
    BY <1>8, <1>9, <2>2 DEF SamePids, RowAt
  <2>5. Aliased(t)
    <3> SUFFICES ASSUME NEW k \in ProcIds \X Refs, t.refs[k] # NoId
                 PROVE  \E r \in Pids : RowAt(t, r, k[1])
      BY DEF Aliased
    <3>1. k[1] # old /\ (k[1] = new \/ s.refs[k] # NoId)
      BY <1>9, <2>1 DEF Relinked
    <3>2. CASE k[1] = new
      BY <2>3, <3>2
    <3>3. CASE s.refs[k] # NoId
      <4>1. PICK r \in Pids : RowAt(s, r, k[1])
        BY <1>1, <3>3 DEF Aliased
      <4>2. r # p
        BY <3>1, <4>1 DEF RowAt
      <4> QED
        BY <2>4, <4>1, <4>2 DEF RowAt
    <3> QED
      BY <3>1, <3>2, <3>3
  <2>6. ASSUME AllExclusive
        PROVE  Mutual(t)
    <3> SUFFICES ASSUME NEW q \in Pids, t.rows[q] # NoRow,
                        NEW i \in t.rows[q].children
                 PROVE  \E c \in SyntheticPids :
                          RowAt(t, c, i) /\ t.rows[c].parent = t.rows[q].id
      BY DEF Mutual
    <3>1. u.rows[q] # NoRow /\ q \in AllPids
      BY <1>8, <2>2 DEF SamePids
    <3>2. s.rows[q] # NoRow /\ i \in s.rows[q].children
      <4>1. t.rows[q].children = u.rows[q].children
        BY <2>1, <3>1 DEF Relinked
      <4> QED
        BY <1>9, <3>1, <4>1
    <3>3. PICK c \in SyntheticPids :
            RowAt(s, c, i) /\ s.rows[c].parent = s.rows[q].id
      BY <2>6, <3>2 DEF Kept, Mutual
    <3>4. c \in AllPids /\ c # p
      BY <1>8, PidAssumption
    <3>5. u.rows[c] = s.rows[c] /\ u.rows[c] # NoRow
      BY <1>9, <3>3, <3>4 DEF RowAt
    <3>6. RowAt(t, c, i) /\ t.rows[c].parent = Renamed(s.rows[q].id, old, new)
      BY <2>1, <3>3, <3>4, <3>5 DEF Relinked, RowAt
    <3>7. t.rows[q].id = Renamed(s.rows[q].id, old, new)
      <4>1. CASE q = p
        BY <2>3, <4>1 DEF Renamed, RowAt
      <4>2. CASE q # p
        <5>1. s.rows[q].id # old
          BY <1>9, <1>11, <3>1, <3>2, <4>2 DEF RowAt
        <5>2. t.rows[q].id = s.rows[q].id
          BY <2>4, <3>2, <4>2 DEF RowAt
        <5> QED
          BY <5>1, <5>2 DEF Renamed
      <4> QED
        BY <4>1, <4>2
    <3> QED
      BY <3>6, <3>7
  <2>7. Kept(t)
    BY <2>2, <2>5, <2>6 DEF Kept
  <2> QED
    BY <1>8, <1>9, <2>2, <2>3, <2>7 DEF SamePids
<1> QED
  BY <1>10, <1>11

-----------------------------------------------------------------------------
(* Commands: what they keep, and what they may do to the rows of real pids *)

\* RealIdsStay and EndsRecorded, of the states around a command.
KeepsReal(s, t) ==
  \A p \in Pids :
    /\ s.rows[p] # NoRow /\ s.rows[p].id \in RealIds /\ t.rows[p] # NoRow
    => t.rows[p].id \in RealIds

MarksEnds(s, t) ==
  \A p \in Pids :
    /\ s.rows[p] # NoRow /\ t.rows[p] = NoRow /\ IsProcessAlive(s.rows[p], p)
    => \E id \in ProcIds : <<id, p>> \in t.ended

Moves(s, t) == Kept(t) /\ KeepsReal(s, t) /\ MarksEnds(s, t)

LEMMA SameMoves ==
  ASSUME NEW s, NEW t, Kept(t), SamePids(s, t)
  PROVE  Moves(s, t)
  BY DEF Moves, SamePids, KeepsReal, MarksEnds

\* Markers may come and go.
LEMMA MarkersKept ==
  ASSUME NEW s, Kept(s), NEW E \in SUBSET (ProcIds \X Pids),
         NEW t, t = [s EXCEPT !.ended = E]
  PROVE  Kept(t) /\ t.rows = s.rows /\ t.ended = E /\ t.index = s.index
<1>1. Good(s) /\ Typed(s)
  BY DEF Kept, Core, Good
<1>2. /\ t \in RegState /\ t.rows = s.rows /\ t.index = s.index
      /\ t.refs = s.refs /\ t.feed = s.feed /\ t.ended = E
  BY <1>1 DEF Typed, RegState
<1>3. Good(t)
  BY <1>1, <1>2 DEF Good, Typed, Sound, Held
<1>4. Own(t) /\ Found(t) /\ Owned(t)
  BY <1>2 DEF Kept, Core, Own, Found, Owned
<1>5. NoGhost(t) /\ Current(t)
  BY <1>2 DEF Kept, Core, NoGhost, Current, RowAt
<1>6. Aliased(t) /\ (AllExclusive => Mutual(t))
  BY <1>2 DEF Kept, Aliased, Mutual, RowAt
<1> QED
  BY <1>2, <1>3, <1>4, <1>5, <1>6 DEF Kept, Core

\* The end of p's session is recorded; no other agent's row goes with it.
LEMMA EndKept ==
  ASSUME NEW s, Kept(s), NEW id \in ProcIds, NEW p \in Pids,
         NEW t, t = EndSessionIn(s, id, p)
  PROVE  /\ Kept(t) /\ <<id, p>> \in t.ended
         /\ s.rows[p] # NoRow => t.rows[p] = NoRow
         /\ \A q \in Pids \ {p} :
              /\ (t.rows[q] = NoRow) <=> (s.rows[q] = NoRow)
              /\ s.rows[q] # NoRow => t.rows[q].id = s.rows[q].id
<1> DEFINE s1 == [s EXCEPT !.ended = @ \cup {<<id, p>>}]
<1>1. s.ended \subseteq ProcIds \X Pids
  BY DEF Kept, Core, Good, Typed, RegState
<1>2. /\ Kept(s1) /\ s1.rows = s.rows
      /\ s1.ended = s.ended \cup {<<id, p>>} /\ s1.index = s.index
  BY <1>1, MarkersKept
<1>3. t = RemoveRows(s1, {p})
  BY DEF EndSessionIn
<1> HIDE DEF s1
<1>4. Good(s1) /\ Kept(t)
  BY <1>2, <1>3, RemoveKept DEF Kept, Core
<1>5. /\ t.ended = s1.ended
      /\ \A q \in Pids :
           /\ s1.rows[q] = NoRow => t.rows[q] = NoRow
           /\ t.rows[q] # NoRow => t.rows[q].id = s1.rows[q].id
           /\ q \notin {p} /\ s1.rows[q] # NoRow => t.rows[q] # NoRow
  BY <1>3, <1>4, RemovePids
<1>6. s.rows[p] # NoRow => t.rows[p] = NoRow
  <2> SUFFICES ASSUME s.rows[p] # NoRow PROVE t.rows[p] = NoRow
    OBVIOUS
  <2>1. p \in {p} \cap Held(s1)
    BY <1>2 DEF Held, AllPids
  <2>2. p \in Doomed(s1, {p})
    BY <2>1, DoomedFacts
  <2> QED
    BY <1>3, <1>4, <2>2, RemoveParts
<1>7. \A q \in Pids \ {p} :
        /\ (t.rows[q] = NoRow) <=> (s.rows[q] = NoRow)
        /\ s.rows[q] # NoRow => t.rows[q].id = s.rows[q].id
  BY <1>2, <1>5
<1> QED
  BY <1>2, <1>4, <1>5, <1>6, <1>7

LEMMA CleanupMoves ==
  ASSUME NEW s, Kept(s)
  PROVE  Moves(s, HandleCleanupStale(s))
<1> DEFINE roots == {p \in Held(s) : ~IsProcessAlive(s.rows[p], p)}
           t == RemoveRows(s, roots)
<1>1. HandleCleanupStale(s) = t
  BY DEF HandleCleanupStale
<1>2. Good(s) /\ Kept(t)
  BY RemoveKept DEF Kept, Core
<1>3. \A p \in Pids :
        /\ t.rows[p] # NoRow => s.rows[p] # NoRow /\ t.rows[p].id = s.rows[p].id
        /\ p \notin roots /\ s.rows[p] # NoRow => t.rows[p] # NoRow
  BY <1>2, RemovePids
<1>4. \A p \in Pids : IsProcessAlive(s.rows[p], p) => p \notin roots
  OBVIOUS
<1> HIDE DEF roots
<1>5. KeepsReal(s, t)
  BY <1>3 DEF KeepsReal
<1>6. MarksEnds(s, t)
  BY <1>3, <1>4 DEF MarksEnds
<1> QED
  BY <1>1, <1>2, <1>5, <1>6 DEF Moves

LEMMA SessionEndMoves ==
  ASSUME NEW s, Kept(s), NEW id \in ProcIds, NEW p \in Pids \cup {NoPid}
  PROVE  Moves(s, HandleSessionEnd(s, id, p))
<1>1. CASE HandleSessionEnd(s, id, p) = s
  BY <1>1, SamePidsReflexive, SameMoves
<1>2. CASE HandleSessionEnd(s, id, p) # s
  <2> DEFINE t == EndSessionIn(s, id, p)
  <2>1. HandleSessionEnd(s, id, p) = t /\ p \in Held(s)
    BY <1>2 DEF HandleSessionEnd
  <2>2. p \in Pids /\ s.rows[p] # NoRow
    BY <2>1, PidAssumption DEF Held
  <2>3. /\ Kept(t) /\ <<id, p>> \in t.ended /\ t.rows[p] = NoRow
        /\ \A q \in Pids \ {p} :
             /\ (t.rows[q] = NoRow) <=> (s.rows[q] = NoRow)
             /\ s.rows[q] # NoRow => t.rows[q].id = s.rows[q].id
    BY <2>2, EndKept
  <2> HIDE DEF t
  <2>4. KeepsReal(s, t) /\ MarksEnds(s, t)
    BY <2>3 DEF KeepsReal, MarksEnds
  <2> QED
    BY <2>1, <2>3, <2>4 DEF Moves
<1> QED
  BY <1>1, <1>2

LEMMA DiscoverMoves ==
  ASSUME NEW s, Kept(s), EnvOK, NEW p \in Pids, NEW tie
  PROVE  Moves(s, HandleRegisterDiscovered(s, p, tie))
<1>1. Good(s) /\ Typed(s) /\ Own(s) /\ p \in AllPids
  BY DEF Kept, Core, Good, AllPids
<1>2. CASE s.rows[p] = NoRow /\ Full(s)
  BY <1>2, SamePidsReflexive, SameMoves DEF HandleRegisterDiscovered
<1>3. CASE s.rows[p] = NoRow /\ ~Full(s)
  <2> DEFINE row == NewRow(pendingId[p], ParentOnCmdline(p), "Idle", StartTime(p))
             u == InsertNewSession(s, p, row)
             t == PublishUpdated(u, p)
  <2>1. HandleRegisterDiscovered(s, p, tie) = t
    BY <1>3 DEF HandleRegisterDiscovered
  <2>2. RowFits(p, row)
    <3>1. ParentOnCmdline(p) \in RealIds \cup {NoId}
      BY BoundAssumption DEF ParentOnCmdline
    <3>2. pendingId[p] \in ProcIds
      BY IdAssumption DEF ProcIds
    <3> QED
      BY <3>1, <3>2, FreshRowFits
  <2>3. row.children = {} /\ row.id = pendingId[p]
    BY DEF NewRow
  <2> HIDE DEF row
  <2>4. Kept(u) /\ u.rows[p] = row /\ row # NoRow /\ u.ended = s.ended
    BY <1>3, <2>2, <2>3, InsertKept
  <2>5. \A q \in Pids \ {p} : u.rows[q] = s.rows[q]
    BY <1>3, <2>2, <2>3, InsertKept
  <2> HIDE DEF u
  <2>6. Kept(t) /\ SamePids(u, t)
    BY <1>1, <2>4, PublishKept
  <2> HIDE DEF t
  <2>7. KeepsReal(s, t) /\ MarksEnds(s, t)
    BY <1>3, <2>4, <2>5, <2>6 DEF KeepsReal, MarksEnds, SamePids
  <2> QED
    BY <2>1, <2>6, <2>7 DEF Moves
<1>4. CASE s.rows[p] # NoRow /\ s.rows[p].id = pendingId[p]
  BY <1>4, SamePidsReflexive, SameMoves DEF HandleRegisterDiscovered
<1>5. CASE s.rows[p] # NoRow /\ s.rows[p].id # pendingId[p]
  <2> DEFINE old == s.rows[p].id
             u == PublishUpdated(s, p)
             v == Unindex(u, old, p)
             t == [v EXCEPT !.index[old] = p]
  <2>1. old \in Reports[p] /\ old \in RealIds /\ ~Pending(old)
    BY <1>1, <1>5, BoundAssumption, IdAssumption DEF Own, Pending
  <2>2. old \in ProcIds /\ old \in SessionIds
    BY <2>1 DEF ProcIds, SessionIds
  <2>3. s.rows[p] \in Row
    BY <1>1, <1>5, HolderKind
  <2>4. [s EXCEPT !.rows[p].id = old] = s
    <3>1. [s.rows[p] EXCEPT !.id = old] = s.rows[p]
      BY <2>3 DEF Row
    <3>2. [s.rows EXCEPT ![p] = s.rows[p]] = s.rows
      BY <1>1 DEF Typed, RegState
    <3>3. [s EXCEPT !.rows[p] = [s.rows[p] EXCEPT !.id = old]]
            = [s EXCEPT !.rows = [s.rows EXCEPT ![p] = s.rows[p]]]
      BY <3>1
    <3> HIDE DEF old
    <3> QED
      BY <1>1, <3>2, <3>3 DEF Typed, RegState
  <2>5. Kept(u) /\ SamePids(s, u) /\ Shows(s, u, p)
    BY <1>1, <1>5, PublishKept, PublishShows
  <2>6. RenameLinks(u, old, old, tie) = u
    <3>1. p \in Held(u) /\ u.rows[p].id = old
      BY <1>1, <2>5 DEF Held, Shows
    <3> QED
      BY <3>1 DEF RenameLinks
  <2>7. HandleRegisterDiscovered(s, p, tie) = t
    BY <1>5, <2>1, <2>4, <2>6 DEF HandleRegisterDiscovered
  <2>8. Good(t)
    <3>1. Good(HandleRegisterDiscovered(s, p, tie))
      BY <1>1, DiscoverGood
    <3> HIDE DEF t
    <3> QED
      BY <2>7, <3>1
  <2> HIDE DEF old, u
  <2>9. Good(u) /\ Typed(u)
    BY <2>5 DEF Kept, Core, Good
  <2>10. /\ v.rows = u.rows /\ v.refs = u.refs /\ v.feed = u.feed
         /\ v.ended = u.ended /\ v.index \in [SessionIds -> AllPids \cup {NoPid}]
         /\ \A i \in SessionIds \ {old} : v.index[i] = u.index[i]
    BY <2>9 DEF Unindex, Typed, RegState
  <2>11. /\ t.rows = u.rows /\ t.refs = u.refs /\ t.feed = u.feed
         /\ t.ended = u.ended /\ t.index = [v.index EXCEPT ![old] = p]
    BY <2>9, <2>10 DEF Unindex, Typed, RegState
  <2>12. t.index[old] = p /\ \A i \in SessionIds \ {old} : t.index[i] = u.index[i]
    BY <2>2, <2>10, <2>11
  <2> HIDE DEF v, t
  <2>13. Found(t)
    <3> SUFFICES ASSUME NEW q \in AllPids, t.rows[q] # NoRow,
                        Exclusive(t.rows[q].id)
                 PROVE  t.index[t.rows[q].id] = q
      BY DEF Found
    <3>1. u.rows[q] # NoRow /\ t.rows[q].id = u.rows[q].id
      BY <2>11
    <3>2. u.rows[q].id \in SessionIds /\ u.index[u.rows[q].id] = q
      BY <2>5, <2>9, <2>11, <3>1, HolderKind DEF Kept, Core, Found
    <3>3. CASE u.rows[q].id = old
      <4>1. u.rows[p] # NoRow /\ u.rows[p].id = old
        BY <2>5 DEF Shows, old
      <4>2. p = q
        BY <1>1, <2>5, <2>11, <3>1, <3>3, <4>1, OneHolder DEF Kept, Core
      <4> QED
        BY <2>12, <3>1, <3>3, <4>2
    <3>4. CASE u.rows[q].id # old
      BY <2>12, <3>1, <3>2, <3>4
    <3> QED
      BY <3>3, <3>4
  <2>14. Own(t) /\ Owned(t)
    BY <2>5, <2>11 DEF Kept, Core, Own, Owned
  <2>15. NoGhost(t) /\ Current(t)
    BY <2>5, <2>11 DEF Kept, Core, NoGhost, Current, RowAt
  <2>16. Aliased(t) /\ (AllExclusive => Mutual(t))
    BY <2>5, <2>11 DEF Kept, Aliased, Mutual, RowAt
  <2>17. Kept(t)
    BY <2>8, <2>13, <2>14, <2>15, <2>16 DEF Kept, Core
  <2>18. SamePids(s, t)
    BY <2>5, <2>11 DEF SamePids
  <2> QED
    BY <2>7, <2>17, <2>18, SameMoves
<1> QED
  BY <1>2, <1>3, <1>4, <1>5

LEMMA StatusLineMoves ==
  ASSUME NEW s, Kept(s), EnvOK, NEW id \in RealIds, NEW pid \in Pids \cup {NoPid},
         pid # NoPid => id \in Reports[pid], NEW tie
  PROVE  Moves(s, HandleUpdateFromStatusLine(s, id, pid, tie))
<1> DEFINE t == HandleUpdateFromStatusLine(s, id, pid, tie)
<1>1. id \in ProcIds /\ Good(s)
  BY DEF ProcIds, Kept, Core
<1>2. CASE t = s
  BY <1>2, SamePidsReflexive, SameMoves
<1>3. CASE t # s /\ pid = NoPid
  <2>1. t = PublishUpdated(s, s.index[id]) /\ s.index[id] \in AllPids
    BY <1>3 DEF HandleUpdateFromStatusLine, Held
  <2> QED
    BY <2>1, PublishKept, SameMoves
<1>4. CASE t # s /\ pid # NoPid /\ pid \in Held(s)
  <2> DEFINE s1 == IF s.rows[pid].id # id
                   THEN ReconcileSessionId(s, pid, id, tie) ELSE s
             u == PublishUpdated(s1, pid)
  <2>1. t = u
    BY <1>4 DEF HandleUpdateFromStatusLine, UpdateOrCreateByPid
  <2>2. pid \in Pids /\ pid \in AllPids /\ s.rows[pid] # NoRow
    BY <1>4 DEF Held
  <2>3. /\ Kept(s1) /\ s1.ended = s.ended /\ RowAt(s1, pid, id)
        /\ \A q \in Pids \ {pid} :
             /\ (s1.rows[q] = NoRow) <=> (s.rows[q] = NoRow)
             /\ s.rows[q] # NoRow => s1.rows[q].id = s.rows[q].id
    <3>1. CASE s.rows[pid].id # id
      BY <1>4, <2>2, <3>1, ReconcileKept
    <3>2. CASE s.rows[pid].id = id
      BY <2>2, <3>2 DEF RowAt
    <3> QED
      BY <3>1, <3>2
  <2> HIDE DEF s1, t
  <2>4. Kept(u) /\ SamePids(s1, u)
    BY <2>2, <2>3, PublishKept
  <2> HIDE DEF u
  <2>5. KeepsReal(s, u) /\ MarksEnds(s, u)
    BY <2>3, <2>4 DEF KeepsReal, MarksEnds, SamePids, RowAt
  <2> QED
    BY <2>1, <2>4, <2>5 DEF Moves, t
<1>5. CASE t # s /\ pid # NoPid /\ pid \notin Held(s)
  <2> DEFINE row == NewRow(id, NoId, "Idle", StartTime(pid))
             u == InsertNewSession(s, pid, row)
             v == PublishUpdated(u, pid)
  <2>1. t = v /\ ~Full(s)
    BY <1>5 DEF HandleUpdateFromStatusLine, UpdateOrCreateByPid
  <2>2. pid \in Pids /\ pid \in AllPids /\ s.rows[pid] = NoRow
    BY <1>5 DEF Held, AllPids
  <2>3. RowFits(pid, row)
    BY <1>1, <2>2, FreshRowFits
  <2>4. row.children = {} /\ row.id = id
    BY DEF NewRow
  <2> HIDE DEF row, t
  <2>5. Kept(u) /\ u.rows[pid] = row /\ row # NoRow /\ u.ended = s.ended
    BY <1>5, <2>1, <2>2, <2>3, <2>4, InsertKept
  <2>6. \A q \in Pids \ {pid} : u.rows[q] = s.rows[q]
    BY <1>5, <2>1, <2>2, <2>3, <2>4, InsertKept
  <2> HIDE DEF u
  <2>7. Kept(v) /\ SamePids(u, v)
    BY <2>2, <2>5, PublishKept
  <2> HIDE DEF v
  <2>8. KeepsReal(s, v) /\ MarksEnds(s, v)
    BY <2>2, <2>5, <2>6, <2>7 DEF KeepsReal, MarksEnds, SamePids
  <2> QED
    BY <2>1, <2>7, <2>8 DEF Moves, t
<1> QED
  BY <1>2, <1>3, <1>4, <1>5

\* What taking the session id of an event does, before the event is applied:
\* the row of p keeps its id, takes the real id, or goes with its end recorded.
Adopts(s, t, p, id) ==
  /\ \A q \in Pids \ {p} :
       /\ (t.rows[q] = NoRow) <=> (s.rows[q] = NoRow)
       /\ s.rows[q] # NoRow => t.rows[q].id = s.rows[q].id
  /\ p \in Pids =>
       \/ /\ (t.rows[p] = NoRow) <=> (s.rows[p] = NoRow)
          /\ s.rows[p] # NoRow => t.rows[p].id = s.rows[p].id
       \/ id \in RealIds /\ RowAt(t, p, id)
       \/ /\ id \in RealIds /\ t.rows[p] = NoRow
          /\ \E i \in ProcIds : <<i, p>> \in t.ended

LEMMA AdoptKept ==
  ASSUME NEW s, Kept(s), NEW id \in ProcIds, NEW p \in Pids \cup {NoPid},
         ~Pending(id) /\ p \in Held(s) =>
           s.rows[p].id = id \/ id \in Reports[p],
         NEW e, NEW tie, NEW t, t = AdoptSessionId(s, id, p, e, tie)
  PROVE  Kept(t) /\ Adopts(s, t, p, id)
<1>1. CASE t = s
  BY <1>1 DEF Adopts
<1>2. CASE t # s
  <2>1. p \in Held(s) /\ ~Pending(id) /\ s.rows[p].id # id
    BY <1>2 DEF AdoptSessionId
  <2>2. p \in Pids /\ p \in AllPids /\ s.rows[p] # NoRow
    BY <2>1, PidAssumption DEF Held, AllPids
  <2>3. id \in RealIds /\ id \in Reports[p]
    BY <2>1, <2>2, BoundAssumption
  <2>4. CASE t = ReconcileSessionId(s, p, id, tie)
    <3>1. /\ Kept(t) /\ RowAt(t, p, id)
          /\ \A q \in Pids \ {p} :
               /\ (t.rows[q] = NoRow) <=> (s.rows[q] = NoRow)
               /\ s.rows[q] # NoRow => t.rows[q].id = s.rows[q].id
      BY <2>1, <2>2, <2>3, <2>4, ReconcileKept
    <3> QED
      BY <2>3, <3>1 DEF Adopts
  <2>5. CASE t = EndSessionIn(s, s.rows[p].id, p)
    <3>1. s.rows[p].id \in ProcIds
      BY <2>2, HolderKind DEF Kept, Core, Good
    <3>2. /\ Kept(t) /\ <<s.rows[p].id, p>> \in t.ended /\ t.rows[p] = NoRow
          /\ \A q \in Pids \ {p} :
               /\ (t.rows[q] = NoRow) <=> (s.rows[q] = NoRow)
               /\ s.rows[q] # NoRow => t.rows[q].id = s.rows[q].id
      BY <2>2, <2>5, <3>1, EndKept
    <3> QED
      BY <2>3, <3>1, <3>2 DEF Adopts
  <2> QED
    BY <1>2, <2>1, <2>4, <2>5 DEF AdoptSessionId
<1> QED
  BY <1>1, <1>2

\* The event itself leaves the agents' rows as it finds them.
LEMMA AdoptsMoves ==
  ASSUME NEW s, NEW t, NEW u, NEW p \in Pids \cup {NoPid}, NEW id,
         Adopts(s, t, p, id), Kept(u), SamePids(t, u)
  PROVE  Moves(s, u)
<1>1. KeepsReal(s, u)
  BY DEF KeepsReal, Adopts, SamePids, RowAt
<1>2. ASSUME NEW q \in Pids, s.rows[q] # NoRow, u.rows[q] = NoRow
      PROVE  \E i \in ProcIds : <<i, q>> \in u.ended
  <2>1. t.rows[q] = NoRow /\ u.ended = t.ended
    BY <1>2 DEF SamePids
  <2>2. q = p
    BY <1>2, <2>1 DEF Adopts
  <2> QED
    BY <1>2, <2>1, <2>2 DEF Adopts, RowAt
<1>3. MarksEnds(s, u)
  BY <1>2 DEF MarksEnds
<1> QED
  BY <1>1, <1>3 DEF Moves

\* So does one that comes to a row made for it.
LEMMA InsertsMoves ==
  ASSUME NEW s, NEW t, NEW v, NEW u, NEW p \in Pids, NEW id,
         Adopts(s, t, p, id), t.rows[p] = NoRow, RowAt(v, p, id),
         \A q \in Pids \ {p} : v.rows[q] = t.rows[q],
         Kept(u), SamePids(v, u)
  PROVE  Moves(s, u)
<1>1. RowAt(u, p, id)
  BY DEF SamePids, RowAt
<1>2. \A q \in Pids \ {p} :
        /\ (u.rows[q] = NoRow) <=> (s.rows[q] = NoRow)
        /\ s.rows[q] # NoRow => u.rows[q].id = s.rows[q].id
  BY DEF Adopts, SamePids
<1>3. s.rows[p] # NoRow => id \in RealIds
  BY DEF Adopts, RowAt
<1>4. KeepsReal(s, u)
  BY <1>1, <1>2, <1>3 DEF KeepsReal, RowAt
<1>5. MarksEnds(s, u)
  BY <1>1, <1>2 DEF MarksEnds, RowAt
<1> QED
  BY <1>4, <1>5 DEF Moves

LEMMA LifecycleMoves ==
  ASSUME NEW s, Kept(s), EnvOK, NEW id \in ProcIds,
         NEW pid \in Pids \cup {NoPid},
         pid # NoPid => id \in Reports[pid] \cup {pendingId[pid]},
         NEW e, EventOK(e), NEW tie
  PROVE  Moves(s, HandleApplyLifecycleEvent(s, id, pid, e, tie))
<1> DEFINE p == Target(s, id, pid)
           E == s.ended \ {<<id, p>>}
           s1 == IF Untagged(e, "SessionStart")
                 THEN [s EXCEPT !.ended = @ \ {<<id, p>>}] ELSE s
           s2 == AdoptSessionId(s1, id, p, e, tie)
           row == NewRow(id, ParentOnCmdline(pid), "Idle", StartTime(pid))
           s3 == InsertNewSession(s2, pid, row)
           t == HandleApplyLifecycleEvent(s, id, pid, e, tie)
<1>1. p \in Pids \cup {NoPid}
  BY TargetReal DEF Kept, Core
<1>2. pid # NoPid => p = pid
  BY DEF Target
<1>3. t = IF Untagged(e, "SessionEnd") THEN HandleSessionEnd(s, id, p)
          ELSE IF p \in Held(s2) THEN ApplyEvent(s2, p, e)
          ELSE IF pid = NoPid \/ Full(s2) THEN s2
          ELSE ApplyEvent(s3, pid, e)
  BY DEF HandleApplyLifecycleEvent
<1>4. pid = NoPid => p = s.index[id]
  BY DEF Target
<1> HIDE DEF p, t
<1>5. Kept(s1) /\ s1.rows = s.rows
  <2>1. E \in SUBSET (ProcIds \X Pids)
    BY DEF Kept, Core, Good, Typed, RegState
  <2>2. [s EXCEPT !.ended = @ \ {<<id, p>>}] = [s EXCEPT !.ended = E]
    OBVIOUS
  <2> HIDE DEF E
  <2>3. /\ Kept([s EXCEPT !.ended = E])
        /\ [s EXCEPT !.ended = E].rows = s.rows
    BY <2>1, MarkersKept
  <2> QED
    BY <2>2, <2>3
<1> HIDE DEF s1
<1>6. ASSUME ~Pending(id), p \in Held(s1)
      PROVE  s1.rows[p].id = id \/ id \in Reports[p]
  <2>1. CASE pid = NoPid
    <3>1. p # NoPid /\ id \in SessionIds
      BY <1>6, PidAssumption DEF Held, SessionIds
    <3>2. s.rows[p].id = id
      BY <1>4, <2>1, <3>1 DEF Kept, Core, Good, Sound
    <3> QED
      BY <1>5, <3>2
  <2>2. CASE pid # NoPid
    BY <1>2, <1>6, <2>2 DEF Pending, PendingIds
  <2> QED
    BY <2>1, <2>2
<1>7. Kept(s2) /\ Adopts(s1, s2, p, id)
  BY <1>1, <1>5, <1>6, AdoptKept
<1>8. Adopts(s, s2, p, id)
  BY <1>5, <1>7 DEF Adopts
<1> HIDE DEF s2
<1>9. CASE Untagged(e, "SessionEnd")
  BY <1>1, <1>3, <1>9, SessionEndMoves DEF t
<1>10. CASE ~Untagged(e, "SessionEnd") /\ p \in Held(s2)
  <2>1. p \in Pids /\ s2.rows[p] # NoRow
    BY <1>1, <1>10, PidAssumption DEF Held
  <2>2. Kept(ApplyEvent(s2, p, e)) /\ SamePids(s2, ApplyEvent(s2, p, e))
    BY <1>7, <2>1, ApplyEventKept
  <2>3. Moves(s, ApplyEvent(s2, p, e))
    BY <1>1, <1>8, <2>2, AdoptsMoves
  <2> QED
    BY <1>3, <1>10, <2>3 DEF t
<1>11. CASE /\ ~Untagged(e, "SessionEnd") /\ p \notin Held(s2)
            /\ pid = NoPid \/ Full(s2)
  <2>1. Moves(s, s2)
    BY <1>1, <1>7, <1>8, SamePidsReflexive, AdoptsMoves
  <2> QED
    BY <1>3, <1>11, <2>1 DEF t
<1>12. CASE /\ ~Untagged(e, "SessionEnd") /\ p \notin Held(s2)
            /\ ~(pid = NoPid \/ Full(s2))
  <2>1. pid \in Pids /\ p = pid /\ pid \in AllPids /\ s2.rows[pid] = NoRow
    BY <1>2, <1>12 DEF Held, AllPids
  <2>2. ParentOnCmdline(pid) \in RealIds \cup {NoId}
    BY <2>1, BoundAssumption DEF ParentOnCmdline
  <2>3. RowFits(pid, row)
    BY <2>1, <2>2, FreshRowFits
  <2>4. row.children = {} /\ row.id = id
    BY DEF NewRow
  <2> HIDE DEF row
  <2>5. /\ Kept(s3) /\ s3.rows[pid] = row /\ row # NoRow
        /\ \A q \in Pids \ {pid} : s3.rows[q] = s2.rows[q]
    BY <1>7, <1>12, <2>1, <2>3, <2>4, InsertKept
  <2> HIDE DEF s3
  <2>6. Kept(ApplyEvent(s3, pid, e)) /\ SamePids(s3, ApplyEvent(s3, pid, e))
    BY <2>1, <2>5, ApplyEventKept
  <2>7. RowAt(s3, pid, id)
    BY <2>4, <2>5 DEF RowAt
  <2>8. Moves(s, ApplyEvent(s3, pid, e))
    BY <1>8, <2>1, <2>5, <2>6, <2>7, InsertsMoves
  <2> QED
    BY <1>3, <1>12, <2>8 DEF t
<1> QED
  BY <1>9, <1>10, <1>11, <1>12 DEF t

-----------------------------------------------------------------------------
(* The invariant, and what every step does *)

\* The inductive invariant: the records are kept.
KeptInv == Kept(reg) /\ EnvOK

\* What RealIdsStay and EndsRecorded say of a step.
RealIdsStep ==
  \A p \in Pids : IdAt(p) \in RealIds => IdAt(p)' \in RealIds \cup {NoId}

EndsStep ==
  \A p \in Pids :
    /\ IdAt(p) # NoId /\ IdAt(p)' = NoId
    /\ IsProcessAlive(sessions_by_pid[p], p)
    => \E id \in ProcIds : <<id, p>> \in ended_sessions'

StepRight == KeptInv' /\ RealIdsStep /\ EndsStep

LEMMA BecomeStep ==
  ASSUME KeptInv, NEW s, Moves(reg, s), Become(s)
  PROVE  StepRight
<1>1. /\ sessions_by_pid' = s.rows /\ session_id_to_pid' = s.index
      /\ child_refs' = s.refs /\ ended_sessions' = s.ended /\ feed' = s.feed
      /\ starts' = starts /\ live' = live
  BY DEF Become
<1>2. Kept(s) /\ KeepsReal(reg, s) /\ MarksEnds(reg, s)
  BY DEF Moves
<1>3. reg' = s
  BY <1>1, <1>2 DEF reg, Kept, Core, Good, Typed, RegState
<1>4. Kept(reg)' /\ EnvOK'
  <2>1. Kept(reg')
    BY <1>2, <1>3
  <2>2. Kept(reg)' <=> Kept(reg')
    BY DEF Kept, Core, Good, Typed, Sound, Held, Own, Found, Owned, NoGhost,
           Current, Aliased, Mutual, RowAt, reg
  <2>3. EnvOK'
    BY <1>1 DEF KeptInv, EnvOK
  <2> QED
    BY <2>1, <2>2, <2>3
<1>5. reg.rows = sessions_by_pid
  BY DEF reg
<1>6. \A p \in Pids : s.rows[p] # NoRow => s.rows[p].id # NoId
  BY <1>2, HolderKind, IdAssumption DEF Kept, Core, Good, AllPids
<1>7. \A p \in Pids : sessions_by_pid[p] # NoRow => sessions_by_pid[p].id # NoId
  BY <1>5, HolderKind, IdAssumption DEF KeptInv, Kept, Core, Good, AllPids
<1>8. NoId \notin RealIds
  BY IdAssumption DEF SessionIds, ProcIds
<1>9. RealIdsStep
  BY <1>1, <1>2, <1>5, <1>8 DEF RealIdsStep, IdAt, KeepsReal
<1>10. EndsStep
  BY <1>1, <1>2, <1>5, <1>6 DEF EndsStep, IdAt, MarksEnds
<1> QED
  BY <1>4, <1>9, <1>10 DEF StepRight, KeptInv

\* The rows and markers stay as they are: nothing to show of the step.
LEMMA QuietStep ==
  ASSUME KeptInv, EnvOK',
         UNCHANGED <<sessions_by_pid, session_id_to_pid, child_refs,
                     ended_sessions, feed>>
  PROVE  StepRight
<1>1. reg' = reg
  BY DEF reg
<1>2. Kept(reg)'
  <2>1. Kept(reg')
    BY <1>1 DEF KeptInv
  <2>2. Kept(reg)' <=> Kept(reg')
    BY DEF Kept, Core, Good, Typed, Sound, Held, Own, Found, Owned, NoGhost,
           Current, Aliased, Mutual, RowAt, reg
  <2> QED
    BY <2>1, <2>2
<1>3. \A p : IdAt(p)' = IdAt(p)
  BY DEF IdAt
<1>4. RealIdsStep /\ EndsStep
  BY <1>3 DEF RealIdsStep, EndsStep
<1> QED
  BY <1>2, <1>4 DEF StepRight, KeptInv

LEMMA InitKept == Init => KeptInv
<1> SUFFICES ASSUME Init PROVE KeptInv
  OBVIOUS
<1>1. Good(reg) /\ EnvOK
  BY InitInv DEF Inv
<1>2. \A p \in AllPids : reg.rows[p] = NoRow
  BY DEF Init, reg
<1>3. \A p : p \in Pids \/ p \in SyntheticPids => p \in AllPids
  BY DEF AllPids
<1>4. Own(reg) /\ Found(reg) /\ Owned(reg) /\ Mutual(reg) /\ Current(reg)
  BY <1>2, <1>3 DEF Own, Found, Owned, Mutual, Current
<1>5. NoGhost(reg) /\ Aliased(reg)
  BY DEF Init, reg, NoGhost, Aliased
<1> QED
  BY <1>1, <1>4, <1>5 DEF KeptInv, Kept, Core

\* An id with a pid is one that the pid reports, or the pid's pending one.
LEMMA OriginOwn ==
  ASSUME NEW origin \in Origins \cup PendingOrigins, origin[2] # NoPid
  PROVE  origin[1] \in Reports[origin[2]] \cup {pendingId[origin[2]]}
<1>1. CASE origin \in Origins
  BY <1>1 DEF Origins
<1>2. CASE origin \in PendingOrigins
  BY <1>2 DEF PendingOrigins
<1> QED
  BY <1>1, <1>2

LEMMA LifecycleStep ==
  ASSUME KeptInv, NEW origin \in Origins \cup PendingOrigins,
         NEW e, EventOK(e), Lifecycle(origin, e)
  PROVE  StepRight
<1>1. PICK tie \in SUBSET Names :
        Become(HandleApplyLifecycleEvent(reg, origin[1], origin[2], e, tie))
  BY DEF Lifecycle
<1>2. Moves(reg, HandleApplyLifecycleEvent(reg, origin[1], origin[2], e, tie))
  BY OriginType, OriginOwn, LifecycleMoves DEF KeptInv
<1> QED
  BY <1>1, <1>2, BecomeStep

LEMMA ReportStep ==
  ASSUME KeptInv, NEW origin \in Origins \cup PendingOrigins, Report(origin)
  PROVE  StepRight
<1>1. CASE SessionStart(origin)
  <2>1. EventOK(Event("SessionStart", "Idle"))
    BY DEF EventOK, Event, Status
  <2> QED
    BY <1>1, <2>1, LifecycleStep DEF SessionStart
<1>2. CASE SessionEnd(origin)
  <2>1. EventOK(Event("SessionEnd", "Idle"))
    BY DEF EventOK, Event, Status
  <2> QED
    BY <1>2, <2>1, LifecycleStep DEF SessionEnd
<1>3. ASSUME NEW effect \in Effects, OrdinaryEvent(origin, effect)
      PROVE  StepRight
  <2>1. EventOK(Event("Other", effect))
    BY BoundAssumption DEF EventOK, Event
  <2> QED
    BY <1>3, <2>1, LifecycleStep DEF OrdinaryEvent
<1> QED
  BY <1>1, <1>2, <1>3 DEF Report

LEMMA ClaudeReportStep ==
  ASSUME KeptInv, NEW origin \in Origins, ClaudeReport(origin)
  PROVE  StepRight
<1>1. CASE Report(origin)
  BY <1>1, ReportStep
<1>2. CASE StatusLine(origin)
  <2>1. PICK tie \in SUBSET Names :
          Become(HandleUpdateFromStatusLine(reg, origin[1], origin[2], tie))
    BY <1>2 DEF StatusLine
  <2>2. /\ origin[1] \in RealIds /\ origin[2] \in Pids \cup {NoPid}
        /\ origin[2] # NoPid => origin[1] \in Reports[origin[2]]
    BY DEF Origins
  <2>3. Moves(reg, HandleUpdateFromStatusLine(reg, origin[1], origin[2], tie))
    BY <2>2, StatusLineMoves DEF KeptInv
  <2> QED
    BY <2>1, <2>3, BecomeStep
<1>3. ASSUME NEW background, Stop(origin, background)
      PROVE  StepRight
  <2> DEFINE e == [Event("Other", "Idle") EXCEPT !.background = background]
  <2>1. EventOK(e)
    BY DEF EventOK, Event, Status
  <2> QED
    BY <1>3, <2>1, LifecycleStep DEF Stop
<1>4. ASSUME NEW ref \in AgentIds, ChildSessionStart(origin, ref)
      PROVE  StepRight
  <2> DEFINE e == [Event("ChildSessionStart", "Same") EXCEPT !.agent = ref]
  <2>1. EventOK(e)
    BY DEF EventOK, Event, Refs
  <2> QED
    BY <1>4, <2>1, LifecycleStep DEF ChildSessionStart
<1>5. ASSUME NEW ref \in AgentIds, ChildSessionEnd(origin, ref)
      PROVE  StepRight
  <2> DEFINE e == [Event("ChildSessionEnd", "Same") EXCEPT !.agent = ref]
  <2>1. EventOK(e)
    BY DEF EventOK, Event, Refs
  <2> QED
    BY <1>5, <2>1, LifecycleStep DEF ChildSessionEnd
<1>6. ASSUME NEW ref \in Refs, NEW effect \in Effects,
             ChildEvent(origin, ref, effect)
      PROVE  StepRight
  <2> DEFINE e == [Event("Other", effect) EXCEPT !.child = ref]
  <2>1. EventOK(e)
    BY BoundAssumption DEF EventOK, Event
  <2> QED
    BY <1>6, <2>1, LifecycleStep DEF ChildEvent
<1>7. ASSUME NEW name \in Names, NEW ref \in AgentIds,
             ChildSpawned(origin, name, ref)
      PROVE  StepRight
  <2> DEFINE e == [Event("Other", "Working") EXCEPT !.alias = <<name, ref>>]
  <2>1. EventOK(e)
    BY DEF EventOK, Event, Status
  <2> QED
    BY <1>7, <2>1, LifecycleStep DEF ChildSpawned
<1> QED
  BY <1>1, <1>2, <1>3, <1>4, <1>5, <1>6, <1>7 DEF ClaudeReport

LEMMA NextStep ==
  ASSUME KeptInv, [Next]_vars
  PROVE  StepRight
<1>1. ASSUME NEW origin \in Origins, ClaudeReport(origin)
      PROVE  StepRight
  BY <1>1, ClaudeReportStep
<1>2. ASSUME NEW origin \in PendingOrigins, Report(origin)
      PROVE  StepRight
  BY <1>2, ReportStep
<1>3. ASSUME NEW p \in Pids, RegisterDiscovered(p)
      PROVE  StepRight
  <2>1. PICK tie \in SUBSET Names : Become(HandleRegisterDiscovered(reg, p, tie))
    BY <1>3 DEF RegisterDiscovered
  <2>2. Moves(reg, HandleRegisterDiscovered(reg, p, tie))
    BY DiscoverMoves DEF KeptInv
  <2> QED
    BY <2>1, <2>2, BecomeStep
<1>4. CASE CleanupStale
  <2>1. Moves(reg, HandleCleanupStale(reg))
    BY CleanupMoves DEF KeptInv
  <2> QED
    BY <1>4, <2>1, BecomeStep DEF CleanupStale
<1>5. ASSUME NEW mark \in ProcIds \X Pids, MarkerExpires(mark)
      PROVE  StepRight
  <2> DEFINE t == [reg EXCEPT !.ended = reg.ended \ {mark}]
  <2>1. reg.ended \ {mark} \in SUBSET (ProcIds \X Pids)
    BY DEF KeptInv, Kept, Core, Good, Typed, RegState
  <2>2. Kept(t) /\ t.rows = reg.rows
    BY <2>1, MarkersKept DEF KeptInv
  <2>3. Become(t)
    BY <1>5 DEF MarkerExpires
  <2> HIDE DEF t
  <2>4. Moves(reg, t)
    BY <2>2 DEF Moves, KeepsReal, MarksEnds
  <2> QED
    BY <2>3, <2>4, BecomeStep
<1>6. ASSUME NEW p \in Pids, ProcessExits(p)
      PROVE  StepRight
  <2>1. EnvOK'
    BY <1>6 DEF ProcessExits, KeptInv, EnvOK
  <2> QED
    BY <1>6, <2>1, QuietStep DEF ProcessExits
<1>7. ASSUME NEW p \in Pids, ProcessStarts(p)
      PROVE  StepRight
  <2>1. EnvOK'
    BY <1>7, BoundAssumption DEF ProcessStarts, KeptInv, EnvOK
  <2> QED
    BY <1>7, <2>1, QuietStep DEF ProcessStarts
<1>8. CASE UNCHANGED vars
  <2>1. EnvOK'
    BY <1>8 DEF vars, KeptInv, EnvOK
  <2> QED
    BY <1>8, <2>1, QuietStep DEF vars
<1> QED
  BY <1>1, <1>2, <1>3, <1>4, <1>5, <1>6, <1>7, <1>8 DEF Next

\* RecordsInvariant: every reachable state's records are kept.
THEOREM RecordsInvariant == Spec => []KeptInv
<1>1. Init => KeptInv
  BY InitKept
<1>2. KeptInv /\ [Next]_vars => KeptInv'
  BY NextStep DEF StepRight
<1> QED
  BY <1>1, <1>2, PTL DEF Spec

\* A row's id is never NoId, so IdAt tells the rows apart from the empty places.
LEMMA IdAtRow ==
  ASSUME KeptInv, NEW p \in AllPids
  PROVE  /\ IdAt(p) # NoId <=> reg.rows[p] # NoRow
         /\ reg.rows[p] # NoRow => IdAt(p) = reg.rows[p].id
         /\ reg.rows[p] = sessions_by_pid[p]
<1>1. reg.rows = sessions_by_pid
  BY DEF reg
<1>2. reg.rows[p] # NoRow => reg.rows[p].id # NoId
  BY HolderKind, IdAssumption DEF KeptInv, Kept, Core, Good
<1> QED
  BY <1>1, <1>2 DEF IdAt

\* NoGhostsEver: for every choice of the constants, a subscriber that applied
\* all events shows no session that the registry does not have
\* (SessionRegistry!NoGhosts): no end, sweep, rename or replaced placeholder
\* of a child is left unpublished.
THEOREM NoGhostsEver == Spec => []NoGhosts
<1>1. KeptInv => NoGhosts
  <2> SUFFICES ASSUME KeptInv, NEW id \in SessionIds, feed[id] # NoView
               PROVE  \E p \in AllPids : IdAt(p) = id
    BY DEF NoGhosts
  <2>1. reg.feed = feed
    BY DEF reg
  <2>2. PICK p \in AllPids : RowAt(reg, p, id)
    BY <2>1 DEF KeptInv, Kept, Core, NoGhost
  <2> QED
    BY <2>2, IdAtRow DEF RowAt
<1> QED
  BY <1>1, RecordsInvariant, PTL

\* ExclusiveIdsAlwaysFound: a session whose id no other pid reports is always
\* found by that id (SessionRegistry!ExclusiveIdsIndexed), whatever shared ids
\* other sessions took and lost meanwhile.
THEOREM ExclusiveIdsAlwaysFound == Spec => []ExclusiveIdsIndexed
<1>1. KeptInv => ExclusiveIdsIndexed
  <2> SUFFICES ASSUME KeptInv, NEW p \in AllPids, IdAt(p) # NoId,
                      Exclusive(IdAt(p))
               PROVE  session_id_to_pid[IdAt(p)] = p
    BY DEF ExclusiveIdsIndexed
  <2>1. reg.rows[p] # NoRow /\ IdAt(p) = reg.rows[p].id
    BY IdAtRow
  <2>2. reg.index = session_id_to_pid
    BY DEF reg
  <2>3. reg.index[reg.rows[p].id] = p
    BY <2>1 DEF KeptInv, Kept, Core, Found
  <2> QED
    BY <2>1, <2>2, <2>3
<1> QED
  BY <1>1, RecordsInvariant, PTL

\* ChildrenAlwaysOwned: an in-process child is always in the child list of
\* some agent's row (SessionRegistry!ChildrenOwned), so it can be removed with
\* it: cleanup, which knows no process of the child, never has to.
THEOREM ChildrenAlwaysOwned == Spec => []ChildrenOwned
<1>1. KeptInv => ChildrenOwned
  <2> SUFFICES ASSUME KeptInv, NEW c \in SyntheticPids, IdAt(c) # NoId
               PROVE  \E p \in Pids : /\ IdAt(p) # NoId
                                      /\ IdAt(c) \in sessions_by_pid[p].children
    BY DEF ChildrenOwned
  <2>1. \A p : p \in Pids \/ p \in SyntheticPids => p \in AllPids
    BY DEF AllPids
  <2>2. reg.rows[c] # NoRow /\ IdAt(c) = reg.rows[c].id
    BY <2>1, IdAtRow
  <2>3. PICK p \in Pids : reg.rows[p] # NoRow /\ IdAt(c) \in reg.rows[p].children
    BY <2>2 DEF KeptInv, Kept, Core, Owned
  <2> QED
    BY <2>1, <2>3, IdAtRow
<1> QED
  BY <1>1, RecordsInvariant, PTL

\* ViewsAlwaysCurrent: what such a subscriber shows of a session is that
\* session's current view (SessionRegistry!ViewsCurrent, one half of
\* FeedAgrees): no handler changes a row and leaves the old view standing.
THEOREM ViewsAlwaysCurrent == Spec => []ViewsCurrent
<1>1. KeptInv => ViewsCurrent
  <2> SUFFICES ASSUME KeptInv, NEW p \in AllPids, IdAt(p) # NoId,
                      Exclusive(IdAt(p)), feed[IdAt(p)] # NoView
               PROVE  feed[IdAt(p)] = ViewOf(sessions_by_pid[p])
    BY DEF ViewsCurrent
  <2>1. /\ reg.rows[p] # NoRow /\ IdAt(p) = reg.rows[p].id
        /\ reg.rows[p] = sessions_by_pid[p]
    BY IdAtRow
  <2>2. reg.feed = feed
    BY DEF reg
  <2>3. Current(reg)
    BY DEF KeptInv, Kept, Core
  <2>4. reg.feed[reg.rows[p].id] = ViewOf(reg.rows[p])
    BY <2>1, <2>2, <2>3 DEF Current
  <2> QED
    BY <2>1, <2>2, <2>4
<1> QED
  BY <1>1, RecordsInvariant, PTL

LEMMA AliasesLiveKept == KeptInv => AliasesLive
<1> SUFFICES ASSUME KeptInv, NEW k \in ProcIds \X Refs, child_refs[k] # NoId
             PROVE  \E p \in Pids : IdAt(p) = k[1]
  BY DEF AliasesLive
<1>1. reg.refs = child_refs
  BY DEF reg
<1>2. PICK p \in Pids : RowAt(reg, p, k[1])
  BY <1>1 DEF KeptInv, Kept, Aliased
<1>3. p \in AllPids
  BY DEF AllPids
<1> QED
  BY <1>2, <1>3, IdAtRow DEF RowAt

\* AliasesAlwaysLive: child references are kept only under ids that some
\* agent's row has (SessionRegistry!AliasesLive, one half of
\* ChildRecordsAgree), so the map cannot outgrow the rows.
THEOREM AliasesAlwaysLive == Spec => []AliasesLive
  BY AliasesLiveKept, RecordsInvariant, PTL

\* ChildRecordsAlwaysAgree: if no real id is reported under two pids, parent
\* links, child lists and references agree for any number of processes,
\* children and renames (SessionRegistry!ChildRecordsAgree).
THEOREM ChildRecordsAlwaysAgree ==
  ASSUME AllExclusive
  PROVE  Spec => []ChildRecordsAgree
<1>1. KeptInv => ChildLinksMutual
  <2> SUFFICES ASSUME KeptInv, NEW p \in Pids, NEW c \in SyntheticPids,
                      IdAt(p) # NoId, IdAt(c) # NoId,
                      IdAt(c) \in sessions_by_pid[p].children
               PROVE  sessions_by_pid[c].parent = IdAt(p)
    BY DEF ChildLinksMutual
  <2>1. \A q : q \in Pids \/ q \in SyntheticPids => q \in AllPids
    BY DEF AllPids
  <2>2. /\ reg.rows[p] # NoRow /\ IdAt(p) = reg.rows[p].id
        /\ reg.rows[c] # NoRow /\ IdAt(c) = reg.rows[c].id
        /\ reg.rows[p] = sessions_by_pid[p] /\ reg.rows[c] = sessions_by_pid[c]
    BY <2>1, IdAtRow
  <2>3. PICK d \in SyntheticPids :
          RowAt(reg, d, IdAt(c)) /\ reg.rows[d].parent = reg.rows[p].id
    BY <2>2 DEF KeptInv, Kept, Mutual
  <2>4. Exclusive(IdAt(c))
    BY <2>1, <2>2, HolderKind, ChildIdExclusive DEF KeptInv, Kept, Core, Good
  <2>5. d = c
    BY <2>1, <2>2, <2>3, <2>4, OneHolder DEF KeptInv, Kept, Core, RowAt
  <2> QED
    BY <2>2, <2>3, <2>5
<1>2. KeptInv => ChildRecordsAgree
  BY <1>1, AliasesLiveKept DEF ChildRecordsAgree
<1> QED
  BY <1>2, RecordsInvariant, PTL

\* RealIdsAlwaysStay: no step of any process, discovery or sweep turns the
\* real id of a row that stays back into a pending one
\* (SessionRegistry!RealIdsStay).
THEOREM RealIdsAlwaysStay == Spec => RealIdsStay
<1>1. KeptInv /\ [Next]_vars =>
        [\A p \in Pids : IdAt(p) \in RealIds => IdAt(p)' \in RealIds \cup {NoId}]_vars
  BY NextStep DEF StepRight, RealIdsStep
<1> QED
  BY <1>1, RecordsInvariant, PTL DEF Spec, RealIdsStay

\* EndsAlwaysRecorded: the row of a process that still runs goes only in a
\* step that records a session's end for its pid
\* (SessionRegistry!EndsRecorded); the cascade of a removal never reaches
\* another agent's row, since child ids are indexed to synthetic pids alone.
THEOREM EndsAlwaysRecorded == Spec => EndsRecorded
<1>1. KeptInv /\ [Next]_vars =>
        [\A p \in Pids :
           /\ IdAt(p) # NoId /\ IdAt(p)' = NoId
           /\ IsProcessAlive(sessions_by_pid[p], p)
           => \E id \in ProcIds : <<id, p>> \in ended_sessions']_vars
  BY NextStep DEF StepRight, EndsStep
<1> QED
  BY <1>1, RecordsInvariant, PTL DEF Spec, EndsRecorded

-----------------------------------------------------------------------------
(* One process that moves (ClearDelivery).  After a move from a session the  *)
(* registry knew, it has one row, under the session it moved to, in every    *)
(* order of the move's frames but those that begin with the new session's    *)
(* status line ahead of both hooks.  Only the agent's own row exists here,   *)
(* so one lemma per handler says which id the row has afterwards and which   *)
(* end markers there are; they hold in every order.                          *)

\* IdAt(agent), of a state.
AgentId(s) == IF s.rows[agent] = NoRow THEN NoId ELSE s.rows[agent].id

\* The agent's row is the only one, if there is any, and is that of the
\* process that runs now.
Alone(s) ==
  /\ Good(s)
  /\ \A q \in AllPids :
       s.rows[q] # NoRow => q = agent /\ s.rows[q].start = starts[agent]

Running == EnvOK /\ agent \in live

\* t is a state with that id for the agent's row, and those end markers.
Result(t, id, ended) == Alone(t) /\ AgentId(t) = id /\ t.ended = ended

-----------------------------------------------------------------------------
(* Parts of handlers *)

LEMMA AgentPid == agent \in Pids /\ agent \in AllPids /\ agent # NoPid
  BY ClearAssumption, PidAssumption DEF AllPids

LEMMA AgentIdType ==
  ASSUME NEW s, Alone(s)
  PROVE  /\ AgentId(s) \in ProcIds \cup {NoId}
         /\ (AgentId(s) = NoId) <=> (s.rows[agent] = NoRow)
         /\ agent \in Held(s) <=> AgentId(s) # NoId
<1>1. s.rows[agent] # NoRow => s.rows[agent].id \in ProcIds
  BY AgentPid DEF Alone, Good, Typed
<1>2. NoId \notin ProcIds
  BY IdAssumption DEF SessionIds
<1> QED
  BY <1>1, <1>2, AgentPid DEF AgentId, Held

LEMMA ShapeAlone ==
  ASSUME NEW s, Alone(s), NEW t, SameShape(s, t)
  PROVE  Alone(t) /\ AgentId(t) = AgentId(s)
<1>1. Good(t)
  BY ShapeGood DEF Alone
<1> QED
  BY <1>1, AgentPid DEF Alone, SameShape, AgentId

\* What publishing, renaming links and events leave alone.
LEMMA PublishResult ==
  ASSUME NEW s, Alone(s)
  PROVE  Result(PublishUpdated(s, agent), AgentId(s), s.ended)
<1>1. SameShape(s, PublishUpdated(s, agent))
  BY PublishShape, AgentPid DEF Alone, Good
<1>2. PublishUpdated(s, agent).ended = s.ended
  BY DEF PublishUpdated, Alone, Good, Typed, RegState
<1> QED
  BY <1>1, <1>2, ShapeAlone DEF Result

LEMMA MarkersResult ==
  ASSUME NEW s, Alone(s), NEW E \in SUBSET (ProcIds \X Pids)
  PROVE  Result([s EXCEPT !.ended = E], AgentId(s), E)
<1> DEFINE t == [s EXCEPT !.ended = E]
<1>1. SameShape(s, t) /\ t.ended = E
  BY DEF Alone, Good, Typed, RegState, SameShape
<1> HIDE DEF t
<1>2. Result(t, AgentId(s), E)
  BY <1>1, ShapeAlone DEF Result
<1> QED
  BY <1>2 DEF t

LEMMA ReconcileResult ==
  ASSUME NEW s, Alone(s), s.rows[agent] # NoRow, NEW new \in ProcIds, NEW tie
  PROVE  Result(ReconcileSessionId(s, agent, new, tie), new, s.ended)
<1> DEFINE old == s.rows[agent].id
           u == [s EXCEPT !.rows[agent].id = new]
           s1 == Unindex(u, old, agent)
           s2 == [s1 EXCEPT !.index[new] = agent]
           s3 == PublishRemoved(s2, old)
           t == RenameLinks(s3, old, new, tie)
<1>1. Good(s) /\ agent \in Pids /\ agent \in AllPids /\ s.rows[agent] \in Row
  BY AgentPid DEF Alone, Good, Typed, RegState
<1>2. old \in ProcIds /\ old \in SessionIds /\ new \in SessionIds
  BY <1>1 DEF Good, Typed, SessionIds
<1>3. t = ReconcileSessionId(s, agent, new, tie)
  BY DEF ReconcileSessionId
<1>4. Good(s2)
  BY <1>1, RetitleRow, ReindexGood
<1>5. Good(s3)
  BY <1>2, <1>4, PublishRemovedGood
<1>6. s3.rows = u.rows /\ s3.ended = u.ended
  BY DEF PublishRemoved, Unindex
<1>7. /\ u.ended = s.ended
      /\ u.rows = [s.rows EXCEPT ![agent] = [s.rows[agent] EXCEPT !.id = new]]
  BY <1>1 DEF Good, Typed, RegState
<1> HIDE DEF u, s3
<1>8. [s.rows[agent] EXCEPT !.id = new] \in Row
  BY <1>1, <1>2 DEF Row
<1>9. /\ s3.rows[agent] # NoRow /\ s3.rows[agent].id = new
      /\ s3.rows[agent].start = s.rows[agent].start
      /\ \A q \in AllPids \ {agent} : s3.rows[q] = s.rows[q]
  BY <1>1, <1>6, <1>7, <1>8, NullNotRow DEF Good, Typed, RegState, Row
<1>10. Alone(s3) /\ AgentId(s3) = new
  BY <1>1, <1>5, <1>9 DEF Alone, AgentId
<1>11. SameShape(s3, t)
  BY <1>2, <1>5, RenameLinksShape DEF Good
<1>12. t.ended = s3.ended
  BY <1>5 DEF RenameLinks, Good, Typed, RegState
<1> HIDE DEF t
<1>13. Result(t, new, s.ended)
  BY <1>6, <1>7, <1>10, <1>11, <1>12, ShapeAlone DEF Result
<1> QED
  BY <1>3, <1>13

\* A registry with room for one row has room for the agent's.
LEMMA RoomForAgent ==
  ASSUME NEW s, Alone(s), s.rows[agent] = NoRow, MaxSessions > 0
  PROVE  ~Full(s)
<1>1. Held(s) = {}
  BY DEF Held, Alone
<1> QED
  BY <1>1, FS_EmptySet, BoundAssumption DEF Full

LEMMA InsertResult ==
  ASSUME NEW s, Alone(s), Running, s.rows[agent] = NoRow, ~Full(s),
         NEW id \in ProcIds, NEW parent \in RealIds \cup {NoId}, NEW t,
         t = InsertNewSession(s, agent,
                              NewRow(id, parent, "Idle", StartTime(agent)))
  PROVE  Result(t, id, s.ended)
<1> DEFINE row == NewRow(id, parent, "Idle", StartTime(agent))
<1>1. RowFits(agent, row)
  BY AgentPid, FreshRowFits DEF Running
<1>2. row.id = id /\ row.start = starts[agent]
  BY DEF NewRow, StartTime, Running
<1>3. t = InsertNewSession(s, agent, row)
  OBVIOUS
<1> HIDE DEF row
<1>4. Good(t) /\ t.rows = [s.rows EXCEPT ![agent] = row]
  BY <1>1, <1>3, AgentPid, InsertGood DEF Alone
<1>5. row # NoRow
  BY <1>1, NullNotRow DEF RowFits
<1>6. t.ended = s.ended
  BY <1>3 DEF InsertNewSession, Alone, Good, Typed, RegState
<1>7. /\ t.rows[agent] = row
      /\ \A q \in AllPids \ {agent} : t.rows[q] = s.rows[q]
  BY <1>4, AgentPid DEF Alone, Good, Typed, RegState
<1>8. Alone(t) /\ AgentId(t) = id
  BY <1>2, <1>4, <1>5, <1>7 DEF Alone, AgentId
<1> QED
  BY <1>6, <1>8 DEF Result

\* Rows only go; one that stays keeps its id and its start.
LEMMA RemoveAlone ==
  ASSUME NEW s, Alone(s), NEW roots, NEW t, t = RemoveRows(s, roots)
  PROVE  /\ Alone(t) /\ t.ended = s.ended
         /\ agent \in roots => AgentId(t) = NoId
         /\ roots = {} => AgentId(t) = AgentId(s)
<1>1. Good(s) /\ Good(t)
  BY RemoveRowsGood DEF Alone
<1>2. /\ t.ended = s.ended
      /\ \A p \in AllPids :
           /\ p \in Doomed(s, roots) => t.rows[p] = NoRow
           /\ s.rows[p] = NoRow => t.rows[p] = NoRow
           /\ p \notin Doomed(s, roots) /\ s.rows[p] # NoRow =>
                /\ t.rows[p] # NoRow
                /\ t.rows[p] =
                     [s.rows[p] EXCEPT !.children = @ \ LostBy(s, roots, p)]
  BY <1>1, RemoveParts
<1>3. ASSUME NEW p \in AllPids, p \notin Doomed(s, roots), s.rows[p] # NoRow
      PROVE  /\ t.rows[p] # NoRow /\ t.rows[p].id = s.rows[p].id
             /\ t.rows[p].start = s.rows[p].start
  <2>1. s.rows[p] \in Row
    BY <1>1, <1>3 DEF Good, Typed, RegState
  <2> QED
    BY <1>2, <1>3, <2>1 DEF Row
<1>4. Alone(t)
  BY <1>1, <1>2, <1>3 DEF Alone
<1>5. agent \in roots => AgentId(t) = NoId
  <2> SUFFICES ASSUME agent \in roots PROVE t.rows[agent] = NoRow
    BY DEF AgentId
  <2>1. s.rows[agent] # NoRow => agent \in Doomed(s, roots)
    BY AgentPid, DoomedFacts DEF Held
  <2> QED
    BY <1>2, <2>1, AgentPid
<1>6. roots = {} => AgentId(t) = AgentId(s)
  <2> SUFFICES ASSUME roots = {} PROVE AgentId(t) = AgentId(s)
    OBVIOUS
  <2>1. Doomed(s, roots) \subseteq {}
    BY DoomedFacts
  <2> QED
    BY <1>2, <1>3, <2>1, AgentPid DEF AgentId
<1> QED
  BY <1>2, <1>4, <1>5, <1>6

LEMMA EndResult ==
  ASSUME NEW s, Alone(s), NEW id \in ProcIds
  PROVE  Result(EndSessionIn(s, id, agent), NoId, s.ended \cup {<<id, agent>>})
<1> DEFINE E == s.ended \cup {<<id, agent>>}
           u == [s EXCEPT !.ended = E]
<1>1. E \in SUBSET (ProcIds \X Pids)
  BY AgentPid DEF Alone, Good, Typed, RegState
<1> HIDE DEF E
<1>2. Alone(u) /\ u.ended = E
  BY <1>1, MarkersResult DEF Result
<1>3. EndSessionIn(s, id, agent) = RemoveRows(u, {agent})
  BY DEF EndSessionIn, E
<1> HIDE DEF u
<1>4. Result(RemoveRows(u, {agent}), NoId, E)
  BY <1>2, RemoveAlone DEF Result
<1> QED
  BY <1>3, <1>4 DEF E

\* An event without a child, an alias or a report on the background.
LEMMA EventResult ==
  ASSUME NEW s, Alone(s), s.rows[agent] # NoRow,
         NEW kind \in {"SessionStart", "Other"}, NEW effect \in Status
  PROVE  Result(ApplyEvent(s, agent, Event(kind, effect)), AgentId(s), s.ended)
<1> DEFINE e == Event(kind, effect)
           row == [s.rows[agent] EXCEPT !.status = StatusAfter(@, effect)]
           u == WithRow(s, agent, row)
<1>1. /\ e.kind = kind /\ e.effect = effect /\ e.alias = <<>>
      /\ e.child = NoId /\ e.background = "none"
  BY DEF Event
<1>2. ApplyEvent(s, agent, e) = ApplyToSession(s, agent, effect)
  BY <1>1 DEF ApplyEvent, TrackChildren, ApplyBackgroundActivity
<1>3. ApplyToSession(s, agent, effect) = PublishUpdated(u, agent)
  BY DEF ApplyToSession, WithRow
<1>4. s.rows[agent] \in Row
  BY AgentPid DEF Alone, Good, Typed, RegState
<1>5. row \in Row /\ row.id = s.rows[agent].id /\ row.start = s.rows[agent].start
  BY <1>4 DEF Row, StatusAfter, Status
<1> HIDE DEF row
<1>6. SameShape(s, u)
  BY <1>5, AgentPid, ReplaceRowGood DEF Alone
<1>7. u.ended = s.ended
  BY DEF WithRow, Alone, Good, Typed, RegState
<1>8. Alone(u) /\ AgentId(u) = AgentId(s)
  BY <1>6, ShapeAlone
<1> HIDE DEF u, e
<1>9. Result(PublishUpdated(u, agent), AgentId(s), s.ended)
  BY <1>7, <1>8, PublishResult
<1> QED
  BY <1>2, <1>3, <1>9 DEF e

-----------------------------------------------------------------------------
(* Handlers *)

LEMMA SessionEndResult ==
  ASSUME NEW s, Alone(s), NEW id \in ProcIds, NEW tie, NEW t,
         t = HandleApplyLifecycleEvent(s, id, agent, Event("SessionEnd", "Idle"), tie)
  PROVE  IF \/ AgentId(s) = NoId
            \/ AgentId(s) # id /\ EndedIn(s, id, agent)
         THEN t = s
         ELSE Result(t, NoId, s.ended \cup {<<id, agent>>})
<1>1. t = HandleSessionEnd(s, id, agent)
  BY AgentPid DEF HandleApplyLifecycleEvent, Target, Untagged, Event
<1>2. CASE agent \notin Held(s)
  BY <1>1, <1>2, AgentIdType DEF HandleSessionEnd
<1>3. CASE agent \in Held(s)
  <2>1. AgentId(s) = s.rows[agent].id /\ AgentId(s) # NoId
    BY <1>3, AgentIdType DEF AgentId, Held
  <2> QED
    BY <1>1, <1>3, <2>1, EndResult DEF HandleSessionEnd
<1> QED
  BY <1>2, <1>3

\* An event that is no end, by the row it finds after AdoptSessionId.
LEMMA AppliedResult ==
  ASSUME NEW s, Alone(s), Running, NEW id \in RealIds,
         NEW kind \in {"SessionStart", "Other"}, NEW effect \in Status,
         NEW tie, NEW s1, NEW s2, Alone(s2),
         s1 = IF kind = "SessionStart"
              THEN [s EXCEPT !.ended = @ \ {<<id, agent>>}] ELSE s,
         s2 = AdoptSessionId(s1, id, agent, Event(kind, effect), tie),
         NEW t,
         t = HandleApplyLifecycleEvent(s, id, agent, Event(kind, effect), tie)
  PROVE  /\ AgentId(s2) # NoId => Result(t, AgentId(s2), s2.ended)
         /\ AgentId(s2) = NoId /\ Full(s2) => t = s2
         /\ AgentId(s2) = NoId /\ ~Full(s2) => Result(t, id, s2.ended)
<1> DEFINE e == Event(kind, effect)
           row == NewRow(id, ParentOnCmdline(agent), "Idle", StartTime(agent))
           s3 == InsertNewSession(s2, agent, row)
<1>1. /\ Untagged(e, "SessionStart") <=> kind = "SessionStart"
      /\ ~Untagged(e, "SessionEnd")
  BY DEF Untagged, Event
<1>2. Target(s, id, agent) = agent
  BY AgentPid DEF Target
<1>3. t = IF agent \in Held(s2) THEN ApplyEvent(s2, agent, e)
          ELSE IF Full(s2) THEN s2
          ELSE ApplyEvent(s3, agent, e)
  BY <1>1, <1>2, AgentPid DEF HandleApplyLifecycleEvent
<1> HIDE DEF e
<1>4. agent \in Held(s2) <=> AgentId(s2) # NoId
  BY AgentIdType
<1>5. ASSUME AgentId(s2) # NoId
      PROVE  Result(t, AgentId(s2), s2.ended)
  <2>1. s2.rows[agent] # NoRow
    BY <1>5, AgentIdType
  <2>2. Result(ApplyEvent(s2, agent, e), AgentId(s2), s2.ended)
    BY <2>1, EventResult DEF e
  <2> QED
    BY <1>3, <1>4, <1>5, <2>2
<1>6. ASSUME AgentId(s2) = NoId, ~Full(s2)
      PROVE  Result(t, id, s2.ended)
  <2>1. ParentOnCmdline(agent) \in RealIds \cup {NoId} /\ id \in ProcIds
    BY AgentPid, BoundAssumption DEF ParentOnCmdline, ProcIds
  <2>2. s2.rows[agent] = NoRow
    BY <1>6, AgentIdType
  <2>3. Result(s3, id, s2.ended)
    BY <1>6, <2>1, <2>2, InsertResult
  <2> HIDE DEF s3
  <2>4. s3.rows[agent] # NoRow
    BY <2>1, <2>3, IdAssumption, AgentIdType DEF Result, SessionIds
  <2>5. Result(ApplyEvent(s3, agent, e), AgentId(s3), s3.ended)
    BY <2>3, <2>4, EventResult DEF e, Result
  <2> QED
    BY <1>3, <1>4, <1>6, <2>3, <2>5 DEF Result
<1> QED
  BY <1>3, <1>4, <1>5, <1>6

LEMMA SessionStartResult ==
  ASSUME NEW s, Alone(s), Running, NEW id \in RealIds, NEW tie, NEW t,
         t = HandleApplyLifecycleEvent(s, id, agent, Event("SessionStart", "Idle"), tie)
  PROVE  /\ Alone(t)
         /\ MaxSessions > 0 => AgentId(t) = id
         /\ s.ended \ {<<id, agent>>} \subseteq t.ended
         /\ AgentId(s) \in RealIds \ {id} => <<AgentId(s), agent>> \in t.ended
<1> DEFINE e == Event("SessionStart", "Idle")
           E == s.ended \ {<<id, agent>>}
           s1 == [s EXCEPT !.ended = E]
           s2 == AdoptSessionId(s1, id, agent, e, tie)
           old == AgentId(s)
<1>1. id \in ProcIds /\ id # NoId /\ ~Pending(id)
  BY IdAssumption DEF ProcIds, SessionIds, Pending
<1>2. Result(s1, old, E)
  <2>1. E \in SUBSET (ProcIds \X Pids)
    BY DEF Alone, Good, Typed, RegState
  <2> HIDE DEF E
  <2> QED
    BY <2>1, MarkersResult
<1>3. Alone(s1) /\ AgentId(s1) = old /\ s1.ended = E
  BY <1>2 DEF Result
<1>4. old \in ProcIds \cup {NoId}
  BY AgentIdType
<1>5. s1 = [s EXCEPT !.ended = @ \ {<<id, agent>>}]
  OBVIOUS
<1> HIDE DEF s1
<1>6. /\ Alone(s2) /\ AgentId(s2) \in {NoId, id}
      /\ E \subseteq s2.ended
      /\ old \in RealIds \ {id} => <<old, agent>> \in s2.ended
  <2>1. CASE old = NoId
    <3>1. s2 = s1
      BY <1>3, <2>1, AgentIdType DEF AdoptSessionId
    <3>2. old \notin RealIds
      BY <2>1, IdAssumption DEF SessionIds, ProcIds
    <3> QED
      BY <1>3, <2>1, <3>1, <3>2
  <2>2. CASE old = id
    <3>1. s1.rows[agent].id = id
      BY <1>1, <1>3, <2>2 DEF AgentId
    <3>2. s2 = s1
      BY <3>1 DEF AdoptSessionId
    <3> QED
      BY <1>3, <2>2, <3>2
  <2>3. CASE old # id /\ old \in PendingIds
    <3>1. s1.rows[agent] # NoRow /\ s1.rows[agent].id = old /\ agent \in Held(s1)
      BY <1>1, <1>3, <2>3, AgentIdType, IdAssumption DEF AgentId, SessionIds, ProcIds
    <3>2. s2 = ReconcileSessionId(s1, agent, id, tie)
      BY <1>1, <2>3, <3>1 DEF AdoptSessionId, Pending
    <3>3. Result(s2, id, E)
      BY <1>1, <1>3, <3>1, <3>2, ReconcileResult
    <3>4. old \notin RealIds
      BY <2>3, IdAssumption
    <3> QED
      BY <3>3, <3>4 DEF Result
  <2>4. CASE old # id /\ old \in RealIds
    <3>1. s1.rows[agent] # NoRow /\ s1.rows[agent].id = old /\ agent \in Held(s1)
      BY <1>1, <1>3, <2>4, AgentIdType, IdAssumption DEF AgentId, SessionIds, ProcIds
    <3>2. ~Pending(old) /\ old \in ProcIds
      BY <2>4, IdAssumption DEF Pending, ProcIds
    <3>3. s2 = EndSessionIn(s1, old, agent)
      BY <1>1, <2>4, <3>1, <3>2 DEF AdoptSessionId, Untagged, Event
    <3>4. Result(s2, NoId, E \cup {<<old, agent>>})
      BY <1>3, <3>2, <3>3, EndResult
    <3> QED
      BY <3>4 DEF Result
  <2> QED
    BY <1>4, <2>1, <2>2, <2>3, <2>4 DEF ProcIds
<1>7. "SessionStart" \in {"SessionStart", "Other"} /\ "Idle" \in Status
  BY DEF Status
<1>8. s2 = AdoptSessionId(s1, id, agent, Event("SessionStart", "Idle"), tie)
  OBVIOUS
<1> HIDE DEF s2, e
<1>9. /\ AgentId(s2) # NoId => Result(t, AgentId(s2), s2.ended)
      /\ AgentId(s2) = NoId /\ Full(s2) => t = s2
      /\ AgentId(s2) = NoId /\ ~Full(s2) => Result(t, id, s2.ended)
  BY <1>5, <1>6, <1>7, <1>8, AppliedResult
<1>10. Alone(t) /\ t.ended = s2.ended
  BY <1>6, <1>9 DEF Result
<1>11. MaxSessions > 0 => AgentId(t) = id
  <2>1. MaxSessions > 0 /\ AgentId(s2) = NoId => ~Full(s2)
    BY <1>6, AgentIdType, RoomForAgent
  <2> QED
    BY <1>6, <1>9, <2>1 DEF Result
<1> QED
  BY <1>6, <1>10, <1>11

LEMMA OrdinaryResult ==
  ASSUME NEW s, Alone(s), Running, NEW id \in RealIds, NEW tie, NEW t,
         t = HandleApplyLifecycleEvent(s, id, agent, Event("Other", "Working"), tie)
  PROVE  /\ Alone(t) /\ t.ended = s.ended
         /\ AgentId(s) \in RealIds => AgentId(t) = AgentId(s)
<1> DEFINE e == Event("Other", "Working")
           s2 == AdoptSessionId(s, id, agent, e, tie)
           old == AgentId(s)
<1>1. id \in ProcIds /\ id # NoId /\ NoId \notin RealIds
  BY IdAssumption DEF ProcIds, SessionIds
<1>2. /\ Alone(s2) /\ s2.ended = s.ended
      /\ old \in RealIds => AgentId(s2) = old
  <2>1. CASE agent \notin Held(s) \/ Pending(id) \/ s.rows[agent].id = id
    <3>1. s2 = s
      BY <2>1 DEF AdoptSessionId
    <3> QED
      BY <3>1
  <2>2. CASE /\ agent \in Held(s) /\ ~Pending(id) /\ s.rows[agent].id # id
             /\ Pending(s.rows[agent].id)
    <3>1. s.rows[agent] # NoRow /\ old = s.rows[agent].id
      BY <2>2 DEF Held, AgentId
    <3>2. s2 = ReconcileSessionId(s, agent, id, tie)
      BY <2>2 DEF AdoptSessionId
    <3>3. Result(s2, id, s.ended)
      BY <1>1, <3>1, <3>2, ReconcileResult
    <3>4. old \notin RealIds
      BY <2>2, <3>1, IdAssumption DEF Pending
    <3> QED
      BY <3>3, <3>4 DEF Result
  <2>3. CASE /\ agent \in Held(s) /\ ~Pending(id) /\ s.rows[agent].id # id
             /\ ~Pending(s.rows[agent].id)
    <3>1. s2 = s
      BY <2>3 DEF AdoptSessionId, Untagged, Event
    <3> QED
      BY <3>1
  <2> QED
    BY <2>1, <2>2, <2>3
<1>3. "Other" \in {"SessionStart", "Other"} /\ "Working" \in Status
  BY DEF Status
<1>4. s2 = AdoptSessionId(s, id, agent, Event("Other", "Working"), tie)
  OBVIOUS
<1> HIDE DEF s2, e
<1>5. /\ AgentId(s2) # NoId => Result(t, AgentId(s2), s2.ended)
      /\ AgentId(s2) = NoId /\ Full(s2) => t = s2
      /\ AgentId(s2) = NoId /\ ~Full(s2) => Result(t, id, s2.ended)
  BY <1>2, <1>3, <1>4, AppliedResult
<1> QED
  BY <1>1, <1>2, <1>5 DEF Result

LEMMA StatusResult ==
  ASSUME NEW s, Alone(s), Running, NEW id \in RealIds, NEW tie, NEW t,
         t = HandleUpdateFromStatusLine(s, id, agent, tie)
  PROVE  /\ Alone(t) /\ t.ended = s.ended
         /\ EndedIn(s, id, agent) => t = s
         /\ AgentId(t) \in {AgentId(s), id}
<1> DEFINE s1 == IF agent \in Held(s) /\ s.rows[agent].id # id
                 THEN ReconcileSessionId(s, agent, id, tie) ELSE s
           row == NewRow(id, NoId, "Idle", StartTime(agent))
           s3 == InsertNewSession(s, agent, row)
<1>1. id \in ProcIds /\ NoId \in RealIds \cup {NoId}
  BY DEF ProcIds
<1>2. t = IF EndedIn(s, id, agent) THEN s
          ELSE IF agent \in Held(s) THEN PublishUpdated(s1, agent)
          ELSE IF Full(s) THEN s
          ELSE PublishUpdated(s3, agent)
  BY AgentPid DEF HandleUpdateFromStatusLine, UpdateOrCreateByPid
<1>3. Alone(s1) /\ s1.ended = s.ended /\ AgentId(s1) \in {AgentId(s), id}
  <2>1. CASE agent \in Held(s) /\ s.rows[agent].id # id
    BY <1>1, <2>1, ReconcileResult DEF Held, Result
  <2>2. CASE ~(agent \in Held(s) /\ s.rows[agent].id # id)
    BY <2>2
  <2> QED
    BY <2>1, <2>2
<1> HIDE DEF s1
<1>4. Result(PublishUpdated(s1, agent), AgentId(s1), s1.ended)
  BY <1>3, PublishResult
<1>5. ASSUME agent \notin Held(s), ~Full(s)
      PROVE  Result(PublishUpdated(s3, agent), id, s.ended)
  <2>1. s.rows[agent] = NoRow
    BY <1>5, AgentPid DEF Held
  <2>2. Result(s3, id, s.ended)
    BY <1>1, <1>5, <2>1, InsertResult
  <2> HIDE DEF s3
  <2>3. Result(PublishUpdated(s3, agent), AgentId(s3), s3.ended)
    BY <2>2, PublishResult DEF Result
  <2> QED
    BY <2>2, <2>3 DEF Result
<1> HIDE DEF s3
<1> QED
  BY <1>2, <1>3, <1>4, <1>5 DEF Result

LEMMA DiscoverResult ==
  ASSUME NEW s, Alone(s), Running, NEW tie, NEW t,
         t = HandleRegisterDiscovered(s, agent, tie)
  PROVE  /\ Alone(t) /\ t.ended = s.ended
         /\ AgentId(s) \in RealIds => AgentId(t) = AgentId(s)
<1>1. CASE s.rows[agent] = NoRow /\ Full(s)
  BY <1>1 DEF HandleRegisterDiscovered
<1>2. CASE s.rows[agent] = NoRow /\ ~Full(s)
  <2> DEFINE row == NewRow(pendingId[agent], ParentOnCmdline(agent), "Idle",
                           StartTime(agent))
             u == InsertNewSession(s, agent, row)
  <2>1. /\ pendingId[agent] \in ProcIds
        /\ ParentOnCmdline(agent) \in RealIds \cup {NoId}
    BY AgentPid, IdAssumption, BoundAssumption DEF ParentOnCmdline, ProcIds
  <2>2. Result(u, pendingId[agent], s.ended)
    BY <1>2, <2>1, InsertResult
  <2>3. t = PublishUpdated(u, agent)
    BY <1>2 DEF HandleRegisterDiscovered
  <2> HIDE DEF u
  <2>4. Result(t, AgentId(u), u.ended)
    BY <2>2, <2>3, PublishResult DEF Result
  <2>5. AgentId(s) \notin RealIds
    BY <1>2, IdAssumption DEF AgentId, SessionIds, ProcIds
  <2> QED
    BY <2>2, <2>4, <2>5 DEF Result
<1>3. CASE s.rows[agent] # NoRow
  <2> DEFINE old == s.rows[agent].id
             new == IF Pending(old) THEN pendingId[agent] ELSE old
             u == [s EXCEPT !.rows[agent].id = new]
             s1 == PublishUpdated(u, agent)
             s2 == RenameLinks(s1, old, new, tie)
             s3 == [Unindex(s2, old, agent) EXCEPT !.index[new] = agent]
  <2>1. Good(s) /\ Good(t) /\ agent \in AllPids /\ s.rows[agent] \in Row
    <3>1. Good(s) /\ Good(t) /\ agent \in AllPids
      BY AgentPid, DiscoverGood DEF Alone, Running
    <3> QED
      BY <1>3, <3>1 DEF Good, Typed, RegState
  <2>2. t = IF old = pendingId[agent] THEN s ELSE s3
    BY <1>3 DEF HandleRegisterDiscovered
  <2>3. old \in ProcIds /\ new \in ProcIds /\ new \in SessionIds
    BY <1>3, <2>1, AgentPid, IdAssumption
       DEF Good, Typed, SessionIds, ProcIds, PendingIds
  <2>4. old \in RealIds => new = old
    BY IdAssumption DEF Pending
  <2> HIDE DEF new
  <2>5. /\ Retitled(s, u, agent, new) /\ u.ended = s.ended
        /\ u.rows = [s.rows EXCEPT ![agent] = [s.rows[agent] EXCEPT !.id = new]]
    BY <1>3, <2>1, <2>3, AgentPid, RetitleRow DEF Good, Typed, RegState
  <2> HIDE DEF u
  <2>6. /\ u.rows[agent].id = new /\ u.rows[agent].start = s.rows[agent].start
        /\ \A q \in AllPids \ {agent} : u.rows[q] = s.rows[q]
    BY <2>1, <2>5 DEF Row, Good, Typed, RegState
  <2>7. SameShape(u, s1) /\ s1.ended = u.ended
    BY <2>1, <2>5, PublishShape DEF Retitled, PublishUpdated, Typed, RegState
  <2> HIDE DEF s1
  <2>8. SameShape(s1, s2) /\ s2.ended = s1.ended
    <3>1. Typed(s1)
      BY <2>5, <2>7, ShapeTyped DEF Retitled
    <3>2. SameShape(s1, s2)
      BY <2>3, <3>1, RenameLinksShape
    <3>3. s2.ended = s1.ended
      BY <3>1 DEF RenameLinks, Typed, RegState
    <3> QED
      BY <3>2, <3>3
  <2> HIDE DEF s2
  <2>9. s3.rows = s2.rows /\ s3.ended = s2.ended
    BY <2>8 DEF Unindex, SameShape, RegState
  <2> HIDE DEF s3
  <2>10. /\ s2.rows[agent] # NoRow /\ s2.rows[agent].id = new
         /\ s2.rows[agent].start = s.rows[agent].start
         /\ \A q \in AllPids \ {agent} : (s2.rows[q] = NoRow) <=> (s.rows[q] = NoRow)
    BY <2>1, <2>5, <2>6, <2>7, <2>8 DEF SameShape, Retitled
  <2>11. CASE old = pendingId[agent]
    BY <2>2, <2>11
  <2>12. CASE old # pendingId[agent]
    <3>1. t.rows = s2.rows /\ t.ended = s.ended
      BY <2>2, <2>5, <2>7, <2>8, <2>9, <2>12
    <3>2. Alone(t) /\ AgentId(t) = new
      BY <1>3, <2>1, <2>10, <3>1 DEF Alone, AgentId
    <3>3. AgentId(s) = old
      BY <1>3 DEF AgentId
    <3> QED
      BY <2>4, <3>1, <3>2, <3>3
  <2> QED
    BY <2>11, <2>12
<1> QED
  BY <1>1, <1>2, <1>3

LEMMA CleanupResult ==
  ASSUME NEW s, Alone(s), Running
  PROVE  Result(HandleCleanupStale(s), AgentId(s), s.ended)
<1> DEFINE roots == {p \in Held(s) : ~IsProcessAlive(s.rows[p], p)}
<1>1. roots = {}
  BY DEF Held, Alone, Running, IsProcessAlive
<1>2. HandleCleanupStale(s) = RemoveRows(s, roots)
  BY DEF HandleCleanupStale
<1> HIDE DEF roots
<1> QED
  BY <1>1, <1>2, RemoveAlone DEF Result

-----------------------------------------------------------------------------
(* The invariant *)

FrameIs(kind, id) == [kind |-> kind, id |-> id] \in inflight

\* What holds while frames of the move that left the session old are on
\* their way: until either hook of the move has been handled, the row is the
\* session left; a hook that has been handled has recorded that session's
\* end; and once the start has been handled, the row is the new session's.
Midway(old) ==
  /\ old \in RealIds \ {current}
  /\ inflight \subseteq Frames(old, current)
  /\ FrameIs("end", old) /\ FrameIs("start", current) => IdAt(agent) = old
  /\ ~(FrameIs("end", old) /\ FrameIs("start", current)) =>
       EndedIn(reg, old, agent)
  /\ ~FrameIs("start", current) => IdAt(agent) = current

\* The inductive invariant.
Settled ==
  /\ Alone(reg) /\ Running
  /\ current \in Reports[agent] /\ moves \in Nat
  /\ inflight # {} => moves > 0
  /\ orderly =>
       /\ moves > 0 => MaxSessions > 0
       /\ inflight # {} => \E old : Midway(old)
       /\ inflight = {} /\ moves > 0 => IdAt(agent) = current

LEMMA IdAtAgent == IdAt(agent) = AgentId(reg)
  BY DEF IdAt, AgentId, reg

LEMMA ReportedReal == Reports[agent] \subseteq RealIds
  BY AgentPid, BoundAssumption

\* What a command leaves: the registry in the state s, nothing else changed.
LEMMA BecomeFacts ==
  ASSUME NEW s, Alone(s), Running, Become(s)
  PROVE  /\ Alone(reg)' /\ Running' /\ reg' = s
         /\ IdAt(agent)' = AgentId(s)
         /\ ended_sessions' = s.ended
<1>1. /\ sessions_by_pid' = s.rows /\ session_id_to_pid' = s.index
      /\ child_refs' = s.refs /\ ended_sessions' = s.ended /\ feed' = s.feed
      /\ starts' = starts /\ live' = live
  BY DEF Become
<1>2. reg' = s
  BY <1>1 DEF reg, Alone, Good, Typed, RegState
<1>3. Good(reg)' <=> Good(s)
  BY <1>2 DEF Good, Typed, Sound, Held
<1>4. Alone(reg)'
  BY <1>1, <1>2, <1>3 DEF Alone
<1>5. Running'
  BY <1>1 DEF Running, EnvOK
<1> QED
  BY <1>1, <1>2, <1>4, <1>5 DEF IdAt, AgentId

\* What each report of the agent does.
LEMMA StartStep ==
  ASSUME Settled, NEW id \in RealIds, SessionStart(<<id, agent>>)
  PROVE  /\ Alone(reg)' /\ Running'
         /\ MaxSessions > 0 => IdAt(agent)' = id
         /\ \A i : i # id /\ EndedIn(reg, i, agent) => EndedIn(reg, i, agent)'
         /\ \A i \in RealIds \ {id} : IdAt(agent) = i => EndedIn(reg, i, agent)'
<1> DEFINE e == Event("SessionStart", "Idle")
<1>1. PICK tie \in SUBSET Names :
        Become(HandleApplyLifecycleEvent(reg, id, agent, e, tie))
  BY DEF SessionStart, Lifecycle
<1> DEFINE t == HandleApplyLifecycleEvent(reg, id, agent, e, tie)
<1>2. /\ Alone(t)
      /\ MaxSessions > 0 => AgentId(t) = id
      /\ reg.ended \ {<<id, agent>>} \subseteq t.ended
      /\ AgentId(reg) \in RealIds \ {id} => <<AgentId(reg), agent>> \in t.ended
  BY SessionStartResult DEF Settled
<1> HIDE DEF t
<1>3. Alone(reg)' /\ Running' /\ reg' = t /\ IdAt(agent)' = AgentId(t)
  BY <1>1, <1>2, BecomeFacts DEF Settled, t
<1> QED
  BY <1>2, <1>3, IdAtAgent DEF EndedIn

LEMMA EndStep ==
  ASSUME Settled, NEW id \in RealIds, SessionEnd(<<id, agent>>)
  PROVE  /\ Alone(reg)' /\ Running'
         /\ IdAt(agent) # id /\ EndedIn(reg, id, agent) =>
              reg' = reg /\ IdAt(agent)' = IdAt(agent)
         /\ IdAt(agent) = id => EndedIn(reg, id, agent)'
<1> DEFINE e == Event("SessionEnd", "Idle")
<1>1. PICK tie \in SUBSET Names :
        Become(HandleApplyLifecycleEvent(reg, id, agent, e, tie))
  BY DEF SessionEnd, Lifecycle
<1> DEFINE t == HandleApplyLifecycleEvent(reg, id, agent, e, tie)
<1>2. id \in ProcIds /\ id # NoId
  BY IdAssumption DEF ProcIds, SessionIds
<1>3. IF \/ AgentId(reg) = NoId
         \/ AgentId(reg) # id /\ EndedIn(reg, id, agent)
      THEN t = reg
      ELSE Result(t, NoId, reg.ended \cup {<<id, agent>>})
  BY <1>2, SessionEndResult DEF Settled
<1> HIDE DEF t
<1>4. Alone(t)
  BY <1>3 DEF Result, Settled
<1>5. Alone(reg)' /\ Running' /\ reg' = t /\ IdAt(agent)' = AgentId(t)
  BY <1>1, <1>4, BecomeFacts DEF Settled, t
<1> QED
  BY <1>2, <1>3, <1>5, IdAtAgent DEF EndedIn, Result

LEMMA OrdinaryStep ==
  ASSUME Settled, NEW id \in RealIds, OrdinaryEvent(<<id, agent>>, "Working")
  PROVE  /\ Alone(reg)' /\ Running'
         /\ \A i : EndedIn(reg, i, agent)' <=> EndedIn(reg, i, agent)
         /\ IdAt(agent) \in RealIds => IdAt(agent)' = IdAt(agent)
<1> DEFINE e == Event("Other", "Working")
<1>1. PICK tie \in SUBSET Names :
        Become(HandleApplyLifecycleEvent(reg, id, agent, e, tie))
  BY DEF OrdinaryEvent, Lifecycle
<1> DEFINE t == HandleApplyLifecycleEvent(reg, id, agent, e, tie)
<1>2. /\ Alone(t) /\ t.ended = reg.ended
      /\ AgentId(reg) \in RealIds => AgentId(t) = AgentId(reg)
  BY OrdinaryResult DEF Settled
<1> HIDE DEF t
<1>3. Alone(reg)' /\ Running' /\ reg' = t /\ IdAt(agent)' = AgentId(t)
  BY <1>1, <1>2, BecomeFacts DEF Settled, t
<1> QED
  BY <1>2, <1>3, IdAtAgent DEF EndedIn

LEMMA StatusStep ==
  ASSUME Settled, NEW id \in RealIds, StatusLine(<<id, agent>>)
  PROVE  /\ Alone(reg)' /\ Running'
         /\ \A i : EndedIn(reg, i, agent)' <=> EndedIn(reg, i, agent)
         /\ EndedIn(reg, id, agent) => reg' = reg /\ IdAt(agent)' = IdAt(agent)
         /\ IdAt(agent)' \in {IdAt(agent), id}
<1>1. PICK tie \in SUBSET Names :
        Become(HandleUpdateFromStatusLine(reg, id, agent, tie))
  BY DEF StatusLine
<1> DEFINE t == HandleUpdateFromStatusLine(reg, id, agent, tie)
<1>2. /\ Alone(t) /\ t.ended = reg.ended
      /\ EndedIn(reg, id, agent) => t = reg
      /\ AgentId(t) \in {AgentId(reg), id}
  BY StatusResult DEF Settled
<1> HIDE DEF t
<1>3. Alone(reg)' /\ Running' /\ reg' = t /\ IdAt(agent)' = AgentId(t)
  BY <1>1, <1>2, BecomeFacts DEF Settled, t
<1> QED
  BY <1>2, <1>3, IdAtAgent DEF EndedIn

\* Discovery and cleanup leave the row and the end markers of the agent alone.
LEMMA SweepStep ==
  ASSUME Settled, RegisterDiscovered(agent) \/ CleanupStale
  PROVE  /\ Alone(reg)' /\ Running'
         /\ \A i : EndedIn(reg, i, agent)' <=> EndedIn(reg, i, agent)
         /\ IdAt(agent) \in RealIds => IdAt(agent)' = IdAt(agent)
<1>1. PICK t : /\ Become(t) /\ Alone(t) /\ t.ended = reg.ended
               /\ AgentId(reg) \in RealIds => AgentId(t) = AgentId(reg)
  <2>1. CASE RegisterDiscovered(agent)
    <3>1. PICK tie \in SUBSET Names :
            Become(HandleRegisterDiscovered(reg, agent, tie))
      BY <2>1 DEF RegisterDiscovered
    <3> QED
      BY <3>1, DiscoverResult DEF Settled
  <2>2. CASE CleanupStale
    BY <2>2, CleanupResult DEF CleanupStale, Settled, Result
  <2> QED
    BY <2>1, <2>2
<1>2. Alone(reg)' /\ Running' /\ reg' = t /\ IdAt(agent)' = AgentId(t)
  BY <1>1, BecomeFacts DEF Settled
<1> QED
  BY <1>1, <1>2, IdAtAgent DEF EndedIn

LEMMA MarkerStep ==
  ASSUME Settled, NEW mark, MarkerExpires(mark)
  PROVE  Alone(reg)' /\ Running' /\ IdAt(agent)' = IdAt(agent)
<1> DEFINE E == reg.ended \ {mark}
           t == [reg EXCEPT !.ended = E]
<1>1. Become(t)
  BY DEF MarkerExpires
<1>2. E \in SUBSET (ProcIds \X Pids)
  BY DEF Settled, Alone, Good, Typed, RegState
<1> HIDE DEF E
<1>3. Result(t, AgentId(reg), E)
  BY <1>2, MarkersResult DEF Settled
<1> HIDE DEF t
<1> QED
  BY <1>1, <1>3, BecomeFacts, IdAtAgent DEF Settled, Result

-----------------------------------------------------------------------------
(* Steps *)

LEMMA InitSettled == ClearInit => Settled
<1> SUFFICES ASSUME ClearInit PROVE Settled
  OBVIOUS
<1>1. Good(reg) /\ EnvOK
  BY InitInv DEF ClearInit, Inv
<1>2. Alone(reg)
  BY <1>1 DEF ClearInit, Init, Alone, reg
<1>3. Running
  BY <1>1, AgentPid DEF ClearInit, Init, Running
<1> QED
  BY <1>2, <1>3 DEF Settled, ClearInit

\* A frame of the move is one of six, four kinds of two sessions.
LEMMA FrameKinds ==
  ASSUME NEW old \in RealIds, NEW frame \in Frames(old, current)
  PROVE  \/ frame = [kind |-> "end", id |-> old]
         \/ frame = [kind |-> "start", id |-> current]
         \/ frame = [kind |-> "status", id |-> old]
         \/ frame = [kind |-> "status", id |-> current]
         \/ frame.kind = "event" /\ frame.id \in {old, current}
  BY ClearAssumption DEF Frames

\* While both hooks of the move are on their way, HooksOut says so.
LEMMA HooksBoth ==
  ASSUME NEW old, FrameIs("end", old), FrameIs("start", current)
  PROVE  HooksOut
<1>1. /\ [kind |-> "end", id |-> old].kind = "end"
      /\ [kind |-> "start", id |-> current].kind = "start"
  OBVIOUS
<1> QED
  BY <1>1 DEF FrameIs, HooksOut

\* A frame of any kind, in whatever order, leaves the agent's row the only one.
LEMMA DeliverAlone ==
  ASSUME Settled, NEW frame \in Frame, Deliver(frame)
  PROVE  Alone(reg)' /\ Running'
<1>1. frame.id \in RealIds /\ Receive(frame)
  BY DEF Deliver, Frame
<1>2. CASE SessionEnd(<<frame.id, agent>>)
  BY <1>1, <1>2, EndStep
<1>3. CASE SessionStart(<<frame.id, agent>>)
  BY <1>1, <1>3, StartStep
<1>4. CASE StatusLine(<<frame.id, agent>>)
  BY <1>1, <1>4, StatusStep
<1>5. CASE OrdinaryEvent(<<frame.id, agent>>, "Working")
  BY <1>1, <1>5, OrdinaryStep
<1> QED
  BY <1>1, <1>2, <1>3, <1>4, <1>5 DEF Receive

\* When all frames are in, Midway is what MoveLeavesNewRow asks.
LEMMA MidwaySettled ==
  ASSUME NEW old, Midway(old), inflight = {}
  PROVE  IdAt(agent) = current
  BY DEF Midway, FrameIs

LEMMA DeliverMidway ==
  ASSUME Settled, orderly, NEW old, Midway(old), NEW frame, Deliver(frame), orderly'
  PROVE  Midway(old)'
<1>1. /\ frame \in inflight /\ inflight' = inflight \ {frame}
      /\ current' = current /\ moves' = moves
      /\ Receive(frame)
  BY DEF Deliver
<1>2. /\ old \in RealIds /\ current \in RealIds /\ old # current
      /\ MaxSessions > 0
  BY <1>1, ReportedReal DEF Settled, Midway
<1>3. inflight' \subseteq Frames(old, current) /\ frame \in Frames(old, current)
  BY <1>1 DEF Midway
<1> DEFINE E == FrameIs("end", old)
           S == FrameIs("start", current)
           ended == EndedIn(reg, old, agent)
           id == IdAt(agent)
<1>4. /\ E /\ S => id = old
      /\ ~(E /\ S) => ended
      /\ ~S => id = current
  BY DEF Midway
<1>5. /\ E' <=> E /\ frame # [kind |-> "end", id |-> old]
      /\ S' <=> S /\ frame # [kind |-> "start", id |-> current]
  BY <1>1 DEF FrameIs
<1>6. SUFFICES /\ E' /\ S' => id' = old
               /\ ~(E' /\ S') => ended'
               /\ ~S' => id' = current
  BY <1>1, <1>2, <1>3 DEF Midway
<1>11. HooksOut => ~ (frame = [kind |-> "status", id |-> current])
  <2>1. ~ (frame.kind = "status" /\ frame.id = current /\ HooksOut)
    BY Zenon DEF Deliver
  <2>2. /\ [kind |-> "status", id |-> current].kind = "status"
        /\ [kind |-> "status", id |-> current].id = current
    OBVIOUS
  <2> QED
    BY <2>1, <2>2
<1>12. E /\ S => HooksOut
  BY HooksBoth
<1> HIDE DEF E, S, ended, id
<1>7. CASE frame = [kind |-> "end", id |-> old]
  <2>1. SessionEnd(<<old, agent>>)
    BY <1>1, <1>7 DEF Receive
  <2>2. /\ id # old /\ ended => ended' /\ id' = id
        /\ id = old => ended'
    BY <1>2, <2>1, EndStep DEF id, ended, EndedIn
  <2>3. E /\ ~E' /\ (S' <=> S)
    BY <1>1, <1>5, <1>7 DEF E, FrameIs
  <2> QED
    BY <1>2, <1>4, <2>2, <2>3
<1>8. CASE frame = [kind |-> "start", id |-> current]
  <2>1. SessionStart(<<current, agent>>)
    BY <1>1, <1>8 DEF Receive
  <2>2. /\ id' = current
        /\ ended => ended'
        /\ id = old => ended'
    BY <1>2, <2>1, StartStep DEF id, ended
  <2>3. S /\ ~S'
    BY <1>1, <1>5, <1>8 DEF S, FrameIs
  <2> QED
    BY <1>4, <2>2, <2>3
<1>9. CASE frame = [kind |-> "status", id |-> old]
  <2>1. StatusLine(<<old, agent>>)
    BY <1>1, <1>9 DEF Receive
  <2>2. /\ ended' <=> ended
        /\ ended => id' = id
        /\ id' \in {id, old}
    BY <1>2, <2>1, StatusStep DEF id, ended
  <2>3. (E' <=> E) /\ (S' <=> S)
    BY <1>5, <1>9
  <2> QED
    BY <1>4, <2>2, <2>3
<1>13. CASE frame = [kind |-> "status", id |-> current]
  <2>1. StatusLine(<<current, agent>>)
    BY <1>1, <1>13 DEF Receive
  <2>2. /\ ended' <=> ended
        /\ id' \in {id, current}
    BY <1>2, <2>1, StatusStep DEF id, ended
  <2>3. (E' <=> E) /\ (S' <=> S)
    BY <1>5, <1>13
  <2>4. ~(E /\ S)
    BY <1>11, <1>12, <1>13
  <2> QED
    BY <1>4, <2>2, <2>3, <2>4
<1>10. CASE frame.kind = "event" /\ frame.id \in {old, current}
  <2>1. OrdinaryEvent(<<frame.id, agent>>, "Working") /\ frame.id \in RealIds
    BY <1>1, <1>2, <1>10 DEF Receive
  <2>2. /\ ended' <=> ended
        /\ id \in RealIds => id' = id
    BY <2>1, OrdinaryStep DEF id, ended
  <2>3. (E' <=> E) /\ (S' <=> S)
    BY <1>5, <1>10
  <2> QED
    BY <1>2, <1>4, <2>2, <2>3
<1> QED
  BY <1>2, <1>3, <1>7, <1>8, <1>9, <1>10, <1>13, FrameKinds

LEMMA ClearNextSettled ==
  ASSUME Settled, [ClearNext]_clearVars
  PROVE  Settled'
<1>0. NoId \notin RealIds
  BY IdAssumption DEF SessionIds, ProcIds
<1>1. ASSUME NEW new \in Reports[agent], Move(new)
      PROVE  Settled'
  <2>1. /\ inflight = {} /\ new # current
        /\ orderly' => IdAt(agent) = current
        /\ inflight' = Frames(current, new) /\ current' = new
        /\ moves' = moves + 1 /\ UNCHANGED vars
    BY <1>1 DEF Move
  <2>2. /\ Alone(reg)' /\ Running' /\ IdAt(agent)' = IdAt(agent)
    BY <2>1 DEF Settled, Alone, Good, Typed, Sound, Held, reg, vars, Running,
                EnvOK, IdAt
  <2>3. /\ [kind |-> "end", id |-> current] \in inflight'
        /\ [kind |-> "start", id |-> new] \in inflight'
    BY <2>1 DEF Frames
  <2>4. ASSUME orderly'
        PROVE  \E old : Midway(old)'
    <3>1. PICK old : old = current
      OBVIOUS
    <3>2. Midway(old)'
      BY <1>1, <2>1, <2>2, <2>3, <2>4, <3>1, ReportedReal DEF Midway, FrameIs, Settled
    <3> QED
      BY <3>2
  <2>5. ASSUME orderly'
        PROVE  MaxSessions > 0
    <3>1. agent \in Held(reg)
      BY <1>0, <2>1, <2>5, AgentIdType, IdAtAgent, ReportedReal DEF Settled
    <3>2. Cardinality(Held(reg)) # 0
      BY <3>1, HeldFinite, FS_EmptySet
    <3> QED
      BY <3>2, HeldFinite, BoundAssumption DEF Settled, Alone, Good
  <2>6. inflight' # {} /\ moves' \in Nat /\ moves' > 0
    BY <2>1, <2>3 DEF Settled
  <2> QED
    BY <1>1, <2>1, <2>2, <2>4, <2>5, <2>6 DEF Settled
<1>2. ASSUME NEW frame \in Frame, Deliver(frame)
      PROVE  Settled'
  <2>1. inflight # {} /\ moves' = moves /\ current' = current
    BY <1>2 DEF Deliver
  <2>2. moves > 0
    BY <2>1 DEF Settled
  <2>3. Alone(reg)' /\ Running'
    BY <1>2, DeliverAlone
  <2>4. ASSUME orderly'
        PROVE  orderly /\ \E old : Midway(old)'
    <3>1. orderly
      BY <1>2, <2>4 DEF Deliver
    <3>2. PICK old : Midway(old)
      BY <2>1, <3>1 DEF Settled
    <3>3. Midway(old)'
      BY <1>2, <2>4, <3>1, <3>2, DeliverMidway
    <3> QED
      BY <3>1, <3>3
  <2>5. ASSUME orderly', inflight' = {}
        PROVE  IdAt(agent)' = current'
    BY <2>4, <2>5 DEF Midway, FrameIs
  <2> QED
    BY <2>1, <2>2, <2>3, <2>4, <2>5 DEF Settled
<1>3. ASSUME SteadyFrame, UNCHANGED <<current, inflight, moves, orderly>>
      PROVE  Settled'
  <2>1. inflight = {} /\ current \in RealIds
    BY <1>3, ReportedReal DEF SteadyFrame, Settled
  <2>2. CASE StatusLine(<<current, agent>>)
    BY <1>3, <2>1, <2>2, StatusStep DEF Settled
  <2>3. CASE OrdinaryEvent(<<current, agent>>, "Working")
    BY <1>3, <2>1, <2>3, OrdinaryStep DEF Settled
  <2> QED
    BY <1>3, <2>2, <2>3 DEF SteadyFrame
<1>4. ASSUME SettledMarkerExpires, UNCHANGED <<current, inflight, moves, orderly>>
      PROVE  Settled'
  <2>1. inflight = {} /\ \E id \in RealIds : MarkerExpires(<<id, agent>>)
    BY <1>4 DEF SettledMarkerExpires
  <2> QED
    BY <1>4, <2>1, MarkerStep DEF Settled
<1>5. ASSUME RegisterDiscovered(agent) \/ CleanupStale,
             UNCHANGED <<current, inflight, moves, orderly>>
      PROVE  Settled'
  <2>1. /\ Alone(reg)' /\ Running'
        /\ \A i : EndedIn(reg, i, agent)' <=> EndedIn(reg, i, agent)
        /\ IdAt(agent) \in RealIds => IdAt(agent)' = IdAt(agent)
    BY <1>5, SweepStep
  <2>2. current \in RealIds
    BY ReportedReal DEF Settled
  <2>3. ASSUME NEW old, Midway(old)
        PROVE  Midway(old)'
    BY <1>5, <2>1, <2>2, <2>3 DEF Midway, FrameIs
  <2> QED
    BY <1>5, <2>1, <2>2, <2>3 DEF Settled
<1>6. CASE UNCHANGED clearVars
  <2>1. /\ Alone(reg)' /\ Running' /\ IdAt(agent)' = IdAt(agent)
        /\ \A i : EndedIn(reg, i, agent)' <=> EndedIn(reg, i, agent)
    BY <1>6 DEF Settled, Alone, Good, Typed, Sound, Held, reg, clearVars, vars,
                Running, EnvOK, IdAt, EndedIn
  <2>2. ASSUME NEW old, Midway(old)
        PROVE  Midway(old)'
    BY <1>6, <2>1, <2>2 DEF Midway, FrameIs, clearVars
  <2> QED
    BY <1>6, <2>1, <2>2 DEF Settled, clearVars
<1> QED
  BY <1>1, <1>2, <1>3, <1>4, <1>5, <1>6 DEF ClearNext

\* ClearInvariant: between orderly moves the registry knows the session that
\* the process runs; during one, Midway says how far the move has got.
THEOREM ClearInvariant == ClearSpec => []Settled
<1>1. ClearInit => Settled
  BY InitSettled
<1>2. Settled /\ [ClearNext]_clearVars => Settled'
  BY ClearNextSettled
<1> QED
  BY <1>1, <1>2, PTL DEF ClearSpec

\* MovesAlwaysLand: with whatever events and status lines of either session
\* among the frames of a move, and in whatever order they arrive, the process
\* ends up with its row under the session it runs, if the registry knew the
\* session left and a hook came before the new session's status line.
THEOREM MovesAlwaysLand == ClearSpec => []OrderlyMoveLands
<1>1. Settled => OrderlyMoveLands
  BY DEF Settled, OrderlyMoveLands, MoveLeavesNewRow
<1> QED
  BY <1>1, ClearInvariant, PTL

\* OldAlwaysStaysOut: once either hook of such a move has been handled, the
\* late status line of the session left changes nothing.
THEOREM OldAlwaysStaysOut == ClearSpec => OldStaysOut
<1> DEFINE Late(frame) ==
             /\ orderly /\ ~ HooksOut
             /\ frame.kind = "status" /\ frame.id # current
             /\ Deliver(frame)
           Stays == \A frame \in inflight : Late(frame) => UNCHANGED sessions_by_pid
<1>1. Settled /\ [ClearNext]_clearVars => [Stays]_clearVars
  <2> SUFFICES ASSUME Settled, NEW frame \in inflight, Late(frame)
               PROVE  UNCHANGED sessions_by_pid
    OBVIOUS
  <2>1. PICK old : Midway(old)
    BY DEF Settled
  <2>2. frame = [kind |-> "status", id |-> old] /\ old \in RealIds
    BY <2>1, FrameKinds DEF Midway
  <2>3. ~(FrameIs("end", old) /\ FrameIs("start", current))
    BY HooksBoth
  <2>4. EndedIn(reg, old, agent)
    BY <2>1, <2>3 DEF Midway
  <2>5. StatusLine(<<old, agent>>)
    BY <2>2 DEF Deliver, Receive
  <2>6. reg' = reg
    BY <2>2, <2>4, <2>5, StatusStep
  <2> QED
    BY <2>6 DEF reg
<1>2. Settled /\ [ClearNext]_clearVars => [Stays]_clearVars
  BY <1>1
<1> QED
  BY <1>2, ClearInvariant, PTL DEF ClearSpec, OldStaysOut
=============================================================================
