---------------------------- MODULE SessionRegistry ----------------------------
(***************************************************************************)
(* The registry actor of atmd (crates/atmd/src/registry/actor): the single *)
(* owner of the session rows.  It takes one command at a time, so every    *)
(* handler is one action.  A handler is written as an operator from the    *)
(* actor's state (a record, see RegState) to its state afterwards, in the  *)
(* order in which the code changes it; an action applies one handler.      *)
(*                                                                         *)
(* Commands come from processes that report over separate connections, so  *)
(* any process may report any of its messages at any time, late ones after *)
(* its exit included.                                                      *)
(***************************************************************************)
EXTENDS Naturals, FiniteSets

CONSTANTS
  Pids,           \* pids that agent processes run under
  SyntheticPids,  \* made-up pids, from 2^31 up, for in-process children
  RealIds,        \* session ids that agents report
  AgentIds,       \* ids that agents give their in-process children
  Names,          \* names that agents give their in-process children
  ScopedIds,      \* ids made of a child's name and its parent's id
  pendingId,      \* pendingId[p] is the id "pending-<p>"
  scopedId,       \* scopedId[n, i] is the id "<n>@<i>"
  Reports,        \* Reports[p]: the real ids the processes under p report
  OldPi,          \* pids whose agent is reported without session ids
  cmdlineParent,  \* the parent session named by p's command line, or NoId
  Effects,        \* the effects on a status that ordinary events have here
  MaxSessions,    \* MAX_SESSIONS
  MaxStarts,      \* bound: how many processes start under one pid
  NoPid, NoId, NoRow, NoView

PendingIds == {pendingId[p] : p \in Pids}
ProcIds == RealIds \cup PendingIds
ChildIds == AgentIds \cup ScopedIds
SessionIds == ProcIds \cup ChildIds
AllPids == Pids \cup SyntheticPids
Refs == AgentIds \cup Names

Status == {"Idle", "Working", "AttentionNeeded"}

(***************************************************************************)
(* Agent ids and session ids are disjoint name spaces (Claude's agent_id   *)
(* is no session UUID), and pending ids and scoped ids are built so that   *)
(* they meet nothing else.                                                 *)
(***************************************************************************)
ASSUME PidAssumption ==
  /\ IsFiniteSet(Pids) /\ IsFiniteSet(SyntheticPids)
  /\ Pids \cap SyntheticPids = {}
  /\ NoPid \notin AllPids

ASSUME IdAssumption ==
  /\ pendingId \in [Pids -> PendingIds]
  /\ \A p, q \in Pids : pendingId[p] = pendingId[q] => p = q
  /\ RealIds \cap PendingIds = {}
  /\ ProcIds \cap ChildIds = {}
  /\ AgentIds \cap (ScopedIds \cup Names) = {}
  /\ scopedId \in [Names \X ProcIds -> ScopedIds]
  /\ NoId \notin SessionIds

ASSUME BoundAssumption ==
  /\ Reports \in [Pids -> SUBSET RealIds]
  /\ OldPi \subseteq Pids
  /\ cmdlineParent \in [Pids -> RealIds \cup {NoId}]
  /\ Effects \subseteq Status \cup {"Same"}
  /\ MaxSessions \in Nat /\ MaxStarts \in Nat \ {0}
  /\ Cardinality(SyntheticPids) >= MaxSessions

\* A row's start is the start time recorded for its process; Untracked stands
\* for an infrastructure record whose pid is None.
Untracked == 0

Row == [id : SessionIds, parent : ProcIds \cup {NoId},
        children : SUBSET ChildIds, status : Status, start : 0..MaxStarts]

View == [parent : ProcIds \cup {NoId}, children : SUBSET ChildIds,
         status : Status]
ASSUME NullAssumption == NoRow \notin Row /\ NoView \notin View

VARIABLES
  sessions_by_pid,    \* the rows, by pid
  session_id_to_pid,  \* the index from session ids to pids
  child_refs,         \* child references under a parent id, resolved by aliases
  ended_sessions,     \* the pairs (id, pid) whose end marker is still live
  feed,               \* what a subscriber holds that has applied every event
  starts,             \* starts[p]: how many processes have run under p
  live                \* the pids that have a process now

vars == <<sessions_by_pid, session_id_to_pid, child_refs, ended_sessions,
          feed, starts, live>>

RegState ==
  [rows : [AllPids -> Row \cup {NoRow}],
   index : [SessionIds -> AllPids \cup {NoPid}],
   refs : [ProcIds \X Refs -> ChildIds \cup {NoId}],
   ended : SUBSET (ProcIds \X Pids),
   feed : [SessionIds -> View \cup {NoView}]]

reg == [rows |-> sessions_by_pid, index |-> session_id_to_pid,
        refs |-> child_refs, ended |-> ended_sessions, feed |-> feed]

\* The bound t makes TLC evaluate the handler once, not once per variable.
Become(s) ==
  \E t \in {s} :
    /\ sessions_by_pid' = t.rows
    /\ session_id_to_pid' = t.index
    /\ child_refs' = t.refs
    /\ ended_sessions' = t.ended
    /\ feed' = t.feed
    /\ UNCHANGED <<starts, live>>

Held(s) == {p \in AllPids : s.rows[p] # NoRow}
\* Faulty: lets in one row too many.
FullOffByOne(s) == Cardinality(Held(s)) > MaxSessions

Full(s) == Cardinality(Held(s)) >= MaxSessions
Pending(id) == id \in PendingIds

NewRow(id, parent, status, start) ==
  [id |-> id, parent |-> parent, children |-> {}, status |-> status,
   start |-> start]

\* What set_pid records for p: the start time it reads under /proc, if any.
StartTime(p) == IF p \in live THEN starts[p] ELSE Untracked

\* The --parent-session-id that p's command line carries, if p runs.
ParentOnCmdline(p) == IF p \in live THEN cmdlineParent[p] ELSE NoId

\* Registered events reach no client, so the feed ignores them.
ViewOf(row) ==
  [parent |-> row.parent, children |-> row.children, status |-> row.status]

PublishUpdated(s, p) ==
  IF s.rows[p] = NoRow THEN s
  ELSE [s EXCEPT !.feed[s.rows[p].id] = ViewOf(s.rows[p])]

PublishRemoved(s, id) == [s EXCEPT !.feed[id] = NoView]

-----------------------------------------------------------------------------
(* Creating rows and renaming sessions (create.rs)                         *)

\* The caller has checked ~Full(s): the code answers RegistryFull otherwise.
InsertNewSession(s, p, row) ==
  [s EXCEPT !.rows[p] = row, !.index[row.id] = p]

\* Faulty: leaves the entry of the id that a row no longer has.
UnindexNothing(s, id, p) == s

Unindex(s, id, p) ==
  IF s.index[id] = p THEN [s EXCEPT !.index[id] = NoPid] ELSE s

Renamed(id, old, new) == IF id = old THEN new ELSE id

(* Renaming the keys of the child references can make two of them collide. *)
(* The map is rebuilt in no particular order, so either value may stay:    *)
(* tie is the set of references for which the old id's value does.         *)
RenameRefs(refs, old, new, tie) ==
  [k \in ProcIds \X Refs |->
     IF k[1] = old THEN NoId
     ELSE IF k[1] # new \/ refs[<<old, k[2]>>] = NoId
          THEN Renamed(refs[k], old, new)
     ELSE IF refs[k] # NoId /\ k[2] \notin tie THEN Renamed(refs[k], old, new)
     ELSE Renamed(refs[<<old, k[2]>>], old, new)]

Relink(row, old, new) ==
  [row EXCEPT !.parent = Renamed(@, old, new),
              !.children = {Renamed(c, old, new) : c \in @}]

\* Faulty: the links to a renamed session keep its old id.
LinksKept(s, old, new, tie) == s

RenameLinks(s, old, new, tie) ==
  IF \E p \in Held(s) : s.rows[p].id = old THEN s
  ELSE
    LET Linked == {p \in Held(s) :
                     old = s.rows[p].parent \/ old \in s.rows[p].children}
        rows == [p \in AllPids |-> IF p \in Linked
                                    THEN Relink(s.rows[p], old, new)
                                    ELSE s.rows[p]]
        Shown(id) == {p \in Linked : rows[p].id = id}
    IN [s EXCEPT
          !.rows = rows,
          !.refs = RenameRefs(@, old, new, tie),
          !.feed = [id \in SessionIds |->
                      IF Shown(id) = {} THEN s.feed[id]
                      ELSE ViewOf(rows[CHOOSE p \in Shown(id) : TRUE])]]

\* Faulty: does not announce that the old id is gone.
ReconcileSilently(s, p, new, tie) ==
  LET old == s.rows[p].id
      s1 == Unindex([s EXCEPT !.rows[p].id = new], old, p)
  IN RenameLinks([s1 EXCEPT !.index[new] = p], old, new, tie)

ReconcileSessionId(s, p, new, tie) ==
  LET old == s.rows[p].id
      s1 == Unindex([s EXCEPT !.rows[p].id = new], old, p)
      s2 == [s1 EXCEPT !.index[new] = p]
  IN RenameLinks(PublishRemoved(s2, old), old, new, tie)

\* Faulty: discovery gives a session with a real id a pending one again.
RediscoverAsPending(s, p, tie) ==
  IF s.rows[p] # NoRow
  THEN ReconcileSessionId(s, p, pendingId[p], tie)
  ELSE IF Full(s) THEN s
  ELSE LET row == NewRow(pendingId[p], ParentOnCmdline(p), "Idle", StartTime(p))
       IN PublishUpdated(InsertNewSession(s, p, row), p)

\* Faulty: indexes the id before it drops the entry of the one before, which
\* may be the same id.
RediscoverUnindexing(s, p, tie) ==
  IF s.rows[p] # NoRow
  THEN LET s1 == PublishUpdated([s EXCEPT !.index[s.rows[p].id] = p], p)
       IN IF s.rows[p].id = pendingId[p] THEN s ELSE Unindex(s1, s.rows[p].id, p)
  ELSE IF Full(s) THEN s
  ELSE LET row == NewRow(pendingId[p], ParentOnCmdline(p), "Idle", StartTime(p))
       IN PublishUpdated(InsertNewSession(s, p, row), p)

\* Discovery always offers the pending id of the process it found.
HandleRegisterDiscovered(s, p, tie) ==
  IF s.rows[p] # NoRow THEN
    LET old == s.rows[p].id
        new == IF Pending(old) THEN pendingId[p] ELSE old
        s1 == PublishUpdated([s EXCEPT !.rows[p].id = new], p)
        s2 == Unindex(RenameLinks(s1, old, new, tie), old, p)
    IN IF old = pendingId[p] THEN s ELSE [s2 EXCEPT !.index[new] = p]
  ELSE IF Full(s) THEN s
  ELSE LET row == NewRow(pendingId[p], ParentOnCmdline(p), "Idle", StartTime(p))
       IN PublishUpdated(InsertNewSession(s, p, row), p)

-----------------------------------------------------------------------------
(* Removing rows (remove.rs, detach_removed_session in children.rs)        *)

(***************************************************************************)
(* remove_entry and detach_removed_session call each other: removing a row *)
(* removes the rows its child ids are indexed to, and so on.  Index        *)
(* entries only go away with their row meanwhile, so the rows that go are  *)
(* those reachable from the roots through child ids and the index as they  *)
(* were: the least set that holds the roots and is closed under Children.  *)
(***************************************************************************)
\* Faulty: a removed session leaves its in-process children behind.
NoChildren(s, p) == {}

\* Faulty: takes every session that names the parent by its id along.
NamedChildren(s, p) ==
  {q \in Held(s) \ {p} : s.rows[q].parent = s.rows[p].id \/ s.rows[q].id = s.rows[p].id}

Children(s, p) == {s.index[c] : c \in s.rows[p].children} \cap Held(s)

Doomed(s, roots) ==
  {p \in Held(s) :
     \A S \in SUBSET Held(s) :
        /\ roots \cap Held(s) \subseteq S
        /\ \A q \in S : Children(s, q) \subseteq S
        => p \in S}

\* The row that a removed row r names as its parent, if the index finds one.
ParentPid(s, r) == IF r.parent = NoId THEN NoPid ELSE s.index[r.parent]

(***************************************************************************)
(* A removed row leaves the child list of its parent, which is then        *)
(* published; the removals themselves are published after that.  The       *)
(* aliases of a removed session, and those that resolve to it, go with it. *)
(***************************************************************************)
RemoveRows(s, roots) ==
  LET gone == Doomed(s, roots)
      ids == {s.rows[p].id : p \in gone}
      Lost(p) == {s.rows[q].id : q \in {r \in gone : ParentPid(s, s.rows[r]) = p}}
      rows == [p \in AllPids |->
                 IF p \in gone \/ s.rows[p] = NoRow THEN NoRow
                 ELSE [s.rows[p] EXCEPT !.children = @ \ Lost(p)]]
      Parents == {p \in Held(s) \ gone : Lost(p) # {}}
  IN [s EXCEPT
        !.rows = rows,
        !.index = [id \in SessionIds |->
                     IF /\ s.index[id] \in gone
                        /\ s.rows[s.index[id]].id = id
                     THEN NoPid ELSE s.index[id]],
        !.refs = [k \in ProcIds \X Refs |->
                    IF k[1] \in ids \/ s.refs[k] \in ids
                    THEN NoId ELSE s.refs[k]],
        !.feed = [id \in SessionIds |->
                    IF id \in ids THEN NoView
                    ELSE IF s.index[id] \in Parents THEN ViewOf(rows[s.index[id]])
                    ELSE s.feed[id]]]

HandleRemove(s, id) ==
  IF s.index[id] = NoPid THEN s ELSE RemoveRows(s, {s.index[id]})

EndSessionIn(s, id, p) ==
  RemoveRows([s EXCEPT !.ended = @ \cup {<<id, p>>}], {p})

EndedIn(s, id, p) == <<id, p>> \in s.ended

\* Faulty: takes a new process under the pid for the session's own.
IsPidAlive(row, p) == row.start = Untracked \/ p \in live

IsProcessAlive(row, p) ==
  \/ row.start = Untracked
  \/ p \in live /\ row.start = starts[p]

HandleCleanupStale(s) ==
  RemoveRows(s, {p \in Held(s) : ~IsProcessAlive(s.rows[p], p)})

-----------------------------------------------------------------------------
(* In-process children (children.rs)                                       *)

ChildIdFor(s, parent, ref) ==
  IF s.refs[<<parent, ref>>] # NoId THEN s.refs[<<parent, ref>>]
  ELSE IF ref \in AgentIds THEN ref
  ELSE scopedId[<<ref, parent>>]

\* Is id the id of an in-process session?
SyntheticChild(s, id) ==
  /\ s.index[id] \in Held(s)
  /\ s.rows[s.index[id]].start = Untracked

\* Faulty: lists the parent itself as its child.
EnsureChildMislisted(s, p, id) ==
  IF s.index[id] # NoPid \/ s.rows[p] = NoRow \/ Full(s) THEN s
  ELSE
    LET child == CHOOSE q \in SyntheticPids : q \notin Held(s)
        row == NewRow(id, s.rows[p].id, "Working", Untracked)
        s1 == InsertNewSession(s, child, row)
        s2 == [s1 EXCEPT !.rows[p].children = @ \cup {s.rows[p].id}]
    IN PublishUpdated(PublishUpdated(s2, child), p)

EnsureChildSession(s, p, id) ==
  IF s.index[id] # NoPid \/ s.rows[p] = NoRow \/ Full(s) THEN s
  ELSE
    LET child == CHOOSE q \in SyntheticPids : q \notin Held(s)
        row == NewRow(id, s.rows[p].id, "Working", Untracked)
        s1 == InsertNewSession(s, child, row)
        s2 == [s1 EXCEPT !.rows[p].children = @ \cup {id}]
    IN PublishUpdated(PublishUpdated(s2, child), p)

RegisterChildAlias(s, parent, name, agent) ==
  LET target == ChildIdFor(s, parent, agent)
      placeholder == ChildIdFor(s, parent, name)
      s1 == IF placeholder # target /\ SyntheticChild(s, placeholder)
            THEN HandleRemove(s, placeholder) ELSE s
  IN [s1 EXCEPT !.refs[<<parent, name>>] = target,
                !.refs[<<parent, agent>>] = target]

\* The status a session has after an event with the given effect on it.
StatusAfter(status, effect) == IF effect = "Same" THEN status ELSE effect

\* Faulty: changes the session without saying so.
ApplySilently(s, p, effect) ==
  IF s.rows[p] = NoRow THEN s
  ELSE [s EXCEPT !.rows[p].status = StatusAfter(@, effect)]

ApplyToSession(s, p, effect) ==
  IF s.rows[p] = NoRow THEN s
  ELSE PublishUpdated(
         [s EXCEPT !.rows[p].status = StatusAfter(@, effect)], p)

\* Showing the work that remains touches the row's activity text only.
ApplyBackgroundActivity(s, p, background) ==
  IF background # "quiet" \/ s.rows[p] = NoRow THEN s
  ELSE LET Finished == {id \in s.rows[p].children :
                          /\ SyntheticChild(s, id)
                          /\ s.rows[s.index[id]].status = "Working"}
       IN RemoveRows(s, {s.index[id] : id \in Finished})

\* The child bookkeeping of an event e on the row of p, before the event
\* itself is applied to that row or to a child of it.
TrackChildren(s, p, parent, e) ==
  LET s1 == IF e.alias = <<>> THEN s
            ELSE RegisterChildAlias(s, parent, e.alias[1], e.alias[2])
      child == ChildIdFor(s1, parent, e.agent)
  IN IF e.kind = "ChildSessionStart" THEN EnsureChildSession(s1, p, child)
     ELSE IF e.kind = "ChildSessionEnd" THEN HandleRemove(s1, child)
     ELSE s1

\* An event that a child emitted goes to the child, made on first sight.
RouteToChild(s, p, parent, e) ==
  LET id == ChildIdFor(s, parent, e.child)
      s1 == EnsureChildSession(s, p, id)
  IN IF s1.index[id] = NoPid THEN s1
     ELSE ApplyToSession(s1, s1.index[id], e.effect)

-----------------------------------------------------------------------------
(* Lifecycle events (lifecycle.rs) and status lines (status_line.rs)       *)

\* An event: its kind, its effect on a status, and its LifecycleContext.
Event(kind, effect) ==
  [kind |-> kind, effect |-> effect, agent |-> NoId, child |-> NoId,
   alias |-> <<>>, background |-> "none"]

Untagged(e, kind) == e.child = NoId /\ e.kind = kind

\* The row an event is for: its pid's, else the one its id is indexed to.
Target(s, id, pid) == IF pid # NoPid THEN pid ELSE s.index[id]

\* Faulty: does not ask whether this end has been applied.
EndAgain(s, id, p) == IF p \notin Held(s) THEN s ELSE EndSessionIn(s, id, p)

HandleSessionEnd(s, id, p) ==
  IF \/ p \notin Held(s)
     \/ s.rows[p].id # id /\ EndedIn(s, id, p)
  THEN s ELSE EndSessionIn(s, id, p)

\* What an event with this id does to the session its row holds: a pending
\* row takes the real id, and a SessionStart of another session ends it.
AdoptSessionId(s, id, p, e, tie) ==
  IF p \notin Held(s) \/ Pending(id) \/ s.rows[p].id = id THEN s
  ELSE IF Pending(s.rows[p].id) THEN ReconcileSessionId(s, p, id, tie)
  ELSE IF Untagged(e, "SessionStart") THEN EndSessionIn(s, s.rows[p].id, p)
  ELSE s

ApplyEvent(s, p, e) ==
  LET parent == s.rows[p].id
      s1 == TrackChildren(s, p, parent, e)
  IN IF e.child # NoId THEN RouteToChild(s1, p, parent, e)
     ELSE ApplyBackgroundActivity(ApplyToSession(s1, p, e.effect), p, e.background)

HandleApplyLifecycleEvent(s, id, pid, e, tie) ==
  LET p == Target(s, id, pid)
      s1 == IF Untagged(e, "SessionStart")
            THEN [s EXCEPT !.ended = @ \ {<<id, p>>}] ELSE s
      s2 == AdoptSessionId(s1, id, p, e, tie)
      row == NewRow(id, ParentOnCmdline(pid), "Idle", StartTime(pid))
  IN IF Untagged(e, "SessionEnd") THEN HandleSessionEnd(s, id, p)
     ELSE IF p \in Held(s2) THEN ApplyEvent(s2, p, e)
     ELSE IF pid = NoPid \/ Full(s2) THEN s2
     ELSE ApplyEvent(InsertNewSession(s2, pid, row), pid, e)

\* Faulty: does not ask whether the status line's session has ended.
UpdateAfterEnd(s, id, p, tie) ==
  LET s1 == IF p \in Held(s) /\ s.rows[p].id # id
            THEN ReconcileSessionId(s, p, id, tie) ELSE s
      row == NewRow(id, NoId, "Idle", StartTime(p))
  IN IF p \in Held(s) THEN PublishUpdated(s1, p)
     ELSE IF Full(s) THEN s
     ELSE PublishUpdated(InsertNewSession(s, p, row), p)

UpdateOrCreateByPid(s, id, p, tie) ==
  LET s1 == IF p \in Held(s) /\ s.rows[p].id # id
            THEN ReconcileSessionId(s, p, id, tie) ELSE s
      row == NewRow(id, NoId, "Idle", StartTime(p))
  IN IF EndedIn(s, id, p) THEN s
     ELSE IF p \in Held(s) THEN PublishUpdated(s1, p)
     ELSE IF Full(s) THEN s
     ELSE PublishUpdated(InsertNewSession(s, p, row), p)

HandleUpdateFromStatusLine(s, id, pid, tie) ==
  IF pid # NoPid THEN UpdateOrCreateByPid(s, id, pid, tie)
  ELSE IF s.index[id] \in Held(s) THEN PublishUpdated(s, s.index[id])
  ELSE s

-----------------------------------------------------------------------------
(* The commands.  An origin is the pair of the session id and the pid that *)
(* a message carries; a message need not carry the pid.                    *)

Origins ==
  {o \in RealIds \X Pids : o[1] \in Reports[o[2]]} \cup RealIds \X {NoPid}

\* An older pi extension sends no session id, so its events come in under
\* the pending id of their pid.
PendingOrigins == {<<pendingId[p], p>> : p \in OldPi}

Lifecycle(origin, e) ==
  \E tie \in SUBSET Names :
    Become(HandleApplyLifecycleEvent(reg, origin[1], origin[2], e, tie))

SessionStart(origin) == Lifecycle(origin, Event("SessionStart", "Idle"))

SessionEnd(origin) == Lifecycle(origin, Event("SessionEnd", "Idle"))

OrdinaryEvent(origin, effect) == Lifecycle(origin, Event("Other", effect))

\* The end of a turn, with a report on the work left in the background.
Stop(origin, background) ==
  Lifecycle(origin, [Event("Other", "Idle") EXCEPT !.background = background])

ChildSessionStart(origin, agent) ==
  Lifecycle(origin, [Event("ChildSessionStart", "Same") EXCEPT !.agent = agent])

ChildSessionEnd(origin, agent) ==
  Lifecycle(origin, [Event("ChildSessionEnd", "Same") EXCEPT !.agent = agent])

\* An event that the child known as ref emitted.
ChildEvent(origin, ref, effect) ==
  Lifecycle(origin, [Event("Other", effect) EXCEPT !.child = ref])

\* The end of the tool call that spawned a named child tells its agent id.
ChildSpawned(origin, name, agent) ==
  Lifecycle(origin, [Event("Other", "Working") EXCEPT !.alias = <<name, agent>>])

StatusLine(origin) ==
  \E tie \in SUBSET Names :
    Become(HandleUpdateFromStatusLine(reg, origin[1], origin[2], tie))

RegisterDiscovered(p) ==
  \E tie \in SUBSET Names : Become(HandleRegisterDiscovered(reg, p, tie))

CleanupStale == Become(HandleCleanupStale(reg))

\* ENDED_SESSION_TTL passes, or the wall clock steps back before the marker.
MarkerExpires(mark) ==
  /\ mark \in ended_sessions
  /\ Become([reg EXCEPT !.ended = @ \ {mark}])

ProcessExits(p) ==
  /\ p \in live
  /\ live' = live \ {p}
  /\ UNCHANGED <<sessions_by_pid, session_id_to_pid, child_refs,
                 ended_sessions, feed, starts>>

\* The system gives the pid to a new process.
ProcessStarts(p) ==
  /\ p \notin live /\ starts[p] < MaxStarts
  /\ live' = live \cup {p}
  /\ starts' = [starts EXCEPT ![p] = @ + 1]
  /\ UNCHANGED <<sessions_by_pid, session_id_to_pid, child_refs,
                 ended_sessions, feed>>

Init ==
  /\ sessions_by_pid = [p \in AllPids |-> NoRow]
  /\ session_id_to_pid = [id \in SessionIds |-> NoPid]
  /\ child_refs = [k \in ProcIds \X Refs |-> NoId]
  /\ ended_sessions = {}
  /\ feed = [id \in SessionIds |-> NoView]
  /\ starts = [p \in Pids |-> 1]
  /\ live = Pids

\* The commands that carry the given origin.
Report(origin) ==
  \/ SessionStart(origin)
  \/ SessionEnd(origin)
  \/ \E effect \in Effects : OrdinaryEvent(origin, effect)

ClaudeReport(origin) ==
  \/ Report(origin)
  \/ StatusLine(origin)
  \/ \E background \in {"quiet", "busy"} : Stop(origin, background)
  \/ \E agent \in AgentIds : ChildSessionStart(origin, agent)
  \/ \E agent \in AgentIds : ChildSessionEnd(origin, agent)
  \/ \E ref \in Refs, effect \in Effects : ChildEvent(origin, ref, effect)
  \/ \E name \in Names, agent \in AgentIds : ChildSpawned(origin, name, agent)

Next ==
  \/ \E origin \in Origins : ClaudeReport(origin)
  \/ \E origin \in PendingOrigins : Report(origin)
  \/ \E p \in Pids : RegisterDiscovered(p)
  \/ CleanupStale
  \/ \E mark \in ProcIds \X Pids : MarkerExpires(mark)
  \/ \E p \in Pids : ProcessExits(p)
  \/ \E p \in Pids : ProcessStarts(p)

Spec == Init /\ [][Next]_vars

\* The cleanup task sends CleanupStale every 2 s for as long as the daemon
\* runs, and the actor takes its commands in turn.
FairSpec == Spec /\ WF_vars(CleanupStale)

-----------------------------------------------------------------------------
(* Properties *)

\* The state s has its shape: every map has the type its Rust type gives it,
\* and real pids hold sessions with an agent's own id, synthetic pids
\* untracked children.
Typed(s) ==
  /\ s \in RegState
  /\ \A p \in Pids : s.rows[p] # NoRow => s.rows[p].id \in ProcIds
  /\ \A p \in SyntheticPids :
       s.rows[p] # NoRow =>
         /\ s.rows[p].id \in ChildIds
         /\ s.rows[p].start = Untracked

\* Index entries of s lead to rows that have their id.
Sound(s) ==
  \A id \in SessionIds :
    s.index[id] # NoPid =>
      s.rows[s.index[id]] # NoRow /\ s.rows[s.index[id]].id = id

\* TypeOK: the maps of the actor and the environment's state have their types.
TypeOK ==
  /\ Typed(reg)
  /\ starts \in [Pids -> 0..MaxStarts]
  /\ live \subseteq Pids

\* The id that p's row has, NoId if p has none.
IdAt(p) == IF sessions_by_pid[p] = NoRow THEN NoId ELSE sessions_by_pid[p].id

\* Ids that at most one process ever reports, children's among them.
Exclusive(id) ==
  \A p, q \in Pids : id \in Reports[p] /\ id \in Reports[q] => p = q

\* IndexSound: whatever renames, removals and second reports of an id went
\* before, an index entry leads to a row that has that id; the lookups by
\* session id (handle_get_session, pid-less events) never hit another session.
IndexSound == Sound(reg)

\* ExclusiveIdsIndexed: a session whose id no other process reports can
\* always be found by that id; only an id shared between processes may lose
\* its entry (remove.rs, unindex).
ExclusiveIdsIndexed ==
  \A p \in AllPids :
    IdAt(p) # NoId /\ Exclusive(IdAt(p)) => session_id_to_pid[IdAt(p)] = p

\* CapacityRespected: no creation path (discovery, status line, event, child)
\* takes the registry past MAX_SESSIONS.
CapacityRespected == Cardinality(Held(reg)) <= MaxSessions

\* ChildrenOwned: an in-process child, which cleanup never sweeps, is in the
\* child list of some agent's row; so it goes when that row goes, even after
\* the agent's session was renamed.
ChildrenOwned ==
  \A c \in SyntheticPids :
    IdAt(c) # NoId =>
      \E p \in Pids : IdAt(p) # NoId /\ IdAt(c) \in sessions_by_pid[p].children

\* ChildLinksMutual: the parent link of a listed child names the session
\* that lists it, through every rename of that session.
ChildLinksMutual ==
  \A p \in Pids, c \in SyntheticPids :
    /\ IdAt(p) # NoId /\ Exclusive(IdAt(p))
    /\ IdAt(c) # NoId /\ IdAt(c) \in sessions_by_pid[p].children
    => sessions_by_pid[c].parent = IdAt(p)

\* AliasesLive: child references are kept only under ids that some row has;
\* the map can't grow with sessions that left or were renamed.
AliasesLive ==
  \A k \in ProcIds \X Refs :
    child_refs[k] # NoId => \E p \in Pids : IdAt(p) = k[1]

\* NoGhosts: a subscriber that applied every event shows no session that the
\* registry does not have: every path that drops or renames one publishes it.
NoGhosts ==
  \A id \in SessionIds :
    feed[id] # NoView => \E p \in AllPids : IdAt(p) = id

\* ViewsCurrent: what such a subscriber shows of a session is that session's
\* current view: no handler changes a row that it does not then publish.
ViewsCurrent ==
  \A p \in AllPids :
    IdAt(p) # NoId /\ Exclusive(IdAt(p)) /\ feed[IdAt(p)] # NoView
      => feed[IdAt(p)] = ViewOf(sessions_by_pid[p])

\* RealIdsStay: while a row stays, its real id never turns back into a
\* pending one, in whatever order discovery and late events come.
RealIdsStay ==
  [][\A p \in Pids :
       IdAt(p) \in RealIds => IdAt(p)' \in RealIds \cup {NoId}]_vars

\* EndsRecorded: the row of a process that is still running goes only when a
\* session's end is recorded for that very pid, which keeps that session's
\* late status lines out; no end, rename or child list of another process
\* ever takes the row along.
EndsRecorded ==
  [][\A p \in Pids :
       /\ IdAt(p) # NoId /\ IdAt(p)' = NoId
       /\ IsProcessAlive(sessions_by_pid[p], p)
       => \E id \in ProcIds : <<id, p>> \in ended_sessions']_vars

\* RowsShown: while the registry has never been full, a subscriber that
\* applied every event shows every session: no creation and no rename of a
\* row that stays goes unpublished (for use where MaxSessions is not reached).
RowsShown ==
  \A p \in AllPids :
    IdAt(p) # NoId /\ Exclusive(IdAt(p)) => feed[IdAt(p)] # NoView

\* ChildRecordsAgree: parent links, child lists and child references tell one story.
ChildRecordsAgree == ChildLinksMutual /\ AliasesLive

\* FeedAgrees: what subscribers hold is what the registry holds, no more and no less.
FeedAgrees == ViewsCurrent /\ RowsShown

\* DeadRowsLeave: the row of a tracked process that has exited does go, even
\* when its pid was given to a new process in between, whose own messages
\* keep updating the row.
DeadRowsLeave ==
  \A p \in Pids, k \in 1..MaxStarts :
    LET Tracked == IdAt(p) # NoId /\ sessions_by_pid[p].start = k
    IN Tracked /\ ~(p \in live /\ starts[p] = k) ~> ~Tracked

\* SweptRowsLive: a cleanup leaves no row of a process that has died
\* ("Sessions whose agent process has died are removed", commands.rs).
SweptRowsLive ==
  \A p \in Pids : HandleCleanupStale(reg).rows[p] # NoRow => p \in live

=============================================================================
