------------------------------- MODULE Usage --------------------------------
(***************************************************************************)
(* The numbers a row shows (context, window, session tokens, cost, model)  *)
(* beside the agent's own.  Claude Code sends a status line after a turn;  *)
(* a Codex hook makes its connection read the tail of the rollout file     *)
(* Codex is writing; pi-atm sends a snapshot of pi's session with `context`*)
(* and `turn_end` frames (pi-atm before the snapshot, only the replies).   *)
(*                                                                         *)
(* A request leaves 1 or 2 tokens in the context and 10 in the session's   *)
(* count, so that the two never look alike, and costs 1.                   *)
(***************************************************************************)
EXTENDS Naturals, Sequences, SequencesExt

CONSTANTS
  MaxRequests,  \* bound on requests
  MaxReports,   \* bound on status lines, hooks and frames
  MaxRecords,   \* bound on the rollout's other records
  TailRecords,  \* records MAX_TRAILING_BYTES holds; the first may be cut
  None          \* an absent field

VARIABLES
  agent,    \* the vendor's own figures, and Codex's rollout file
  reports,  \* status lines and frames under way, oldest first; hooks at work
  row       \* the daemon's row

vars == <<agent, reports, row>>

DefaultWindow == 3    \* Model::Unknown's 200K

\* The figures of a new row: of no request yet, in the window of an unknown model.
NoFigures ==
  [exists |-> FALSE, context |-> 0, total |-> 0, window |-> DefaultWindow, cost |-> 0, model |-> 0]

Init ==
  /\ \E vendor \in {"claude", "codex", "pi", "oldpi"} :
       agent = [vendor |-> vendor, context |-> 0, requests |-> 0, window |-> 5, model |-> 1,
                seen |-> {0}, file |-> <<>>, sent |-> 0, told |-> FALSE]
  /\ reports = <<>>
  /\ row = NoFigures

--------------------------------------------------------------------------
(* The agent *)

Is(vendors) == agent.vendor \in vendors

\* Codex's rollout: other records, placeholders without usage, and token counts; the
\* last record may be half written.
Written(file) == IF file # <<>> /\ Last(file).kind = "partial" THEN Front(file) ELSE file
Count(context, total, window) == [kind |-> "usage", context |-> context, total |-> total, window |-> window]
Other(kind) == [kind |-> kind, context |-> None, total |-> None, window |-> None]

Request ==
  /\ agent.requests < MaxRequests
  /\ \E context \in {1, 2} :
       agent' = [agent EXCEPT !.context = context, !.requests = @ + 1, !.seen = @ \cup {context}, !.told = FALSE,
                   !.file = IF Is({"codex"})
                              THEN Append(Written(@), Count(context, 10 * (agent.requests + 1), agent.window))
                              ELSE @]
  /\ UNCHANGED <<reports, row>>

FileGrows ==
  /\ Is({"codex"}) /\ Len(agent.file) < MaxRecords
  /\ \E kind \in {"other", "placeholder", "partial", "totals"} :
       agent' = [agent EXCEPT !.file = Append(Written(@),
                   IF kind = "totals" THEN Count(None, 10 * agent.requests, agent.window) ELSE Other(kind))]
  /\ UNCHANGED <<reports, row>>

\* After a compaction nobody knows the context until the next request.
Compacts ==
  /\ Is({"claude", "pi"}) /\ agent.context \notin {0, None}
  /\ agent' = [agent EXCEPT !.context = IF Is({"claude"}) THEN 0 ELSE None, !.told = FALSE]
  /\ UNCHANGED <<reports, row>>

ModelChanges ==
  /\ agent.model = 1 /\ agent.sent < MaxReports
  /\ agent' = [agent EXCEPT !.model = 2, !.window = 7, !.sent = IF Is({"pi"}) THEN @ + 1 ELSE @]
  /\ reports' = IF Is({"pi"}) THEN Append(reports, [kind |-> "model", model |-> 2]) ELSE reports
  /\ UNCHANGED row

\* `told` is that a report of everything there is to tell is the newest.
Report(report, told) ==
  /\ agent.sent < MaxReports
  /\ reports' = Append(reports, report)
  /\ agent' = [agent EXCEPT !.sent = @ + 1, !.told = @ \/ told]
  /\ UNCHANGED row

StatusLineData(window, model) ==
  [kind |-> "line", context |-> agent.context, window |-> window, cost |-> agent.requests, model |-> model]

\* Fields Claude leaves out: the model (a blank setting), the window.
StatusLine ==
  /\ Is({"claude"})
  /\ \E model \in {None, agent.model}, window \in {0, agent.window} :
       Report(StatusLineData(window, model), TRUE)

\* usageSnapshot, with the window of the model pi has now.  pi's session may be unreadable.
UsageSnapshot == [cost |-> agent.requests, total |-> 10 * agent.requests, context |-> agent.context]
Unreadable == [cost |-> None, total |-> None, context |-> None]

Frame ==
  \/ /\ Is({"pi"})
     /\ \E usage \in {UsageSnapshot, Unreadable}, window \in {None, agent.window} :
          Report([kind |-> "frame", usage |-> usage, window |-> window], usage # Unreadable)
  \/ /\ Is({"oldpi"})
     /\ Report([kind |-> "frame", window |-> None,
                usage |-> IF agent.requests = 0 THEN Unreadable
                          ELSE [cost |-> 1, total |-> agent.context, context |-> None]], FALSE)

CodexHook == Is({"codex"}) /\ Report([kind |-> "hook", stage |-> "status", usage |-> Other("none")], FALSE)

--------------------------------------------------------------------------
(* read_token_usage *)

\* The records whose lines lie whole in the tail.
InTail(file) ==
  IF Len(file) <= TailRecords THEN file ELSE SubSeq(file, Len(file) - TailRecords + 2, Len(file))

\* Takes a count of the whole session for want of a current one.
UsableAny(record) == record.kind = "usage"
Usable(record) == record.kind = "usage" /\ record.context # None

ReadTokenUsage(file) ==
  LET tail   == InTail(file)
      usable == {i \in DOMAIN tail : Usable(tail[i])}
  IN  IF usable = {} THEN Other("none") ELSE tail[CHOOSE i \in usable : \A j \in usable : j <= i]

--------------------------------------------------------------------------
(* The row: SessionDomain *)

Or(value, default) == IF value = None THEN default ELSE value

\* A window of 0 is not reported.
Window(window, old) == IF window = 0 THEN old ELSE window

\* from_status_line for a new row, update_from_status_line for a known one.
ApplyStatusLine(r, line) ==
  [exists |-> TRUE, context |-> line.context, total |-> 0, cost |-> line.cost,
   window |-> Window(line.window, r.window), model |-> Or(line.model, r.model)]

\* LifecycleEvent::ContextUpdate: without `current`, `tokens` stands in for the context.
ApplyContextUpdate(r, u) ==
  LET context == IF u.context # None THEN u.context ELSE u.total
  IN  [r EXCEPT !.exists = TRUE,
                !.cost = Or(u.cost, @),
                !.total = Or(u.total, @),
                !.context = Or(context, @),
                !.window = Or(u.window, @)]

\* pi's session tokens go only with the context size.
PiUpdate(usage, window) ==
  [total |-> IF agent.vendor = "pi" /\ usage.context = None THEN None ELSE usage.total,
   context |-> usage.context, window |-> window, cost |-> usage.cost]

\* The daemon handles the oldest status line or frame of its connection.
Handle ==
  /\ reports # <<>> /\ Head(reports).kind # "hook"
  /\ LET report == Head(reports)
     IN  row' = CASE report.kind = "line" -> ApplyStatusLine(row, report)
                  [] report.kind = "frame" -> ApplyContextUpdate(row, PiUpdate(report.usage, report.window))
                  [] report.kind = "model" -> [row EXCEPT !.exists = TRUE, !.model = report.model]
  /\ reports' = Tail(reports)
  /\ UNCHANGED agent

\* Codex hooks come on connections of their own, each with its steps: the event and the
\* model, the read of the file (which may fail or time out), the usage.
HookSteps(i) ==
  /\ reports[i].kind = "hook"
  /\ \/ /\ reports[i].stage = "status"
        /\ reports' = [reports EXCEPT ![i].stage = "read"]
        /\ row' = [row EXCEPT !.exists = TRUE, !.model = agent.model]
     \/ /\ reports[i].stage = "read"
        /\ \/ reports' = [reports EXCEPT ![i].stage = "apply", ![i].usage = ReadTokenUsage(agent.file)]
           \/ reports' = RemoveAt(reports, i)
        /\ UNCHANGED row
     \/ /\ reports[i].stage = "apply"
        /\ reports' = RemoveAt(reports, i)
        /\ row' = IF reports[i].usage.kind = "none" THEN row
                  ELSE ApplyContextUpdate(row, [total |-> reports[i].usage.total,
                                                context |-> reports[i].usage.context,
                                                window |-> reports[i].usage.window, cost |-> None])
  /\ UNCHANGED agent

Next ==
  \/ Request \/ FileGrows \/ Compacts \/ ModelChanges \/ StatusLine \/ Frame \/ CodexHook \/ Handle
  \/ \E i \in DOMAIN reports : HookSteps(i)

Spec == Init /\ [][Next]_vars

--------------------------------------------------------------------------
(* Properties *)

\* The context shown is one the agent had: never the tokens of its whole session,
\* however little of its usage it could tell.
ContextIsActive == row.context \in agent.seen

\* The percentage is of a window: one not reported leaves the row's alone.
WindowKnown == row.window # 0

\* Once all an agent told is handled and nothing has happened since, the row's cost is the one
\* pi's footer shows, and so with Claude's status line.
SettledCost ==
  reports = <<>> /\ agent.told =>
    row.cost = agent.requests /\ (agent.context # None => row.context = agent.context)
=============================================================================
