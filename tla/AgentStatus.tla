---------------------------- MODULE AgentStatus -----------------------------
(***************************************************************************)
(* One agent's turn (prompt, tool calls, dialogs, compactions, background  *)
(* children) beside the status its row shows.  The agent is the vendor's   *)
(* program, known here by the captures the adapters' docs record; every    *)
(* event goes through a hook of its own (scripts/atm-hook,                 *)
(* atm-codex-hook) that gives up after 100 ms, or through pi-atm.          *)
(*                                                                         *)
(* The vendor waits for its own hooks, so they arrive in order or are lost;*)
(* a background child's arrive whenever they like.                         *)
(***************************************************************************)
EXTENDS Naturals, Sequences, LifecycleEvents

CONSTANTS
  MaxTurns,   \* bound on prompts
  MaxCalls,   \* bound on tool calls
  MaxSides,   \* bound on events of background children
  MaxLost,    \* bound on hooks that time out
  MaxWire     \* hooks under way when the agent takes its next step

VARIABLES
  agent,   \* vendor, phase and what a reader of its screen sees
  wire,    \* its hooks on their way to the daemon, oldest first
  row      \* status in the daemon

vars == <<agent, wire, row>>

\* phase: "ready" at the prompt, "turn" while it works, "dialog" while it waits for the
\* user, "running" in a tool call, "compacting".  `inTurn` is whether a dialog or a
\* compaction belongs to a turn.  `told` is FALSE from a change the vendor reports to
\* nobody (a dialog answered or cancelled, a failed compaction, work that goes on
\* after a compaction) until its next report; `lost` from a hook that got lost until
\* one is applied.
Init ==
  /\ \E vendor \in {"claude", "codex", "pi"} :
       agent = [vendor |-> vendor, phase |-> "ready", inTurn |-> FALSE, told |-> TRUE,
                turns |-> 0, calls |-> 0, sides |-> 0, losses |-> 0]
  /\ wire = <<>>
  /\ row = [status |-> "idle", lost |-> FALSE]

--------------------------------------------------------------------------
(* The agent *)

\* It goes to `phase` and reports `events`.
Moves(phase, inTurn, events) ==
  /\ agent' = [agent EXCEPT !.phase = phase, !.inTurn = inTurn, !.told = TRUE]
  /\ wire' = wire \o events
  /\ UNCHANGED row

MovesUnseen(phase, inTurn) ==
  /\ agent' = [agent EXCEPT !.phase = phase, !.inTurn = inTurn, !.told = FALSE]
  /\ UNCHANGED <<wire, row>>

Is(vendors) == agent.vendor \in vendors
Tool(name, class) == Raw(name, class, "none", FALSE)
Noted(name, note) == Raw(name, "none", note, FALSE)

Prompt ==
  /\ Len(wire) <= MaxWire
  /\ agent.phase = "ready" /\ agent.turns < MaxTurns
  /\ agent' = [agent EXCEPT !.phase = "turn", !.inTurn = TRUE, !.told = TRUE, !.turns = @ + 1]
  /\ wire' = wire \o (IF Is({"pi"}) THEN <<Noted("input", "interactive"), Bare("agent_start")>>
                      ELSE <<Bare("UserPromptSubmit")>>)
  /\ UNCHANGED row

\* A call runs at once, or waits for the user first: an interactive tool of Claude, a
\* permission request, or a dialog an extension of pi opens in its tool_call handler,
\* before pi-atm's own handler or after it.
Call(phase, events) ==
  /\ Len(wire) <= MaxWire
  /\ agent.phase = "turn" /\ agent.calls < MaxCalls
  /\ agent' = [agent EXCEPT !.phase = phase, !.told = TRUE, !.calls = @ + 1]
  /\ wire' = wire \o events
  /\ UNCHANGED row

CallRuns ==
  Call("running", <<Tool(IF Is({"pi"}) THEN "tool_call" ELSE "PreToolUse", "plain")>>)
CallAsks ==
  \/ /\ Is({"claude"})
     /\ Call("dialog", <<Tool("PreToolUse", "interactive")>>)
  \/ /\ Is({"claude", "codex"})
     /\ \E class \in {"none", "plain"} :
          Call("dialog", <<Tool("PreToolUse", "plain"), Tool("PermissionRequest", class)>>)
  \/ /\ Is({"pi"})
     /\ \/ Call("dialog", <<Tool("tool_call", "plain"), Bare("atm_needs_input_open")>>)
        \/ Call("dialog", <<Bare("atm_needs_input_open")>>)

\* Claude repeats a dialog left open as a notification, and a child's dialog too.
DialogReminds ==
  /\ Len(wire) <= MaxWire
  /\ Is({"claude"}) /\ agent.phase = "dialog" /\ agent.sides < MaxSides
  /\ \E note \in {"permission_prompt", "elicitation_dialog", "agent_needs_input"} :
       wire' = Append(wire, Noted("Notification", note))
  /\ agent' = [agent EXCEPT !.sides = @ + 1]
  /\ UNCHANGED row

\* Only pi-atm reports the answer.
DialogAnswered ==
  /\ Len(wire) <= MaxWire
  /\ agent.phase = "dialog" /\ agent.inTurn
  /\ IF Is({"pi"}) THEN Moves("running", TRUE, <<Bare("atm_needs_input_resolved")>>)
     ELSE MovesUnseen("running", TRUE)
DialogCancelled ==
  /\ agent.phase = "dialog" /\ ~ Is({"pi"})
  /\ MovesUnseen("ready", FALSE)

CallEnds ==
  /\ Len(wire) <= MaxWire
  /\ agent.phase = "running"
  /\ \E name \in (IF Is({"pi"}) THEN {"tool_execution_end"}
                  ELSE IF Is({"codex"}) THEN {"PostToolUse"}
                  ELSE {"PostToolUse", "PostToolUseFailure"}) :
       Moves("turn", TRUE, <<Tool(name, "plain")>>)

TurnEnds ==
  /\ Len(wire) <= MaxWire
  /\ agent.phase = "turn"
  /\ \E name \in (IF Is({"pi"}) THEN {"agent_end"} ELSE IF Is({"codex"}) THEN {"Stop"}
                  ELSE {"Stop", "StopFailure"}) :
       Moves("ready", FALSE, <<Bare(name)>>)
IdleReminds ==
  /\ Len(wire) <= MaxWire
  /\ Is({"claude"}) /\ agent.phase = "ready" /\ agent.sides < MaxSides
  /\ wire' = Append(wire, Noted("Notification", "idle_prompt"))
  /\ agent' = [agent EXCEPT !.sides = @ + 1, !.told = TRUE]
  /\ UNCHANGED row

CompactStarts ==
  /\ Len(wire) <= MaxWire
  /\ agent.phase \in {"ready", "turn"} /\ ~ Is({"pi"}) /\ agent.calls < MaxCalls
  /\ agent' = [agent EXCEPT !.phase = "compacting", !.told = TRUE, !.calls = @ + 1]
  /\ wire' = Append(wire, Bare("PreCompact"))
  /\ UNCHANGED row
\* Claude's compaction ends with its own agent's SubagentStop and a SessionStart, Codex's
\* with PostCompact.  In a turn the work goes on, with no report.
CompactEnds ==
  /\ Len(wire) <= MaxWire
  /\ agent.phase = "compacting"
  /\ wire' = wire \o (IF Is({"codex"}) THEN <<Bare("PostCompact")>>
                      ELSE <<Bare("SubagentStop"), Noted("SessionStart", "compact")>>)
  /\ agent' = [agent EXCEPT !.phase = IF agent.inTurn THEN "turn" ELSE "ready", !.told = ~ agent.inTurn]
  /\ UNCHANGED row
CompactFails ==
  /\ agent.phase = "compacting" /\ Is({"codex"})
  /\ MovesUnseen(IF agent.inTurn THEN "turn" ELSE "ready", agent.inTurn)

\* A background child starts, stops, or calls a tool under its own id.
ChildReports ==
  /\ Is({"claude", "codex"}) /\ agent.sides < MaxSides
  /\ \E raw \in {Raw(name, "plain", "none", TRUE) :
                   name \in {"SubagentStart", "SubagentStop"}
                              \cup (IF Is({"claude"}) THEN {"PermissionRequest", "PostToolUse"} ELSE {})},
        n \in 0 .. Len(wire) :
       wire' = SubSeq(wire, 1, n) \o <<raw>> \o SubSeq(wire, n + 1, Len(wire))
  /\ agent' = [agent EXCEPT !.sides = @ + 1]
  /\ UNCHANGED row

--------------------------------------------------------------------------
(* The hooks and the daemon *)

Silent(raw) ==
  \/ ChildAgent(agent.vendor, raw)
  \/ ToLifecycleEvent(agent.vendor, raw) \in
       {"none", "Notification", "ChildSessionStart", "ChildSessionEnd", "ContextUpdate", "ProviderModelChange"}

Deliver ==
  /\ wire # <<>>
  /\ row' = IF ChildAgent(agent.vendor, Head(wire)) THEN row
            ELSE [status |-> ApplyLifecycleEvent(row.status, ToLifecycleEvent(agent.vendor, Head(wire))),
                  lost |-> row.lost /\ Silent(Head(wire))]
  /\ wire' = Tail(wire)
  /\ UNCHANGED agent

HookTimesOut ==
  /\ wire # <<>> /\ agent.losses < MaxLost
  /\ wire' = Tail(wire)
  /\ row' = [row EXCEPT !.lost = @ \/ ~ Silent(Head(wire))]
  /\ agent' = [agent EXCEPT !.losses = @ + 1]

Next ==
  \/ Prompt \/ CallRuns \/ CallAsks \/ DialogReminds \/ DialogAnswered \/ DialogCancelled
  \/ CallEnds \/ TurnEnds \/ IdleReminds \/ CompactStarts \/ CompactEnds \/ CompactFails
  \/ ChildReports \/ Deliver \/ HookTimesOut

Spec == Init /\ [][Next]_vars

--------------------------------------------------------------------------
(* Properties *)

\* Everything the agent reported has arrived, or something newer has.
Heard == wire = <<>> /\ ~ row.lost

\* While an agent waits for its user the row says so, whatever its background children
\* do meanwhile and whatever was lost before the dialog.
OpenDialogShows == agent.phase = "dialog" /\ Heard => row.status = "attention"

\* A row reads idle once its agent is back at the prompt and has said so, also after a
\* failed turn or a compaction, and working while it calls tools.
TurnShows ==
  agent.told /\ Heard =>
    /\ agent.phase = "ready" => row.status = "idle"
    /\ agent.phase \in {"turn", "running", "compacting"} => row.status = "working"
=============================================================================
