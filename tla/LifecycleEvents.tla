-------------------------- MODULE LifecycleEvents ---------------------------
(***************************************************************************)
(* The three vendors' event vocabularies, their translation into           *)
(* LifecycleEvents (`to_lifecycle_event` of each adapter) and what an      *)
(* event does to a row's status (SessionDomain::apply_lifecycle_event_at). *)
(*                                                                         *)
(* A raw event is a record of what the translation looks at: its name, the *)
(* class of its tool, a note (notification type, source of an input) and   *)
(* whether a child agent sent it.  "none" is an absent or empty field.     *)
(***************************************************************************)
EXTENDS TLC

Raw(name, tool, note, child) == [name |-> name, tool |-> tool, note |-> note, child |-> child]
Bare(name) == Raw(name, "none", "none", FALSE)

\* AskUserQuestion and the plan mode tools; every other name counts as "plain".
IsInteractive(tool) == tool = "interactive"

ClaudeNames ==
  [PreToolUse |-> "ToolCallStart", PostToolUse |-> "ToolCallEnd", PostToolUseFailure |-> "ToolCallEnd",
   UserPromptSubmit |-> "PromptSubmit", Stop |-> "WorkingEnd", StopFailure |-> "WorkingEnd",
   SubagentStart |-> "ChildSessionStart", SubagentStop |-> "ChildSessionEnd",
   SessionStart |-> "SessionStart", SessionEnd |-> "SessionEnd",
   PreCompact |-> "ContextCompactStart", Setup |-> "SetupNotification",
   Notification |-> "Notification", PermissionRequest |-> "NeedsInput",
   TeammateIdle |-> "Idle", TaskCreated |-> "Notification", TaskCompleted |-> "Notification"]

CodexNames ==
  [PreToolUse |-> "ToolCallStart", PostToolUse |-> "ToolCallEnd", PermissionRequest |-> "NeedsInput",
   UserPromptSubmit |-> "PromptSubmit", Stop |-> "WorkingEnd",
   SubagentStart |-> "ChildSessionStart", SubagentStop |-> "ChildSessionEnd",
   SessionStart |-> "SessionStart", SessionEnd |-> "SessionEnd",
   PreCompact |-> "ContextCompactStart", PostCompact |-> "WorkingEnd"]

\* pi's events that translate to something; tool_execution_start, tool_result and the
\* high-frequency ones are suppressed like unknown names.
PiNames ==
  [session_start |-> "SessionStart", session_shutdown |-> "SessionEnd",
   agent_start |-> "WorkingStart", agent_end |-> "WorkingEnd", input |-> "PromptSubmit",
   tool_call |-> "ToolCallStart", tool_execution_end |-> "ToolCallEnd",
   session_before_compact |-> "ContextCompactStart", model_select |-> "ProviderModelChange",
   atm_needs_input_open |-> "NeedsInput", atm_needs_input_resolved |-> "WorkingStart",
   context |-> "ContextUpdate", turn_end |-> "ContextUpdate"]

NotificationEvent(note) ==
  CASE note \in {"permission_prompt", "elicitation_dialog", "agent_needs_input"} -> "NeedsInput"
    [] note = "idle_prompt" -> "Idle"
    [] OTHER -> "Notification"

\* Without its tool's name a tool event would record a phantom call: dropped.
ClaudeEvent(raw) ==
  CASE raw.name \notin DOMAIN ClaudeNames -> "none"
    [] raw.name \in {"PreToolUse", "PostToolUse", "PostToolUseFailure"} /\ raw.tool = "none" -> "none"
    [] raw.name = "PreToolUse" /\ IsInteractive(raw.tool) -> "NeedsInput"
    [] raw.name = "Notification" -> NotificationEvent(raw.note)
    [] OTHER -> ClaudeNames[raw.name]

CodexEvent(raw) ==
  CASE raw.name \notin DOMAIN CodexNames -> "none"
    [] raw.name \in {"PreToolUse", "PostToolUse"} /\ raw.tool = "none" -> "none"
    [] OTHER -> CodexNames[raw.name]

PiEvent(raw) ==
  CASE raw.name \notin DOMAIN PiNames -> "none"
    [] raw.name \in {"tool_call", "tool_execution_end"} /\ raw.tool = "none" -> "none"
    [] raw.name = "tool_call" /\ raw.note = "needs_user_input" -> "NeedsInput"
    [] raw.name = "input" /\ raw.note # "interactive" -> "none"
    [] OTHER -> PiNames[raw.name]

ToLifecycleEvent(vendor, raw) ==
  CASE vendor = "claude" -> ClaudeEvent(raw)
    [] vendor = "codex" -> CodexEvent(raw)
    [] vendor = "pi" -> PiEvent(raw)

\* A hook that carries a child's id is the child row's (RawHookEvent::child_agent);
\* SubagentStart and SubagentStop are the lead's own.
ChildAgent(vendor, raw) ==
  vendor = "claude" /\ raw.child /\ raw.name \notin {"SubagentStart", "SubagentStop"}

--------------------------------------------------------------------------
\* Takes a child's start or end for work of this session.
ApplyLifecycleEventChildWorks(status, event) ==
  CASE event \in {"SessionStart", "SessionEnd", "WorkingEnd", "Idle"} -> "idle"
    [] event \in {"WorkingStart", "PromptSubmit", "ToolCallStart", "ToolCallEnd", "ContextCompactStart",
                  "SetupNotification", "ChildSessionStart", "ChildSessionEnd"} -> "working"
    [] event = "NeedsInput" -> "attention"
    [] OTHER -> status

\* A child that starts or ends says nothing of this session's turn.
ApplyLifecycleEvent(status, event) ==
  CASE event \in {"SessionStart", "SessionEnd", "WorkingEnd", "Idle"} -> "idle"
    [] event \in {"WorkingStart", "PromptSubmit", "ToolCallStart", "ToolCallEnd", "ContextCompactStart",
                  "SetupNotification"} -> "working"
    [] event = "NeedsInput" -> "attention"
    [] OTHER -> status
=============================================================================
