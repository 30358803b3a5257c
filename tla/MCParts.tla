------------------------------- MODULE MCParts -------------------------------
(* The parts that do one thing after another, each alone in a world that     *)
(* interferes: the screen and the keys of the TUI, the commands that work on *)
(* tmux, setup, and what the daemon makes of an agent's reports and of /proc.*)
(* They share no state: `part` picks one, and v1 .. v8 are its variables.    *)
EXTENDS Naturals, Sequences, FiniteSets

CONSTANTS
  TuiSessions, Views(_), MaxQuery, MaxKeys, MaxNews, \* TuiApp
  MaxCount, MaxWord,                                 \* KeyInput
  Dirs, MaxVersion, MaxReads,                        \* BeadsReader
  MaxTurns, MaxCalls, MaxSides, MaxLost, MaxWire,    \* AgentStatus
  MaxRequests, MaxReports, MaxRecords, TailRecords, NoFigure,  \* Usage
  ScanPids, ScanExits,                               \* Discovery
  SetupRuns, SetupEdits, SetupFails, SkillRuns,      \* Setup, SkillInstall
  WorkspaceRuns, WorkspaceUpsets,                    \* Workspace
  SpawnFails, SpawnGone,                             \* Spawn
  MaxOptions, SendFails, SendChanges                 \* PaneCommands

VARIABLES part, v1, v2, v3, v4, v5, v6, v7, v8

vars == <<part, v1, v2, v3, v4, v5, v6, v7, v8>>

\* Three agents: one that moves between worktrees of project 1, its child, and one
\* that starts in no worktree and may move to the worktree of the other.
View(parent, project, worktree, pane, attn, fits) ==
  [parent |-> parent, project |-> project, worktree |-> worktree, pane |-> pane,
   attn |-> attn, fits |-> fits]
MCViews(s) ==
  CASE s = 1 -> {View(0, 1, 1, 1, FALSE, 0), View(0, 1, 2, 1, FALSE, 1)}
    [] s = 2 -> {View(1, 1, 1, 0, TRUE, 2)}
    [] OTHER -> {View(0, 1, 2, 2, FALSE, 1), View(0, 0, 0, 2, TRUE, 0)}

Tui == INSTANCE TuiApp WITH
  Sessions <- TuiSessions, app <- v1, capturing <- v2, inbox <- v3, keys <- v4, news <- v5, done <- v6
Beads == INSTANCE BeadsReader WITH world <- v1, job <- v2
Key == INSTANCE KeyInput WITH
  state <- v1, help <- v2, searching <- v3, filtered <- v4, act <- v5, word <- v6, said <- v7, done <- v8
Status == INSTANCE AgentStatus WITH agent <- v1, wire <- v2, row <- v3
Figures == INSTANCE Usage WITH None <- NoFigure, agent <- v1, reports <- v2, row <- v3
Scan == INSTANCE Discovery WITH MaxPids <- ScanPids, MaxExits <- ScanExits, procs <- v1, scan <- v2
Files == INSTANCE Setup WITH
  MaxRuns <- SetupRuns, MaxEdits <- SetupEdits, MaxFails <- SetupFails, world <- v1, job <- v2
Skill == INSTANCE SkillInstall WITH MaxRuns <- SkillRuns, world <- v1, job <- v2
Windows == INSTANCE Workspace WITH
  MaxRuns <- WorkspaceRuns, MaxUpsets <- WorkspaceUpsets, world <- v1, job <- v2
Split == INSTANCE Layout WITH world <- v1, job <- v2
Make == INSTANCE Spawn WITH MaxFails <- SpawnFails, MaxGone <- SpawnGone, world <- v1, job <- v2
Send == INSTANCE PaneCommands WITH
  MaxFails <- SendFails, MaxChanges <- SendChanges, world <- v1, job <- v2

\* A session's parent started before it.
ASSUME PartsAssumption ==
  /\ IsFiniteSet(TuiSessions) /\ TuiSessions \subseteq Nat \ {0}
  /\ \A s \in TuiSessions : \A v \in Views(s) :
       v.parent \in Nat /\ v.parent < s /\ v.project \in Nat /\ v.worktree \in Nat
  /\ MaxCount \in Nat /\ MaxCount >= 3
  /\ MaxVersion \in Nat /\ Beads!NoDir \notin Dirs
  /\ MaxReports \in Nat /\ TailRecords \in Nat \ {0} /\ NoFigure \notin Nat
  /\ MaxOptions \in Nat \ {0}

\* A step of the part p, that has six variables, or three, or two.
Of(p) == part = p /\ UNCHANGED part
Of6(p) == Of(p) /\ UNCHANGED <<v7, v8>>
Of3(p) == Of6(p) /\ UNCHANGED <<v4, v5, v6>>
Of2(p) == Of3(p) /\ UNCHANGED v3

Init ==
  \/ part = "key" /\ Key!Init
  \/ /\ v7 = 0 /\ v8 = 0
     /\ \/ part = "tui" /\ Tui!Init
        \/ /\ v4 = 0 /\ v5 = 0 /\ v6 = 0
           /\ \/ part = "status" /\ Status!Init
              \/ part = "figures" /\ Figures!Init
              \/ /\ v3 = 0
                 /\ \/ part = "beads" /\ Beads!Init
                    \/ part = "scan" /\ Scan!Init
                    \/ part = "files" /\ Files!Init
                    \/ part = "skill" /\ Skill!Init
                    \/ part = "windows" /\ Windows!Init
                    \/ part = "split" /\ Split!Init
                    \/ part = "make" /\ Make!Init
                    \/ part = "send" /\ Send!Init

Next ==
  \/ Of("key") /\ Key!Next
  \/ Of6("tui") /\ Tui!Next
  \/ Of3("status") /\ Status!Next
  \/ Of3("figures") /\ Figures!Next
  \/ Of2("beads") /\ Beads!Next
  \/ Of2("scan") /\ Scan!Next
  \/ Of2("files") /\ Files!Next
  \/ Of2("skill") /\ Skill!Next
  \/ Of2("windows") /\ Windows!Next
  \/ Of2("split") /\ Split!Next
  \/ Of2("make") /\ Make!Next
  \/ Of2("send") /\ Send!Next

Spec == Init /\ [][Next]_vars

-----------------------------------------------------------------------------
(* The parts' properties; their modules state each in full. *)

\* KeyInput: the action that a word of keys makes is the one its grammar and the help
\* tell, and there is none that the help leaves out.
WordsMeanWhatTheySay ==
  part = "key" => Key!WordsMeanWhatTheySay /\ Key!HelpTellsTheTruth

\* TuiApp: whatever order moves, list updates and late captures come in, the rows are
\* the current tree's, the preview is of the agent under the cursor, and the tree holds
\* each listed agent once.  BeadsReader: the task beside it never goes back to an older
\* one, and reads that hang pile up in no directory.
ScreenTrue ==
  /\ part = "tui" => Tui!ScreenCurrent /\ Tui!PreviewIsSelected /\ Tui!EachAgentOnce
  /\ part = "beads" => Beads!NothingOlderComes /\ Beads!OneReadEach

\* TuiApp: no update hides a match of the filter, and the end of a filter leaves the
\* cursor where it was, the folds around it opened.
FilterKeepsPlace == [][part = "tui" => Tui!KeepsMatchesVisible /\ Tui!KeepsCursor]_vars

\* AgentStatus: the row of an agent that waits for its user says so, one back at its
\* prompt is idle and one in a tool call works, whatever its children's hooks say.
StatusTrue == part = "status" => Status!OpenDialogShows /\ Status!TurnShows

\* Usage: context and cost are ones the agent had, of a known window, in the end
\* its own last ones.
FiguresTrue ==
  part = "figures" => Figures!ContextIsActive /\ Figures!WindowKnown /\ Figures!SettledCost

\* Discovery: a scan lists each agent once, by the pid under which its hooks report.
OneRowPerAgent == part = "scan" => Scan!OneRowPerAgent /\ Scan!HookNamesListed

\* Setup: the user's status line survives in the settings or the backup, and no
\* harness runs a hook's script twice or one that is gone.
SettingsSound == part = "files" => Files!StatusLineKept /\ Files!HooksRunOnce

\* Setup, SkillInstall: no run loses the user's own hooks, or leaves a skill that was
\* whole in pieces.
RunsLoseNothing ==
  [][(part = "files" => Files!KeepsOwnHooks) /\ (part = "skill" => Skill!LeavesWhole)]_vars

\* Workspace, Layout, Spawn, PaneCommands: a window gets one sidebar, unless a failure cut
\* its own short or another window's script split it; each leaf of a layout gets one pane,
\* the caller of spawn the name of each pane it made, running what was asked; and no
\* command leaves its paste buffer behind.
TmuxLeftInOrder ==
  /\ part = "windows" => Windows!OneSidebar
  /\ part = "split" => Split!LeavesGetPanes
  /\ part = "make" => Make!MadePanesPrinted /\ Make!NothingAskedDropped
  /\ part = "send" => Send!BufferGone

\* PaneCommands, Workspace: `send` answers no dialog that its list showed, an
\* undisturbed `reply` picks the option asked for, if the dialog has it and its cursor was
\* read right, and an attach that reports success has made every sidebar whole.
CommandsKeepWord ==
  [][(part = "send" => Send!AnswersNoShownDialog /\ Send!PicksOption)
       /\ (part = "windows" => Windows!Completes)]_vars
=============================================================================
