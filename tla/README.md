# TLA+ models of agent-tmux-manager

`atm` shows the coding agents (Claude Code, pi, Codex) that run in a user's
tmux panes. Hooks and extensions of the agents report to a daemon, `atmd`,
over a Unix socket; the terminal interface `atm` subscribes to the daemon, and
the `atm` commands drive tmux and the harnesses' settings. This directory
specifies both sides in TLA+: the daemon's concurrent core, and the parts
around it whose hazards are orders, failures and what others change meanwhile.
TLC checks it on small instances; TLAPS proves part of it for all instances.

Paths below are relative to the repository (`crates/atmd/src` is written
`atmd/`, `crates/atm/src` is written `atm/`).

## 1. Inventory

| Component | State it keeps | Operations | Talks to |
|---|---|---|---|
| Session registry actor (`atmd/registry/actor/*.rs`, `infra.rs`) | `sessions_by_pid`, `session_id_to_pid`, `child_refs`, `ended_sessions` | one handler per command: status line, lifecycle event, discovered process, cleanup, queries | takes commands from a channel of 100, publishes `SessionEvent`s on a broadcast channel of 2048 |
| Git lookups (`atmd/registry/git.rs`) | slots per directory, a channel of results | request, finish, refresh every 5 s | threads of their own; results go back to the actor |
| Registry handle and tasks (`handle.rs`, `registry/mod.rs`) | senders only | cleanup every 2 s, git refresh, supervision | the actor |
| Connection (`atmd/server/connection.rs`) | client id, subscription, forwarder task, socket | handshake, reports, subscribe, unsubscribe, list, discover | registry handle; one task per connection, one more per subscription |
| Server (`atmd/server/mod.rs`) | subscriber entries, connection tasks, a cancellation tree | accept, refuse past the cap, drain, clean up | connections |
| Notifier (`atmd/notify.rs`) | tracker of open stretches, delay timers | observe an event, a delay is over, events were lost | event channel; runs the user's command |
| Discovery (`atmd/discovery.rs`, `tmux.rs`, `harness_registry.rs`) | the running scan | read `/proc`, drop wrappers and what is excluded, offer each agent to the registry | registry handle |
| Daemon instance (`src/bin/atmd.rs`, `atm/daemon.rs`) | lock file, pid file, socket file | start, stop, respawn | the file system |
| Client (`atm/client.rs`) | its retry delay | connect, subscribe, reconnect | the socket |
| Session domain (`crates/atm-core/src/session.rs`) | one session's status, context, cost, model | apply an event or a status line | called by the actor |
| Adapters (`crates/atm-*-adapter`) | none | translate a vendor's hook into a lifecycle event or a status line | called by connections |
| Codex transcripts (`atmd/server/connection.rs`, `crates/atm-codex-adapter`) | none | read the tail of the file Codex is writing | the file system, then the registry |
| Hook scripts (`crates/atm/scripts`) | none | walk to the agent's pid, send one message, give up after 100 ms | the socket |
| pi extension (`extensions/pi-atm`) | sockets, outbox, back-off, the wrapped `ui.select` | forward an event, flush, reconnect | pi's callbacks, the socket |
| TUI (`src/bin/atm/tui.rs`, `atm/app.rs`, `keybinding.rs`, `filter.rs`, `crates/atm-core/src/tree.rs`) | the `App` struct, a half-typed chord, a capture task | keys, list updates, pane polls, late captures | client, tmux |
| Commands on tmux (`src/bin/atm/workspace.rs`, `spawn.rs`, `cli.rs`, `crates/atm-tmux`) | windows, panes, hooks, buffers: all in tmux | workspace, layout, spawn, send, reply, interrupt, kill | tmux, one process per call |
| Setup (`atm/setup`) | the user's settings files, scripts, skill folders, a backup | setup, uninstall | the file system |
| Rendering, `list`, `status`, `peek`, argument parsing | presentation | | not modelled, see section 7 |

### What is hard here

* **Identity.** A row's key is its pid; its session id changes: a discovered
  process starts as `pending-<pid>`, takes a real id with its first report,
  and moves to another session on `/clear`. Two processes may report one id
  (a resumed copy). Everything that refers to a session by id (the index,
  parent links, child lists, child references, subscribers' lists) has to
  follow each rename and removal.
* **Order.** Each hook runs in a process of its own and opens a connection of
  its own, so messages of one agent are handled in any order, also after the
  agent has exited.
* **In-process children** have rows with made-up pids that cleanup never
  sweeps. Only their parent's row can take them away. Their hooks arrive
  between their parent's and say nothing of the parent's own turn.
* **Lossy fan-out.** Subscribers and the notifier read a broadcast channel
  that drops the oldest events of a slow reader.
* **Back-pressure.** pi's events outlive a connection in a bounded outbox, and
  a socket whose buffer is full may close instead of draining.
* **Time.** Periodic cleanup, delays of notifications, end markers that expire,
  chords of keys that never time out.
* **Answers to old questions.** A capture of a pane arrives after the cursor
  has moved; a list is read once and acted on later; a scan of `/proc` takes
  long enough for processes to start and exit; a tail is read while the file
  grows.
* **Failure.** Processes die, pids are reused, daemons restart with an empty
  registry, lookups hang or panic, writes time out half way, a tmux call times
  out with its effect, a file operation fails after truncating the file.

`PROJECT.json` lists each hazard at its line with the properties that cover it.

### What makes each component correct

* Registry: the index leads to rows with that id; a session whose id nobody
  else reports can be found; capacity; no orphaned child; links mutual through
  renames; references only under ids in use; what is published equals what is
  stored; a real id never turns pending; a live agent's row goes only when a
  session's end is recorded for its pid; a dead one's row does go.
* Moves: when all frames of a move are in, there is one row, under the new id.
* Stream: while a subscription runs no change is lost or overtaken; in the end
  the client shows what the registry holds, whatever was cut in between.
* Server: who is served holds one of a fixed number of places; a TUI that was
  refused gets in when there is room.
* Notifier: one run per dialog, only while it is open, none muted.
* Git lookups: one lookup per directory, no leaked slot, no stray context.
* Daemon instance: one daemon at a socket's path, its pid file its own, and a
  TUI that gets its connection back whatever crashed.
* Discovery: one row per agent, under the pid its hooks will name.
* A row: it says that the agent waits exactly when it does, and its figures
  are ones the agent had.
* pi extension: events are read in the order fired, what waits is bounded, and
  a paused connection does not stay paused.
* TUI: the screen is the current list's, the preview the selected agent's, a
  filter neither hides what matches nor loses the cursor; keys do what the
  grammar says.
* Commands on tmux: one sidebar per window, one pane per leaf, every pane that
  `spawn` made known to its caller, no keys into a dialog that was listed, and
  no paste buffer left.
* Setup: the user's own hooks and status line survive any sequence of runs,
  failures and edits; a skill folder is whole.

## 2. Modules

| Module | Models | Uses |
|---|---|---|
| `SessionRegistry` | the registry actor, all of its handlers | |
| `RemovalCascade` | the mutual recursion of `remove_entry` and `detach_removed_session`, the sweep loop | extends `SessionRegistry` |
| `ClearDelivery` | one agent's moves between sessions and the frames they send | extends `SessionRegistry` |
| `SubscriberStream` | broadcast channel, subscription, snapshot, forwarder, socket, client | |
| `Places` | what the subscriber cap promises: a pool of places | |
| `Server` | accept loop, connections, cap, shutdown, a TUI that retries | refines `Places` |
| `AttentionNotifier` | the notifier and its timers | |
| `GitLookups` | lookups, their threads and their results | |
| `DaemonInstance` | starters, lock, pid files, socket file, `atmd stop`, the TUI's respawn | |
| `LifecycleEvents` | the vendors' event names, their translation, an event's effect on a status | |
| `AgentStatus` | an agent's turn and the status its row shows | extends `LifecycleEvents` |
| `Usage` | context, window, tokens, cost and model: status lines, Codex's rollout file, pi's frames | |
| `Discovery` | the scan of `/proc`, and the pid that a hook script reports | |
| `PiExtension` | pi-atm's outbox, sockets and dialogs | |
| `TuiTree` | the tree of projects, worktrees, teams and agents; the filter's query | |
| `TuiApp` | the `App` struct, the event loop, the capture task | extends `TuiTree` |
| `KeyInput` | the key handler, the modes before it, the help table | |
| `BeadsReader` | the background reads of a project's in-progress task | |
| `Workspace` | `workspace create` and `attach` and the hook's script | |
| `SidebarResize` | the sidebar's resize script, started by hooks it fires itself | |
| `Layout` | `layout`: presets, configuration, and their application | |
| `Spawn` | `spawn`: resolving the harness, the checks, the pane | |
| `PaneCommands` | `send`, `reply`, `interrupt`, `kill` on a pane that changes | |
| `Setup` | `setup` and `uninstall` on the settings files | |
| `SkillInstall` | replacing one skill folder | |
| `SessionRegistryProofs` | theorems about the registry and about an agent's moves | extends `ClearDelivery`, which extends `SessionRegistry` |
| `DaemonInstanceProofs`, `ServerProofs`, `AttentionNotifierProofs`, `SubscriberStreamProofs` | theorems | extend the module they are about |
| `BackgroundProofs` | theorems about git lookups, places, the pi extension and the sidebar | extends `MCBackground`, uses `ServerProofs` |
| `TerminalProofs` | theorems about pane commands, workspaces, layouts and spawn, the TUI's screen and the beads; lemmas about sequences | extends `MCParts` |
| `PartsProofs` | theorems about figures, statuses, setup, skills, the scan and the keys | extends `TerminalProofs` |
| `MC...` | instances for TLC | one per run; three for the registry |

In each module an operator marked "Faulty" or "variant" is a form of the
definition below it with a plausible bug. The specification never uses them;
for every checked property one of them breaks it, which shows that the property
says something about the code.

`MCBackground` and `MCParts` put several modules into one run: the parts share
no state, `part` picks one at the start, and `v1`, `v2`, ... are that module's
variables. Each property is stated as `part = "..." => M!Property`, so a run
checks every part alone, from all of its initial states. The parts of
`MCBackground` keep the fairness of their own specifications; those of
`MCParts` have none, as only their safety is checked. The parts' constants are
constants of `MCBackground` and `MCParts` too: the `.cfg` files give them small
values, and `BackgroundProofs`, `TerminalProofs` and `PartsProofs` prove about
them for all values.
(`MCParts` names two apart where several parts have a constant of one name:
`SetupRuns` is the `MaxRuns` of `Setup`, `NoFigure` the `None` of `Usage`,
`TuiSessions` the `Sessions` of `TuiApp`, ...)

### SessionRegistry

The actor handles one command at a time, so an action is a whole handler. A
handler is an operator from the actor's state (the record `reg`) to the state
after it, composed of one operator per Rust function: `ReconcileSessionId`,
`RenameLinks`, `RemoveRows`, `EnsureChildSession`, `RegisterChildAlias`,
`ApplyBackgroundActivity`, and so on.

| Variable | Code |
|---|---|
| `sessions_by_pid`, `session_id_to_pid`, `child_refs` | the maps of the same names |
| `ended_sessions` | the pairs whose marker `marker_live` would still accept |
| `feed` | what a subscriber holds that has applied every published event |
| `starts`, `live` | the environment: how many processes have run under a pid, which pids have one now |

* A row is its id, parent, child list, status and the start time recorded for
  its process. `Untracked` is an infrastructure record without a pid: a
  child's, or that of a process whose `/proc` entry could not be read.
* Messages carry an *origin*, a session id and a pid, or no pid. `Reports`
  says which real ids the processes under a pid report; any process may send
  any of its messages at any time, late ones after its exit included. A
  pid-less message may carry any real id.
* An event's effect on the status is taken from `Effects`: which event has
  which effect is the session domain's own sequential logic.
* `MarkerExpires` drops a marker at any time. The code keeps it for ten
  seconds of wall-clock time and drops it when the clock steps back; the
  registry's properties hold for any timing, so the model has no clock.
* `rename_links` rebuilds `child_refs` from a hash map, so when two keys meet
  either value may stay: `tie` chooses for each.
* The removal cascade is stated in closed form (`RemoveRows`: the rows
  reachable through child lists and the index). `RemovalCascade` writes the
  recursion down and compares the two in every reachable state.
* A `Registered` event reaches no client (`send_event` drops it), so `feed`
  ignores it.
* The commands `Register` and `Remove` are sent by tests only. Their handlers
  appear where others call them (children are registered and removed so).
* Synthetic pids come from 2^31 up, so no report carries one, and the code
  picks one that is not in use (`EnsureChildSession`).

### ClearDelivery

One `/clear` or resume makes the agent send an end and a status line for the
session it leaves and a start and further frames for the one it enters. They
travel over separate connections: `Deliver` handles any of those in flight.
A move starts when the frames of the previous one have arrived (they take
milliseconds; moves are a person's commands), and end markers expire only
between moves (10 s against milliseconds). `Unseen` lets the process move
while the registry has it as pending. `orderly` remembers of the last move that
the registry knew the session left (`IdAt(agent) = current`), and that a hook of
the move came before the status line of the session entered (`HooksOut`). What
the code documents (`MoveLeavesNewRow`) holds of orderly moves only; the others
are finding 2. A process goes on moving after a disorderly one, so an orderly
move may follow whatever that left.

### SubscriberStream

The registry is reduced to the views of sessions and three commands, `Update`,
`Remove` and `Rename`; `Rename` publishes two events. Events of one command
are published one by one (`outbox`), because `broadcast::send` is not atomic
with the receivers' reads. The handler of a connection goes through `closed`,
`open`, `attached` (a receiver exists), `listed` (the snapshot is taken) and
`forwarding`. The socket is a bounded queue. The client applies lists and
updates as `App` does, drops what it reads after an error and reconnects.
`breaks` bounds write timeouts, failed handlers and daemon restarts;
`requests` bounds changes of the subscription.

### AttentionNotifier

`delayed` is chosen at the start, as `delay_secs` is read once. A session has
dialogs one after another; the events carry the dialog's number, which the
code does not see: it is history that the properties need. A receiver that
fell behind reads `Lagged` first. Timers are a set: delays are equal, but a
timer task may report late.

### GitLookups

Sessions start in, move between and leave directories; a child starts with its
parent's context. A lookup is a thread that reports, panics or hangs for ever,
or that fails to start. Branches change at any time. Reading one directory is
one step; directories outside a repository are left out.

### DaemonInstance

| Variable | Code |
|---|---|
| `proc` | how far each process is in `main`, `run_daemon` and `DaemonServer::run`, or that it is an unrelated program |
| `lock` | the holder of the flock on `<socket>.lock` |
| `sock` | who bound the file at the socket's path; a crash leaves it |
| `pidFile`, `dir` | the pid file of each state directory, the directory of each atmd |
| `cancelled` | daemons whose token a signal or the registry's death has cancelled |
| `stopping` | the pid an `atmd stop` has read and not yet signalled |
| `tui`, `peer` | where the TUI is in `connect_with_retry` and `ensure_daemon_running`, and its connection |

* Each file operation is a step of its own: truncating and writing the pid
  file, unlinking and binding the socket, removing both at the end.
* A missing and an empty pid file are one value: both read as no pid.
* Pids are reused, by other daemons and by strangers. That a starter gets the
  very number in its stale pid file, and refuses to start because of itself,
  counts as a mishap and is bounded with the crashes.
* A starter keeps its pid across the fork of `-d`; the child inherits the lock.
* SIGTERM kills a process that does not listen for it yet; afterwards it
  cancels the token, or does nothing if the server is already leaving.
* All daemons share one socket. A state directory that serves two sockets is
  left out.

### Server and Places

`world` is the server: whether it is up, the accept loop's pause after an
error, each connection (`conns`: where its handler is, the forwarder, the
cancellation token, the last reply, whether the client's end is open) and the
subscriber entries. `job` is the TUI's client with its retry delay. A
connection that closes may connect again, under any client id: ids are the
clients' choice, the entries' keys are the server's. The admission check and
the entry are one step, because the code holds one lock for both; everything
else a handler awaits is a step of its own. `Places` says in four actions what
the cap promises; `Server` refines it with the entries as holders and the
running, uncancelled forwarders as those served.

### LifecycleEvents and AgentStatus

`LifecycleEvents` holds the tables: which vendor event is which lifecycle
event, which of them a child agent sent, and what each does to a status.
`AgentStatus` puts a vendor's program before it. The program is not in the
repository; it is known from the captures recorded in the adapters' documents
and tests. The vendor waits for its hooks, so they arrive in order or, after
the hook's 100 ms, not at all; a background child's arrive at any point. An
answered or cancelled dialog is reported by nobody but pi: `told` is false until
the agent's next report, and the properties ask nothing of the row meanwhile.

### Usage

A request leaves one or two tokens in the context and ten in the session's
count, so that a count of the session taken for a context is visible. Claude's
status lines and pi's frames travel in order; each Codex hook has a connection
of its own with three steps (event and model, read, usage). Codex's file grows
while it is read: the tail may begin inside a record, the last record may be
half written, a placeholder has no usage. `oldpi` is pi-atm before it sent a
snapshot of the session.

### Discovery

`procs` is the process table. Any process may start or exit between two reads
of the scan, which takes the pids in any order. A launch of Codex is its node
wrapper and the binary; both match. The hook scripts' walk up the process tree
is `FindClaudePid` and `FindCodexPid`; their limit of fifteen levels is not
reached here.

### PiExtension

`ext` is the module's variables, `socks` Node's sockets, `daemon` what atmd has
read. Node runs one callback at a time, so a callback is a step; the socket and
the daemon move between. A socket buffers what `write` takes, reports
back-pressure at `HighWater`, and drains or closes. The branch of `send` for a
`write` that throws is left out: Node's `write` reports errors by event.

### TuiTree and TuiApp

`app` is the `App` struct and its methods are operators from `app` to `app`.
The loop draws, takes one event, handles it and draws again, so a step is one
event and the frame after it, which is what points the capture task at the
selected agent's pane. Events are keys, whole lists, single updates and
removals, a change of the tmux session's panes, and the answer of a capture
that was started before any of these. The tree is a set of paths of node ids;
`Flatten` turns it into rows in depth-first order. The queries are the prefixes
of one text, so a query is its length.

### KeyInput

Every key of the handler's grammar, the help popup, the search prompt and
Escape with a filter. `word` collects the keys of the unfinished word, and the
property compares the handler's action with what the grammar says of the word.
Nothing times out in the code, so no step does. `MAX_COUNT` is small so that
counts saturate. `NavigationHints` and `ActionHints` are `KEYBINDING_HINTS`, the
table the help popup and the footer print; it is kept beside the handler by
hand, so a second property compares the two.

### BeadsReader

`world` is the user's selection and the files, each known by its version;
`job` the polling task, `pending`, the threads, the event channel and what the
`App` keeps. A thread may read at any time, answer later, panic, or hang for
ever (it takes no step); a poll may time out at any time. A thread that does not
start changes nothing.

### Workspace and SidebarResize

Every tmux command of `workspace` is a step that succeeds, fails, or times out
with or without its effect. Beside it run the user, who opens windows (with or
without going there), selects them and closes sidebars, and the scripts of the
after-new-window hook, one for each new window, any number at once. A script
names no window: its `split-window` takes the one that is current when it comes
to it. It checks no exit status, and after a failed split its empty `-t ""` means
the current window's active pane (`ScriptStrays`). `cut` has the windows where
something was left half made, or that another window's script split or marked.
`SidebarResize` has the other script, which reads the window, then
the pane, then writes, and whose write starts it again; its runs overlap, and
they count tries in an option of the pane.

### Layout, Spawn, PaneCommands

`Layout` applies a tree of slots to rectangles; a split may fail. `Spawn`
resolves a harness from the built-in table, aliases and the configuration,
checks what is asked of it, and then touches tmux; panes may go meanwhile.
`PaneCommands` reads the session list once and the pane's state once and then
sends keys, while the dialog opens and closes, the user types, moves its cursor
and enters copy mode, and the row follows late. A dialog has any number of options
up to `MaxOptions`; `reply` may ask for any number from 0 to one past that.
`FindSelectedOption` is what the code's parse gives: the first line "> N." of the
pane, which may be an earlier prompt that the user sent (`above`), else the dialog's
own if it marks its cursor so, else 1, with a dialog open or not.

### Setup and SkillInstall

A run of `setup` or `uninstall` is a list of file operations. A read fails on a
file that does not parse, a write fails before or after it has truncated the
file, and the run ends there. Between runs the user edits the same files.
`SkillInstall` builds a skill in a staging folder and swaps it in with two
renames; any operation may fail and the process may be killed between two.

## 3. Runs

All with two workers; `parts` takes two and a half minutes, the others about one or less.

| Run | Instance | States | Shows |
|---|---|---|---|
| `registry_shared` | 2 processes, ids `x` (both) and `y` (one), the second a command-line child of `x`, 2 agent ids, 3 rows at most | 91 536 | `CascadeAgrees`, `IndexSound`, `ExclusiveIdsIndexed`, `NoGhosts`, `CapacityRespected`, `EndsRecorded` |
| `registry_children` | 1 process with 2 ids, 2 agent ids, 1 name, room for 4 | 12 544 | `TypeOK`, `ChildrenOwned`, `ChildRecordsAgree`, `FeedAgrees`, `RealIdsStay` |
| `registry_cleanup` | 2 processes that report one id, each pid used twice | 12 052 | `DeadRowsLeave` |
| `registry_swept` | the same | violated | `SweptRowsLive` (finding 1) |
| `clear_delivery` | 1 process, 3 ids, 3 moves, 6 frames each: end, start, and a status line and an event of either session; also from a pending row | 13 362 | `OrderlyMoveLands`, `OldStaysOut` |
| `clear_status_first` | 1 move from a known session: end, start, a status line of the new one | violated | `MoveLeavesNewRow` (finding 2) |
| `subscriber_stream` | 2 sessions, 2 views, buffers of 2, 3 commands, 2 failures, 1 request | 344 186 | `StreamSound`, `Converges` |
| `attention_notifier` | 2 sessions with 2 and 1 dialogs, a buffer of 2, 1 repeated update, with and without delay | 151 508 | `AnnouncedOnce`, `RunsWhileOpen`, `DialogsRing` |
| `notify_forgets` | the same, a buffer of 1 | violated | `OpenDialogRings` (finding 3) |
| `daemon_instance` | 3 pids, 2 state directories, 1 stranger, 2 mishaps, 2 commands | 236 733 | `PathIsOurs`, `PidFileIsOurs`, `TuiRecovers` |
| `background` | git lookups, server, pi extension, resize script | 162 053 | `SlotsExact`, `NoStrayContext`, `ContextsSettle` (git); `PlacesKept`, `TuiGetsIn` (server); `ReadInOrder` (pi); `SettlesAtWidth` (resize); `NothingHangs` (the last two) |
| `parts` | the twelve parts of `MCParts` | 5 918 985 | see below |

What `parts` shows, part by part:

| Property | Modules | Says |
|---|---|---|
| `ScreenTrue` | `TuiApp`, `TuiTree`, `BeadsReader` | the rows are the current tree's, each listed agent is in it once, the preview is of the agent under the cursor, its task never goes back to an older one, no directory holds two reads |
| `FilterKeepsPlace` | `TuiApp` | no update hides a match; the end of a filter leaves the cursor where it was |
| `WordsMeanWhatTheySay` | `KeyInput` | the action a word of keys makes is the one its grammar tells, and the help tells every action truly |
| `StatusTrue` | `AgentStatus`, `LifecycleEvents` | an agent with a dialog open shows attention, one back at its prompt idle, one at work working |
| `FiguresTrue` | `Usage` | context and cost are ones the agent had, of a known window, in the end the last ones |
| `OneRowPerAgent` | `Discovery` | a scan lists each agent once, under the pid its hooks name |
| `SettingsSound` | `Setup` | the user's status line is in the settings or the backup; no script runs twice or is gone |
| `RunsLoseNothing` | `Setup`, `SkillInstall` | no run loses the user's hooks or leaves in pieces a skill that was whole |
| `TmuxLeftInOrder` | `Workspace`, `Layout`, `Spawn`, `PaneCommands` | one sidebar per window (those that a failure cut short, or another window's script split, aside), a pane per leaf, each pane made is printed and runs what was asked, no buffer stays |
| `CommandsKeepWord` | `PaneCommands`, `Workspace` | `send` answers no dialog its list showed, an undisturbed `reply` picks the option asked for, if the dialog has it and its cursor was read right, an `attach` that reports success made every sidebar whole |

### Bounds and why they are enough

* The registry has no counter besides `starts`; its runs are exhaustive for
  their constants without any bound on the number of messages. Two processes
  are enough for any pair of rows that meet at one id; two children of one
  parent for lists with a survivor; a process used twice for pid reuse
  (`MaxStarts` = 2); three rows for a cascade beside a row that stays.
  `registry_shared` reaches the full registry with two parents and one child.
* `MaxMoves` = 3 lets a session be left, entered again and left again, so an
  old end marker meets a new start of the same session, or an orderly move
  follows a disorderly one.
* Stream: buffers of two, since a rename publishes two events and so fills one,
  and a further command overflows it.
* Two dialogs of a session: the second is the one an earlier may mute; the
  dialog of the other session is what overflows the buffer.
* Git: `MaxChanges` = 3 puts a session into a directory, moves it and changes a
  branch during a lookup; two faults let a lookup hang while another panics.
* Daemon instance: three pids are a daemon, its successor and a starter that
  loses, or one of them a stranger; two mishaps let a start fail after a crash;
  two commands are a start beside the TUI's and a stop. The safety properties
  of this run are also proved without bounds.
* Server: one place (`MaxClients` = 1), a TUI and one other client, which is
  the smallest contest for a place; two ids, so that clients may share one;
  `MaxStops` = 1 shutdown and restart; `MaxDelay` = 1. The refinement is also
  proved for any of them.
* pi: `OutboxMax` = 2 and `HighWater` = 2 with `MaxEvents` = 6, so that the
  socket's buffer fills, then the outbox, and then an event is dropped;
  `MaxSockets` = 2, the second while the first closes.
* Resize: `MaxScripts` = 2 overlapping runs, `MaxTries` = 2 (5 in the source:
  only that it is reached matters), `MaxResizes` = 3, so that one comes after
  the tries are used up.
* TUI: three agents, of which one is a child, one moves between worktrees and
  one between projects; `MaxKeys` = 3 opens, types and ends a filter;
  `MaxNews` = 2 lets a list and an update come between; `MaxQuery` = 2 narrows
  a filter.
* Beads: two directories, two versions of each file, `MaxReads` = 3 reads, so
  that one hangs or answers late while another directory is read.
* Keys: `MaxCount` = 20 saturates after two digits; `MaxWord` = 4 holds two
  digits and a chord.
* Status: `MaxTurns` = 2, `MaxCalls` = 2 and `MaxSides` = 2 let a child's hook
  come before and after a dialog; `MaxLost` = 1; `MaxWire` = 1 is how far the
  daemon may be behind when the agent moves on.
* Figures: `MaxRequests` = 2, `MaxReports` = 3, `MaxRecords` = 2 beside those of
  the requests, of which `TailRecords` = 2 fit, so the latest usage may lie
  before the tail, or at its cut. The hooks' reads overlap.
* Discovery: `MaxPids` = 4 is a shell, a wrapper, its binary and one more;
  `MaxExits` = 1 orphans one of them.
* Setup: `MaxRuns` = 3 (setup, setup or uninstall, setup), `MaxEdits` = 2,
  `MaxFails` = 2; skills: `MaxRuns` = 4.
* tmux: `MaxRuns` = 2 for workspaces, so that a repair meets what a failed run
  left, and `MaxUpsets` = 3 windows and failures together: three windows, whose two
  new ones have a script each at once; two windows and a failure; one and two
  failures. (Three windows with one failure, and three runs, pass as well, in more
  than the time a run should take.) `MaxFails` = 1 and `MaxGone` = 1 for
  `spawn`, which ends at the first failure; `MaxOptions` = 3, `MaxFails` = 2,
  `MaxChanges` = 3 for pane commands, so that a dialog opens, is answered, and
  another opens while a command is under way; options asked for go from 0 to 4.

Agent ids are symmetric in the two registry runs that have two of them: no
property or definition tells them apart and no `CHOOSE` ranges over them. The
runs with liveness properties use no symmetry. Deadlock checking is on except
for `subscriber_stream`, `daemon_instance`, `background`, `parts` and the
notifier's runs, where bounded changes, or a command that has ended, let
everything come to rest.

`FeedAgrees` is checked only where the registry has room for all rows: when it
is full, an event of an unknown child leaves a row unpublished until its next
message. It and `ChildRecordsAgree` exempt ids that several processes report:
their views share one key at every subscriber, which is a limit of the code's
design that its comments name (`remove.rs`, `unindex`).

### Fairness

* Registry: weak fairness of `CleanupStale` only. A task sends the command
  every two seconds for as long as the daemon runs, and the actor takes
  commands in turn. Nothing is assumed of agents.
* Stream: the actor's publications, the handler's and forwarder's steps, the
  client's reads and reconnections; these are tasks that the runtime polls,
  and the client retries for ever. Failures and commands are not fair.
* Notifier: its loop and its timers. `select!` picks among ready branches at
  random, so each is taken sooner or later.
* Git: the refresh tick, the actor's reading of results, and threads that do
  not hang. Panics and hangs are not fair.
* Daemon instance: the steps of atmd processes, of an `atmd stop` that has read
  its pid, and of the TUI's connection task, which retries for ever. Not fair:
  users, crashes, failures and strangers; a stranger may live for ever, which
  is why `TuiRecovers` excepts a pid file that names one.
* Server: handlers, the accept loop's pause, the shutdown's steps, the restart
  (the TUI starts a daemon) and the TUI's client. Accepting a connection is
  strongly fair: it fails now and then, not for ever. Other clients, write
  failures and shutdowns are not fair.
* pi extension: Node's callbacks for a socket and the daemon's reads. pi need
  not fire an event, and nobody has to start a daemon.
* Resize: the scripts' steps, which tmux and the operating system run. Resizes
  are not fair.

## 4. Findings

1. `registry_swept`. `set_pid` stores no pid when it cannot read
   `/proc/<pid>/stat`, and without a pid a row counts as alive. A message
   handled after its process has exited makes a row that no cleanup removes,
   though `CleanupStale` is documented with "Sessions whose agent process has
   died are removed" (`commands.rs:135`).
2. `clear_status_first`. The handler documents that a `SessionStart` with a new
   id "ends the session its process's row held" and that a `SessionEnd` for the
   old id afterwards "keeps the new row" (`lifecycle.rs:22-25`), and a test that
   every order of the frames of a `/clear` leaves one row under the new id
   (`tests.rs:3219-3220`; its frames have no status line of the new session, which
   a resume sends at once, `tests.rs:3350-3353`). If that status line comes first
   it renames the row and records no end (`status_line.rs:84-89`), the start finds
   its own id there, and the late `SessionEnd` removes the new session's row. The
   same follows, without a status line, if the process's row was still pending:
   then it is the start that only renames it (`lifecycle.rs:90-91`; TLC finds this
   with `Unseen = TRUE` and `NewFrames = {}`).
3. `notify_forgets`. After lost events the notifier forgets all stretches, "at
   worst one extra ping" (`notify.rs:287-289`). With `delay_secs` the running
   delay of a dialog that is still open then finds no stretch: that dialog is
   not announced at all unless another update of its session arrives.

Noted while modelling, without a run of their own; the models follow the code:

* `pi-atm.ts:234-236` says that events are dropped if the connection fails;
  the outbox keeps them for the next one.
* `App::rebuild_tree` takes an empty set of open folds for a first tree, so an
  update reopens every fold after the user has closed them all.
* The presets that show a panel beside agents give it part of the height only:
  the first child's pane is split before its siblings' (`apply_slot`).
* The script of the after-new-window hook goes on after a failed split, and
  then titles and tags the pane that is active in the current window.
* The same script names no window (`workspace.rs:275-284`), and a `run-shell` job
  has no `$TMUX_PANE` (`spawn.rs:332-334`). Two windows opened before the first
  script's split, a switch to another window, or `new-window -d`, give one window
  two sidebars and its neighbour none, without any failure, though
  `tests/e2e_with_tmux.rs:1532` expects "exactly one sidebar via after-new-window
  hook" and `server/mod.rs:69` says that a workspace runs one "per window".
  `OneSidebar` exempts the window that was split so, and nothing else.
* `atm reply --option N` takes any number (`main.rs:168-170`), and
  `find_selected_option` the first line "> N." of the whole pane, or 1
  (`cli.rs:360`, `cli.rs:400-415`). Beyond the dialog's options, or with such a
  line of an earlier prompt, or a dialog that marks its cursor otherwise, another
  option may be picked, and "Selected option N" is printed all the same
  (`cli.rs:394`). `PicksOption` is about the other cases.

## 5. Proofs

Eight modules prove what their component's runs check for every value of the
constants. Each has the same layout: an inductive invariant as a conjunction of
named parts, one lemma per helper or handler that it keeps the invariant, the
lemmas lifted to actions, one case per action in the step lemma, and the
temporal theorem by PTL from the three facts. The constants are
assumed to be what the component's module names in its `...Assumption`; two
theorem groups have further hypotheses, given below.

### SessionRegistryProofs

| Theorem | States |
|---|---|
| `Invariance` | `Spec => []Inv` |
| `TypeCorrect` | `Spec => []TypeOK` |
| `IndexAlwaysSound` | `Spec => []IndexSound` |
| `CapacityAlwaysRespected` | `Spec => []CapacityRespected` |

The assumptions are those named in `SessionRegistry`: finite sets of pids,
disjoint name spaces of ids, injective pending ids, at least as many synthetic
pids as the registry has room.

The inductive invariant is `Inv == Good(reg) /\ EnvOK`: the state is typed,
the index sound, the capacity respected, and the environment typed. None of
the three is inductive alone. `IndexSound` needs the types, and the types need
it: that real pids hold agents' own sessions and synthetic pids children is
kept only because a rename finds no child under a reported id. The capacity is
what guarantees that a synthetic pid is free when a child is made
(`SyntheticPidLeft`, by cardinality).

The argument follows the code. Each helper on states has a lemma that it maps
good states to good states (`PublishGood`, `ReconcileGood`, `InsertGood`,
`RemoveRowsGood`, `EnsureChildGood`, `AdoptGood`, ...); `ShapeGood` covers those
that change neither ids nor index. The handlers compose them, `BecomeInv`
lifts a handler to an action, and `NextInv` has one case per action.

The second half of the module proves what ties the registry's records to one
another, to the events it published and to the ends it recorded:

| Theorem | States |
|---|---|
| `RecordsInvariant` | `Spec => []KeptInv` |
| `NoGhostsEver` | `Spec => []NoGhosts` |
| `ExclusiveIdsAlwaysFound` | `Spec => []ExclusiveIdsIndexed` |
| `ChildrenAlwaysOwned` | `Spec => []ChildrenOwned` |
| `AliasesAlwaysLive` | an alias leads to a row, shared ids or not |
| `ViewsAlwaysCurrent` | what was last published of an unshared session is its present view |
| `ChildRecordsAlwaysAgree` | `AllExclusive => (Spec => []ChildRecordsAgree)` |
| `RealIdsAlwaysStay` | `Spec => RealIdsStay` |
| `EndsAlwaysRecorded` | `Spec => EndsRecorded` |

`KeptInv == Kept(reg) /\ EnvOK`. `Kept` has three layers, because they hold at
different moments of a handler:

* `Core` holds even in the middle of a rename: the state is `Good`; an agent's
  row has a pending id or one its pid reported (`Own`); a session with an
  exclusive id is found (`Found`); a child is in some list (`Owned`); what
  subscribers show is in the registry (`NoGhost`) and is current (`Current`).
* `Aliased`, that aliases lead to rows, is broken between the two halves of a
  rename and mended by `retarget`.
* `Mutual`, that parents, lists, links and aliases describe one tree, is only
  claimed when no real id is reported under two pids (`AllExclusive`). The
  hypothesis is needed: a process that reports a shared id and later an
  exclusive one can leave a link on one side only, and TLC shows it. The run
  `registry_children` has exclusive ids, `registry_shared` has shared ones and
  does not check the property.

For each handler there is one lemma: it maps kept states to kept states, and
says what it may do to the rows of real pids (keep, rename forwards, or end with
a record). The last part is what `RealIdsStay` and `EndsRecorded` need, so the
two action properties come out of the same lemmas as the invariant.

The last part of the module is about `ClearDelivery`, and only it uses that
module's constants and `ClearAssumption`.

| Theorem | States |
|---|---|
| `ClearInvariant` | `ClearSpec => []Settled` |
| `MovesAlwaysLand` | `ClearSpec => []OrderlyMoveLands` |
| `OldAlwaysStaysOut` | `ClearSpec => OldStaysOut` |

They have no hypothesis on the frames or on what the registry knows: pending rows
and the new session's status line are among the behaviours. Both properties speak of
a move only while it is `orderly`, and both exceptions are needed: they are the two
ways of finding 2.

`Settled` is the inductive invariant. In every state the agent's row is the only
one (`Alone`); while the last move is orderly, `Midway(old)` holds as long as frames
of it are out: until either hook is handled the row is that of the session left; a
handled hook has recorded that session's end; once the start is handled the row is
the new session's. When no frame is out, that is `MoveLeavesNewRow`. Of a disorderly
move only `Alone` is kept, which is enough for the next orderly one to start from.

The argument is about states where the agent's row is the only one (`Alone`).
Each of the registry's handlers has a `...Result` lemma that says exactly what
it makes of such a state, and each kind of report a `...Step` lemma.

### AttentionNotifierProofs

`NotifierInvariant`, `NotifierAnnouncesOnce` (`Spec => []AnnouncedOnce`) and
`NotifierRunsWhileOpen` (`Spec => RunsWhileOpen`). The invariant adds to the
types that counters agree (`Counted`); that the events of one session waiting
to be read tell of its dialogs one by one, from the one the notifier last heard
of to the one that is open (`Order`); that a notification sleeping or due is of a
stretch of attention that has begun, no two of one stretch, and that its dialog
has a run left (`NotificationsSound`); and that so has every dialog the notifier
will still hear of (`RunsLeft`). `Order` is the heart: without
it a closing read late could be taken for the closing of the next dialog.

### SubscriberStreamProofs

`StreamInvariant` and `StreamLosesNothing` (`Spec => []StreamSound`). The
property is about the last word on a session in the client's pipeline. The
invariant says it at each stage: what the actor has published, or is about to,
ends with what it holds (`PublishedTrue`); of a session that no event on its way
tells of, the snapshot in hand is true (`SnapshotTrue`), and so is the last
message on the socket or else the client's list (`WrittenTrue`). The last two
are claimed only while the receiver has not lagged; `NoReceiver` says that only
a subscription has one.

### DaemonInstanceProofs

`Spec => []Inv`, `TypeCorrect`, `PathAlwaysOurs` and `PidFileAlwaysOurs`, for
any sets of pids and directories and any bounds. `Inv` adds to the types and
the two properties that every atmd between taking the lock and its exit holds
it (`LockHeld`). Neither property is inductive without that: a step of another
process touches the path or the pid file only while that process holds the
lock, so no other process is then in the states that the properties speak of.
`GoneInv` covers every way a process ends; the actions follow in four lemmas,
one case each.

### ServerProofs

It proves the refinement that `background` checks:

| Theorem | States |
|---|---|
| `Invariance` | `Spec => []Inv` |
| `SubscriptionsImplementPlaces` | `Spec => PlacesKept`: `Server` implements `Places`, for any clients, ids, cap and number of restarts |
| `CapRespected` | if `MaxClients` is a natural number, never more entries than it, and finitely many |

`Inv` adds to the types what holds of each connection (`ConnSound`): while its
list is written and while it has a forwarder, it holds a place or is cancelled,
and a server on its way out has cancelled every open connection. Without it a
step that drops an entry could leave its connection served, and the step that
starts a forwarder could serve a connection without an entry; both would be
steps that `Places` does not allow. Every action but the shutdown's changes one
connection: `SetAllInv` and `SetAllRefines` are about any such change, and each
action's lemma only says what it changes. `CapRespected` then follows from what
`Places` allows, by induction over its steps.

### BackgroundProofs

`MCBackground` composes four independent components so that one run can check
them; its constants are assumed to meet `BackgroundAssumption`. Each component
has its own invariant, and a step of the composition is a step of one of them
or leaves it alone.

| Theorem | States | Along |
|---|---|---|
| `BackgroundInvariant` | the four invariants together | |
| `LookupSlotsExact` | `[]SlotsExact` | `GitInv`: a slot is held exactly while its lookup runs, hangs or waits to be read; a result is of its own directory |
| `LookupsNeverStray` | `NoStrayContext` | the same |
| `EventsReadInOrder` | `[]ReadInOrder` | `PiInv`: the extension's links and the sockets' states agree and only the active socket has a buffer (`Linked`); outbox and buffers stay within their bounds (`Bounded`); what was read, the buffer and the outbox are in the order of firing |
| `SidebarSettles` | `[]SettlesAtWidth` | `ResizeInv` with `Settling`: after a trigger in a quiet window just one thing is going on until all is quiet again, a due trigger or a running script, and it ends at the width |
| `PlacesAlwaysKept` | `PlacesKept` | the theorems of `ServerProofs`, instantiated |

### TerminalProofs and PartsProofs

`MCParts` composes independent sequential components, as `MCBackground` does;
its constants are assumed to meet `PartsAssumption`. Each of its twelve parts
has an inductive invariant. `TerminalInv` is the conjunction of those about
tmux, the screen and the beads (`part = "..." => ...`) and `PartsInv` that of
the others; `TerminalStep` and `PartsStep` say that a step of the composition
keeps them. No bound of the runs is a hypothesis: the theorems hold for any
number of runs, failures, reports, processes, windows, options, sessions, keys
and updates. Three hypotheses are about the world. The sessions are finitely
many, and a session starts after its parent (`PartsAssumption`): agents that
had started each other in a circle would have no node in the tree. Projects and
worktrees are naturals, so that siblings have an order, as paths have one in the
code. And `MaxCount` is at least 3 (it is 9999 in `keybinding.rs`), so that one
digit never saturates a count.

| Theorem | States | Along |
|---|---|---|
| `TerminalHold` | `TerminalInv` in every state | |
| `PartsHold` | `PartsInv` in every state | |
| `TmuxLeavesOrder` | `[]TmuxLeftInOrder` | `WindowsInv`, `LayoutInv`, `MakeInv`, `SendInv` |
| `SendAttachKeepWord` | `CommandsKeepWord` | `SendInv`, `WindowsInv` |
| `FiguresHold` | `[]FiguresTrue` | `FiguresInv` |
| `StatusHolds` | `[]StatusTrue` | `StatusInv` |
| `SettingsHold` | `[]SettingsSound` | `FilesInv` |
| `RunsKeepWhatIsThere` | `RunsLoseNothing` | `FilesInv`, `SkillInv` |
| `ScansHold` | `[]OneRowPerAgent` | `ScanInv` |
| `ScreenHolds` | `[]ScreenTrue` | `ScreenInv`, `BeadsInv` |
| `FilterHolds` | `FilterKeepsPlace` | `ScreenInv`, and that `Precedes` is an order |
| `KeysHold` | `[]WordsMeanWhatTheySay` | `KeyInv` |

* `SendInv`: past its refusals `send` has read a row without attention
  (`SendWasFree`); a `reply` on its way that read the dialog's cursor, and that
  nobody disturbed since, is as many arrow keys from its option as `moves` says if
  the dialog has that option (`MovesLeft`), so its Enter comes there;
  and a paste buffer is there only while its command has steps left that delete
  it, unless tmux lost a call of that command (`BufferHeld`).
* `WindowsInv`: the steps a command has yet to take are in an order
  (`WellOrdered`: a split is followed by the title, the tag and the keys of the
  same window); each script has a window of its own, and knows the pane it split off,
  which is in that window unless the other one is marked (`ScriptReady`); the pane they are about
  is there (`PaneMade`); a tagged pane is a running sidebar, or one whose keys
  come next (`TaggedIsBar`); and each window listed is served or has its step
  to come (`ListedServed`). Windows only grow: each lemma about a step says what
  it leaves (`Grow`), so that what is said of one window survives the steps on
  another. That a window which no failure cut short has one sidebar at most
  (`OneBar`) needs three more: each one open is tagged, or a command or a
  script has it in hand (`BarKnown`), so that who looks for tags misses none;
  and where the command (`SplitAlone`) or a window's own script (`ScriptFirst`) is
  about to split there is none.
* `LayoutInv`: the roles recorded so far, followed by the leaves of all slots on
  the stack, are the leaves of the tree (`LeavesKept`); the panes are those
  recorded, and that of the slot at the head of the stack when it is to be
  applied (`PanesTaken`); behind the head there are only splits of panes that
  exist (`SplitsLeft`). It rests on `FlatConcat`: flattening one sequence after
  the other is flattening both.
* `MakeInv`: from the split on there is one new pane, whose id has been printed
  (`PanesCounted`), and what is typed or runs there has a model and a prompt as
  asked (`CommandAsked`), for every way the harness tables resolve
  (`SpawnDefined`).
* `FiguresInv`: every record in the file, and every report on its way, holds a
  context that the agent had (`FileSeen`, `ReportsTrue`); and if the agent has
  told all there is, the last report that tells anything tells the present
  figures, or the row shows them and no report on its way tells (`LastTold`).
* `StatusInv`: once an agent has told its phase, the last hook on its way that
  says anything says so, or all are silent and the row shows it already, unless
  the hook that said it was lost (`WireTells`). Which hooks say what is proved from
  the translation tables (`ClaudeSays`, `CodexSays`, `PiSays`), and that a
  child's hooks are silent from the tables too.
* `FilesInv`: what the user's files hold is sound after every file operation
  (`FilesSound`), and the text a run has read and changed in memory may be
  written over the file (`StepReady`), by the order of the steps
  (`StepsFollow`). A run writes only the file it has read, so the edits between
  the runs do not matter; the proof shows that no step is reached with the text
  of another file.
* `SkillInv`: a copy that was whole when the run began is in one of the three
  folders, and in which of them at which step (`CopyKept`).
* `ScanInv`: the process table is a forest in which parents are older and only
  those start each other that do (`ProcsSound`); while nothing starts or exits
  beside a scan, its matches are true of the processes and each agent it has
  read has one. `KindMatches` and `KindShown` evaluate the table of harnesses
  for each kind of process; `SessionsAreLeft` is `dedupe_wrapper_chains`: of
  such matches it leaves the sessions.
* `ScreenInv`: between two frames the `App` is sound (`AppSound`) and the capture
  task's target is the pane of the agent under the cursor. Sound means that the
  rows are the flattened tree, the cursor is on one of them, the tree is that of
  what is shown, the preview is of the target, and the folds of before a filter
  are kept as long as there is one. Most of the work is about trees.
  A tree's paths are the beginnings of the groups and the line of agents down to
  each agent (`TreeIs`); two lines that end in one agent are one, since each of
  their agents determines the one before it (`LineIsOne`), and each agent ends
  one (`LineEnds`, by going up to older and older parents), so each has one node
  (`AgentOnce`). Lines are no longer than there are agents (`LineFits`), so a tree is
  finite and has as many rows as open nodes (`RowsCount`); every node
  above a node is a node (`TreeClosed`), so opening a fold only adds rows
  (`RowsGrow`) and the cursor stays on one. On top of these there is a lemma per
  operation of `App`; `Rebuilt` is that of `rebuild_tree`, which makes any `App`
  sound, whatever its rows and its cursor were.
  `FilterKeepsPlace` is about single rows, so it needs the order. `Precedes`
  looks for the place where two paths part (`PrecedesIs`); there the two nodes
  are of one kind with different numbers (`Siblings`), of which one is sooner
  (`SoonerOrders`). So of two nodes of a tree one precedes the other and not
  the reverse (`PrecedesTotal`), and what precedes what precedes a node precedes
  it (`PrecedesOn`). Then no two nodes have as many before them, and the rows are
  the open nodes, each on one row (`RowsAre`, `RowsOpen`). A match is shown
  after `rebuild_tree` because its path is open: opened then if the match or
  the path is new, and otherwise open before (`RebuildShows`). The end of a filter
  opens the path of the node under the cursor, which so has a row to put the cursor
  on (`EndPuts`); only Backspace and Esc end one (`EndKeeps`).
* `BeadsInv`: the one thread that reads a directory is the one that `pending`
  names (`Awaited`); nothing read is of a later version than the file has
  (`ReadFromDisk`); and the versions in the channel, then those a thread has
  read, are no older than what the `App` keeps of the directory, nor than what
  comes before them (`InOrder`, `Newer`). A read starts only when its directory
  waits for none, so it comes after all of these.
* `KeyInv`: between keys the handler's state is what some digits, which spell the
  count, and the key that begins a chord have made of it (`Typed`), with no
  help text or prompt over an unfinished word; and the last action is the one
  that the digits and the rest of the last word make (`Told`, `Makes`). The handler
  cuts its count off at `MAX_COUNT` after every digit and the grammar at the end
  of the word: `CountGrows` says that both come to the same. `WordSplits` says that a word
  splits in one way only into its digits and its rest, so that the grammar,
  which takes the longest run of digits, gives the same action; and
  `MakesHinted` and `HintsSay` go through the keys and the rows of the help.

`RemoveHook`, `Ancestors`, `Up`, `Number`, the lines of a tree, the agents above
a filter's matches, and the library's `FlattenSeq` are recursive functions. That
a function with such an equation exists is proved each time (`KeptIs`,
`AncestorsAre`, `UpIs`, `NumberSpelt`, `NatRec`, `FlatIs`), and what holds of all its values too, by an induction over a set of natural
numbers (`SetInduction`), since the library's induction theorem takes an operator.
### Only model-checked

* `FeedAgrees` of the registry. Half of it, that a shown session is shown as it
  is, is `ViewsAlwaysCurrent`. The other half, that every row has been shown,
  does not hold for every value of the constants: it fails when the registry is
  full, or when the first event of a new row is that of a child whose id is
  already indexed. The run's bounds stay clear of both.
* `CascadeAgrees`, whose reference definition is recursive.
* Liveness (`DeadRowsLeave`, `Converges`, `DialogsRing`, `TuiRecovers`,
  `ContextsSettle`, `TuiGetsIn`, `NothingHangs`), which the prover cannot do.

## 6. Plan

Done: the modules and proofs above. What would add most next:

1. An abstract specification of a session's life (absent, pending, real,
   ended) per pid, implemented by `SessionRegistry`, and one of an eventually
   consistent list, implemented by `SubscriberStream`.
2. `DaemonInstance` with two sockets that share a state directory.
3. The TUI's keys that kill and interrupt: the agent under the cursor when the
   key is handled may not be the one the user saw.

## 7. Not modelled

* Rendering, parsing the task file of the beads preview, `list`, `status`, `peek`,
  argument parsing, log rotation, the monitor's figures: they change no state
  that anything else reads.
* The TUI's keys that kill, interrupt, spawn and refresh, and the scrolling of
  its preview; the tmux calls behind the first three are in `PaneCommands` and
  `Spawn`.
* Serialisation, the limits on message sizes and the lengths of timeouts.
* A row's activity, pane and texts: data that no decision reads.
* The subscription filter, and `ListSessions` on a connection with a running
  forwarder: no client in the repository uses either.
* A second notification after a row in need of input is renamed: each row
  counts on its own, by design (`notify.rs:165-166`).
* In `setup`, the question about the default harness and the permissions that
  some harnesses ask for.
* Vendored code, documents and tests.
