---------------------------- MODULE PaneCommands ----------------------------
(***************************************************************************)
(* `atm send`, `reply`, `interrupt` and `kill` (bin/atm/cli.rs) on a pane  *)
(* that goes on changing: the agent's dialog opens and closes, the user    *)
(* types and enters copy mode, and the daemon's row follows late.          *)
(*                                                                         *)
(* A command reads the session list once, the pane's state once, then sends*)
(* keys one tmux call at a time.  Each call may fail, or time out with or  *)
(* without effect (RealTmuxClient::run_with_stdin); a paste goes through a *)
(* tmux buffer of its own.                                                 *)
(***************************************************************************)
EXTENDS Naturals, Sequences

CONSTANTS
  MaxOptions,   \* bound on the options of a dialog
  MaxFails,     \* bound on failing tmux calls
  MaxChanges    \* bound on what the agent and the user change

VARIABLES
  world,  \* the pane, its dialog, the row that shows it, the buffer
  job     \* the command

vars == <<world, job>>

\* `dialog` counts dialogs; the last one has `options` of them, and its `cursor` is 0
\* once it is closed.  It is `marked` when it shows its cursor as a line "> N."; `above`
\* is the number in such a line further up the pane, a prompt "2. ..." that the user
\* sent, or <<>>.  `row` is the number of the dialog the row shows attention for, 0 for
\* none.  `draft` is what the input line holds, `alive` that the pane exists.
Init ==
  /\ world = [dialog |-> 0, options |-> 1, cursor |-> 0, marked |-> TRUE, above |-> <<>>, row |-> 0, copy |-> FALSE, draft |-> "empty",
              alive |-> TRUE, bracket |-> TRUE, buffer |-> FALSE, picked |-> 0, sent |-> "none"]
  /\ job = [at |-> "none", what |-> "none", child |-> FALSE, option |-> 0, lines |-> "one",
            row |-> 0, copy |-> FALSE, bracket |-> TRUE, current |-> 0, moves |-> 0, fails |-> 0, changes |-> 0,
            calm |-> TRUE, lost |-> FALSE]

--------------------------------------------------------------------------
(* The agent, its user and the daemon *)

Change(w) ==
  /\ job.changes < MaxChanges /\ world.alive
  /\ world' = w
  /\ job' = [job EXCEPT !.changes = @ + 1, !.calm = FALSE]

DialogOpens ==
  /\ world.cursor = 0
  /\ \E options \in 1 .. MaxOptions, marked \in BOOLEAN :
       Change([world EXCEPT !.dialog = @ + 1, !.options = options, !.cursor = 1, !.marked = marked])
\* Answered, or denied with Esc, which reports nothing: the row may stay.
DialogCloses ==
  world.cursor > 0 /\ \E row \in {0, world.row} :
    Change([world EXCEPT !.cursor = 0, !.row = row])
RowFollows ==
  /\ world.cursor > 0 /\ world.row # world.dialog
  /\ world' = [world EXCEPT !.row = world.dialog]
  /\ UNCHANGED job
UserMoves ==
  world.cursor > 0 /\ \E n \in 1 .. world.options : Change([world EXCEPT !.cursor = n])
\* Any number, as the options asked for below.
PaneScrolls ==
  \E above \in {<<>>} \cup {<<n>> : n \in 0 .. MaxOptions + 1} :
    Change([world EXCEPT !.above = above])
UserTypes == world.cursor = 0 /\ Change([world EXCEPT !.draft = "mine"])
CopyMode == Change([world EXCEPT !.copy = ~ @])
ProgramChanges == Change([world EXCEPT !.bracket = ~ @])

--------------------------------------------------------------------------
(* tmux: what a key does to the pane *)

Down(w) == IF w.cursor < w.options THEN w.cursor + 1 ELSE w.cursor
Up(w) == IF w.cursor > 1 THEN w.cursor - 1 ELSE w.cursor

\* Keys in copy mode go to tmux; the keys used here move its cursor.
Key(w, key) ==
  IF w.copy \/ ~ w.alive THEN w
  ELSE CASE key = "Enter" /\ w.cursor > 0 -> [w EXCEPT !.picked = w.cursor, !.cursor = 0]
         [] key = "Enter" /\ w.cursor = 0 -> [w EXCEPT !.sent = w.draft, !.draft = "empty"]
         [] key = "Escape" -> [w EXCEPT !.cursor = 0]
         [] key = "C-c" -> [w EXCEPT !.cursor = 0, !.draft = "empty"]
         [] key = "Down" /\ w.cursor > 0 -> [w EXCEPT !.cursor = Down(w)]
         [] key = "Up" /\ w.cursor > 0 -> [w EXCEPT !.cursor = Up(w)]
         [] OTHER -> w

Ends == [job EXCEPT !.at = "end"]
\* A tmux call: it works, or it fails, or it times out after all.
Call(effect, then) ==
  \/ world.alive /\ world' = effect /\ job' = then
  \/ ~ world.alive /\ UNCHANGED world /\ job' = Ends
  \/ /\ job.fails < MaxFails
     /\ world' \in {world, effect}
     /\ job' = [Ends EXCEPT !.fails = @ + 1, !.what = "failed"]

--------------------------------------------------------------------------
(* The commands *)

\* `send` looks at the pane's mode first, `reply` at what it shows.
FirstStep(what) == CASE what = "send" -> "state" [] what = "reply" -> "capture" [] OTHER -> "key"

\* fetch_sessions and resolve_pane_id: the rows are read here, once.  `child`: the
\* target names an in-process child, whose row carries its lead's pane.  The option is any
\* number: nothing compares it with the dialog's own.
Fetch ==
  /\ job.at = "none"
  /\ \E what \in {"send", "reply", "accept", "reject", "interrupt", "kill"},
        child \in BOOLEAN, option \in 0 .. MaxOptions + 1, lines \in {"one", "many"} :
       /\ what # "reply" => option = 1
       /\ what # "send" => lines = "one" /\ ~ child
       /\ job' = [job EXCEPT
            !.what = what, !.child = child, !.option = option, !.lines = lines, !.row = world.row,
            !.at = FirstStep(what)]
  /\ UNCHANGED world

\* The pane's mode and its paste flag; tmux before 3.7 leaves the flag unknown.
PaneState ==
  /\ job.at = "state"
  /\ \E known \in BOOLEAN :
       Call(world, [job EXCEPT !.at = "refuse", !.copy = world.copy,
                               !.bracket = world.bracket \/ ~ known])

\* Faulty: the row of the dialog is not looked at.
RefusedBlind == job.child \/ job.copy \/ (~ job.bracket /\ job.lines = "many")
\* send_refusal
Refused ==
  \/ job.child
  \/ job.row > 0
  \/ job.copy
  \/ ~ job.bracket /\ job.lines = "many"

Refuse ==
  /\ job.at = "refuse" /\ UNCHANGED world
  /\ job' = IF Refused THEN Ends ELSE [job EXCEPT !.at = "load"]

\* paste_text: load-buffer, then paste-buffer -d; on failure delete-buffer.
LoadBuffer ==
  /\ job.at = "load"
  /\ \/ /\ world' = [world EXCEPT !.buffer = TRUE]
        /\ job' = [job EXCEPT !.at = "paste"]
     \/ /\ job.fails < MaxFails
        /\ world' \in {world, [world EXCEPT !.buffer = TRUE]}
        /\ job' = [job EXCEPT !.at = "delete", !.fails = @ + 1, !.what = "failed"]

\* In a dialog or in copy mode the paste is not input: it leaves the draft alone.
Pasted ==
  [world EXCEPT !.buffer = FALSE,
                !.draft = IF world.cursor = 0 /\ ~ world.copy THEN "text" ELSE @]
PasteBuffer ==
  /\ job.at = "paste"
  /\ \/ world.alive /\ world' = Pasted /\ job' = [job EXCEPT !.at = "key"]
     \/ ~ world.alive /\ UNCHANGED world /\ job' = [job EXCEPT !.at = "delete", !.what = "failed"]
     \/ /\ job.fails < MaxFails
        /\ world' \in {world, Pasted}
        /\ job' = [job EXCEPT !.at = "delete", !.fails = @ + 1, !.what = "failed"]

\* Its own failure is not reported.
DeleteBuffer ==
  /\ job.at = "delete"
  /\ \/ world' = [world EXCEPT !.buffer = FALSE] /\ job' = Ends
     \/ /\ job.fails < MaxFails /\ UNCHANGED world
        /\ job' = [Ends EXCEPT !.fails = @ + 1, !.lost = TRUE]

\* The pane's first line "> N.", whatever it is a line of; none counts as option one.
FindSelectedOption ==
  IF world.above # <<>> THEN Head(world.above)
  ELSE IF world.cursor > 0 /\ world.marked THEN world.cursor ELSE 1

\* capture-pane, and the way from the option it shows.  `calm`: what the capture shows
\* of a cursor is the open dialog's own.
Capture ==
  /\ job.at = "capture"
  /\ LET current == FindSelectedOption
     IN  Call(world, [job EXCEPT
           !.at = IF job.option = current THEN "key" ELSE "move",
           !.current = world.dialog, !.calm = world.cursor > 0 /\ world.marked /\ world.above = <<>>,
           !.moves = IF job.option > current THEN job.option - current ELSE current - job.option,
           !.what = IF job.option > current THEN "Down" ELSE "Up"])

Move ==
  /\ job.at = "move"
  /\ Call(Key(world, job.what),
          [job EXCEPT !.moves = @ - 1, !.at = IF job.moves = 1 THEN "key" ELSE "move"])

\* The last key: Enter, Escape or C-c; kill-pane takes the pane away.
Pressed == IF job.what = "reject" THEN Key(world, "Escape") ELSE Key(world, "Enter")
LastKey ==
  /\ job.at = "key"
  /\ Call(CASE job.what = "interrupt" -> Key(world, "C-c")
            [] job.what = "kill" -> [world EXCEPT !.alive = FALSE]
            [] OTHER -> Pressed,
          Ends)

Next ==
  \/ DialogOpens \/ DialogCloses \/ RowFollows \/ UserMoves \/ PaneScrolls
  \/ UserTypes \/ CopyMode \/ ProgramChanges
  \/ Fetch \/ PaneState \/ Refuse \/ LoadBuffer \/ PasteBuffer \/ DeleteBuffer
  \/ Capture \/ Move \/ LastKey
Spec == Init /\ [][Next]_vars

--------------------------------------------------------------------------
(* Properties *)

\* `atm send` answers a dialog only when that dialog was not in the list it read: it
\* opened, or reached the daemon, after that.
AnswersNoShownDialog ==
  job.what = "send" /\ world'.picked # world.picked => world.dialog # job.row
SendAnswersNoShownDialog == [][AnswersNoShownDialog]_vars

\* A reply picks the option asked for, if the dialog has it, the capture showed the
\* dialog's cursor and no other line like it, and neither the user nor the agent touched
\* the pane since: a key that failed on the way means no Enter.  (Else it may pick
\* another and report "Selected option N" all the same.)
PicksOption ==
  /\ job.what \in {"Down", "Up"} /\ job.calm /\ job.option \in 1 .. world.options
  /\ world'.picked # world.picked
  => world.cursor = job.option
ReplyPicksOption == [][PicksOption]_vars

\* No command leaves its paste buffer behind, unless tmux failed to delete it.
BufferGone == job.at = "end" => ~ world.buffer \/ job.lost
=============================================================================
