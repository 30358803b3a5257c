------------------------------- MODULE Setup -------------------------------
(***************************************************************************)
(* `atm setup` and `atm uninstall` (crates/atm/src/setup): scripts, hook   *)
(* entries in each harness's settings file, Claude Code's statusLine and   *)
(* its backup.  SkillInstall models the skill folders.                     *)
(*                                                                         *)
(* A run is a list of steps, one per file operation.  A read fails on text *)
(* that does not parse; a write fails before or after truncating the file  *)
(* and the run ends there.  Between runs the user edits the same files.    *)
(*                                                                         *)
(* A settings file is [kind, hooks, line].  `hooks` is the sequence of     *)
(* entries of one hook event (of `packages`, for pi), an entry being the   *)
(* set of its commands: every event goes through the same loop.            *)
(***************************************************************************)
EXTENDS Naturals, Sequences

CONSTANTS
  MaxRuns,   \* bound on runs of setup and uninstall
  MaxEdits,  \* bound on the user's edits
  MaxFails   \* bound on failing file operations

VARIABLES
  world,  \* [has, file, script, backup]: the user's files
  job     \* [run, todo, mem, restored]: the running command, and the bounds

vars == <<world, job>>

Harnesses == {"claude", "pi", "codex"}
\* "atm" is ATM's own command and status line; the others are the user's.
Lines == {"none", "atm", "mine", "mine2"}

Object(hooks, line) == [kind |-> "object", hooks |-> hooks, line |-> line]
Absent == [kind |-> "absent", hooks |-> <<>>, line |-> "none"]
Torn   == [kind |-> "torn", hooks |-> <<>>, line |-> "none"]    \* does not parse
Other  == [kind |-> "other", hooks |-> <<>>, line |-> "none"]   \* JSON, no object

\* `keep`: the user's latest own status line, for the properties.
Init ==
  /\ \E has \in SUBSET Harnesses : \E file \in {Absent, Other, Object(<<{"user"}>>, "mine")} :
       world = [has |-> has, file |-> [h \in Harnesses |-> IF h = "claude" THEN file ELSE Absent],
                script |-> [h \in Harnesses |-> FALSE], backup |-> "none", keep |-> file.line]
  /\ job = [run |-> "idle", todo |-> <<>>, mem |-> Absent, runs |-> 0, edits |-> 0, fails |-> 0]

--------------------------------------------------------------------------
(* Hook entries (hooks.rs) *)

\* An entry one of whose commands runs the script.
HasMarker(entry) == "atm" \in entry
\* add_hook_entries: one more entry unless there is one.
AddHook(hooks) ==
  IF \E i \in 1 .. Len(hooks) : HasMarker(hooks[i]) THEN hooks ELSE Append(hooks, {"atm"})

\* Faulty: an entry that runs the script is dropped with all its commands.
RemoveEntries(hooks) == SelectSeq(hooks, LAMBDA entry : ~ HasMarker(entry))
\* remove_hook_command_marker: an entry goes only when no command is left.
RemoveHook(hooks) ==
  LET kept[n \in 0 .. Len(hooks)] ==
        IF n = 0 THEN <<>>
        ELSE IF hooks[n] \subseteq {"atm"} THEN kept[n - 1]
        ELSE Append(kept[n - 1], hooks[n] \ {"atm"})
  IN  kept[Len(hooks)]

--------------------------------------------------------------------------
(* Runs as lists of steps *)

Step(name, h) == [do |-> name, of |-> h]
IfHas(h, steps) == IF h \in world.has THEN steps ELSE <<>>

SetupSteps ==
  IfHas("claude", <<Step("install-script", "claude"), Step("read", "claude"),
                    Step("add-line", "claude"), Step("add-hooks", "claude")>>)
  \o IfHas("pi", <<Step("install-script", "pi"), Step("read", "pi"), Step("add-hooks", "pi")>>)
  \o IfHas("codex", <<Step("install-script", "codex"), Step("read", "codex"),
                      Step("add-hooks", "codex")>>)

\* Claude Code's files are cleaned detected or not, Codex's script too.
UninstallSteps ==
  <<Step("read-or-empty", "claude"), Step("remove-hooks", "claude"),
    Step("remove-line", "claude"), Step("drop-backup", "claude"), Step("remove-script", "claude")>>
  \o IfHas("pi", <<Step("remove-package", "pi")>>)
  \o IfHas("codex", <<Step("read-or-empty", "codex"), Step("remove-hooks", "codex")>>)
  \o <<Step("remove-script", "codex")>>

Start(run, steps) ==
  /\ job.run = "idle" /\ job.runs < MaxRuns
  /\ job' = [job EXCEPT !.run = run, !.todo = steps, !.runs = @ + 1]
  /\ UNCHANGED world

StartSetup == Start("setup", SetupSteps)
StartUninstall == Start("uninstall", UninstallSteps)

At(name) == job.todo # <<>> /\ Head(job.todo).do = name
H == Head(job.todo).of

\* The step is done, with `mem` in memory; or the run ends with an error.
Done(mem) == job' = [job EXCEPT !.todo = Tail(@), !.mem = mem]
Abort == [job EXCEPT !.run = "idle", !.todo = <<>>, !.mem = Absent]
Fail == job.fails < MaxFails /\ job' = [Abort EXCEPT !.fails = @ + 1]

Finish ==
  /\ job.run # "idle" /\ job.todo = <<>>
  /\ job' = Abort
  /\ UNCHANGED world

\* write_json_file_pretty writes in place: a failure may leave the file torn.
Save(mem) ==
  \/ world' = [world EXCEPT !.file[H] = mem] /\ Done(mem)
  \/ /\ Fail
     /\ \/ UNCHANGED world
        \/ world' = [world EXCEPT !.file[H] = Torn,
                                  !.keep = IF world.file[H].line = @ THEN "none" ELSE @]

InstallScript ==
  /\ At("install-script")
  /\ \/ world' = [world EXCEPT !.script[H] = TRUE] /\ Done(Absent)
     \/ Fail /\ UNCHANGED world

\* read_json_file_or_empty; setup refuses what is no object.
Read ==
  /\ At("read") /\ UNCHANGED world
  /\ LET file == world.file[H]
     IN  IF file.kind \in {"torn", "other"} THEN job' = Abort
         ELSE Done(Object(file.hooks, file.line))

\* or_empty_if_not_object: uninstall reads a file of another shape as empty.
ReadOrEmpty ==
  /\ At("read-or-empty") /\ UNCHANGED world
  /\ LET file == world.file[H]
     IN  IF file.kind = "torn" THEN job' = Abort
         ELSE Done(Object(file.hooks, file.line))

\* Faulty: the status line is replaced without being saved first.
AddLineUnsaved ==
  /\ At("add-line")
  /\ Done([job.mem EXCEPT !.line = "atm"]) /\ UNCHANGED world
\* install_status_line: the user's own is saved before ATM's takes its place.
AddLine ==
  /\ At("add-line")
  /\ IF job.mem.line \in {"none", "atm"}
     THEN Done([job.mem EXCEPT !.line = "atm"]) /\ UNCHANGED world
     ELSE \/ /\ Done([job.mem EXCEPT !.line = "atm"])
             /\ world' = [world EXCEPT !.backup = job.mem.line]
          \/ Fail /\ \/ UNCHANGED world
                     \/ world' = [world EXCEPT !.backup = "torn"]

\* Settings are written only when the hooks or the line changed.
AddHooks ==
  /\ At("add-hooks")
  /\ LET new == [job.mem EXCEPT !.hooks = AddHook(@)]
     IN  IF new = Object(world.file[H].hooks, world.file[H].line)
         THEN Done(new) /\ UNCHANGED world
         ELSE Save(new)

RemoveHooks ==
  /\ At("remove-hooks")
  /\ LET new == [job.mem EXCEPT !.hooks = RemoveHook(@)]
     IN  IF new = job.mem THEN Done(new) /\ UNCHANGED world ELSE Save(new)

\* uninstall_status_line with the backup, if it can be read.
RemoveLine ==
  /\ At("remove-line")
  /\ LET saved == IF world.backup = "torn" THEN "none" ELSE world.backup
     IN  IF job.mem.line = "atm" THEN Save([job.mem EXCEPT !.line = saved])
         ELSE Done([job.mem EXCEPT !.kind = "kept"]) /\ UNCHANGED world

\* It goes once restored or superseded; it stays when it may be the only copy,
\* when it cannot be read, or when it cannot be removed.
DropBackup ==
  /\ At("drop-backup")
  /\ LET changed == job.mem.kind # "kept"
     IN  IF world.backup # "torn" /\ (changed \/ job.mem.line # "none")
         THEN world' \in {world, [world EXCEPT !.backup = "none"]}
         ELSE UNCHANGED world
  /\ Done(Absent)

RemoveScript ==
  /\ At("remove-script")
  /\ \/ world' = [world EXCEPT !.script[H] = FALSE] /\ Done(Absent)
     \/ world.script[H] /\ Fail /\ UNCHANGED world

\* uninstall_pi_extension; its failure is reported and the uninstall goes on.
RemovePackage ==
  /\ At("remove-package")
  /\ Done(Absent)
  /\ LET gone == [world EXCEPT !.script["pi"] = FALSE]
         file == world.file["pi"]
     IN  \/ world' = [gone EXCEPT !.file["pi"].hooks = RemoveHook(@)]
         \/ world' \in {world, gone}
         \/ file.kind = "object" /\ RemoveHook(file.hooks) # file.hooks
            /\ world' = [gone EXCEPT !.file["pi"] = Torn]

--------------------------------------------------------------------------
(* The user, between runs *)

Edit(w) ==
  /\ job.run = "idle" /\ job.edits < MaxEdits
  /\ job' = [job EXCEPT !.edits = @ + 1]
  /\ world' = w

Editable == world.file["claude"].kind = "object"

\* The user picks a status line of their own, or drops the one there is.
OwnLine ==
  Editable /\ \E line \in {"mine", "mine2"} :
    Edit([world EXCEPT !.file["claude"].line = line, !.keep = line])
DropLine ==
  /\ Editable
  /\ Edit([world EXCEPT !.file["claude"].line = "none",
                        !.keep = IF world.file["claude"].line = "atm" THEN @ ELSE "none"])
\* A command of the user's joins ATM's entry.
JoinEntry ==
  \E h \in {"claude", "codex"} :
    /\ world.file[h].kind = "object" /\ world.file[h].hooks # <<>>
    /\ Edit([world EXCEPT !.file[h].hooks = <<Head(@) \cup {"user"}>> \o Tail(@)])
\* A file that does not parse, or any other, is deleted.
DeleteFile ==
  \E h \in Harnesses : world.file[h].kind # "absent" /\
    Edit([world EXCEPT !.file[h] = Absent,
                       !.keep = IF world.file[h].line \in {"mine", "mine2"} THEN "none" ELSE @])

Next ==
  \/ StartSetup \/ StartUninstall \/ Finish
  \/ InstallScript \/ Read \/ ReadOrEmpty \/ AddLine \/ AddHooks
  \/ RemoveHooks \/ RemoveLine \/ DropBackup \/ RemoveScript \/ RemovePackage
  \/ OwnLine \/ DropLine \/ JoinEntry \/ DeleteFile
Spec == Init /\ [][Next]_vars

--------------------------------------------------------------------------
(* Properties *)

\* The user's own status line is in the settings or in the backup, whatever runs,
\* failing writes and edits come in between.  (A write in place that fails midway
\* loses what the file held: `keep` follows the lines still in a whole file.)
StatusLineKept ==
  world.keep # "none" => world.keep \in {world.file["claude"].line, world.backup}

\* No harness is left with a hook that runs a script ATM has removed, and none
\* runs ATM's script twice for one event.
HooksRunOnce ==
  \A h \in {"claude", "codex"} :
    LET hooks == world.file[h].hooks
        runs  == {i \in 1 .. Len(hooks) : "atm" \in hooks[i]}
    IN  runs # {} => world.script[h] /\ \A i, j \in runs : i = j

\* No run takes a user's own command out of a file it does not tear.
KeepsOwnHooks ==
  \A h \in Harnesses :
    LET Own(f) == {i \in 1 .. Len(f.hooks) : "user" \in f.hooks[i]}
    IN  job.run # "idle" /\ Own(world.file[h]) # {} =>
          Own(world'.file[h]) # {} \/ world'.file[h] = Torn
OwnHooksKept == [][KeepsOwnHooks]_vars
=============================================================================
