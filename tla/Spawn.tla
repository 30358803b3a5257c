-------------------------------- MODULE Spawn --------------------------------
(***************************************************************************)
(* `atm spawn` (bin/atm/spawn.rs): the harness is resolved and everything  *)
(* asked of it checked before tmux is touched; then a pane is split, its   *)
(* id printed, and the command typed.  Each tmux call may fail, or time    *)
(* out with its effect; panes may go at any moment.                        *)
(***************************************************************************)
EXTENDS Naturals, Sequences

CONSTANTS
  MaxFails,   \* bound on failing tmux calls
  MaxGone     \* bound on panes that go

VARIABLES
  world,  \* [config, env, tmux, caller, stdout, panes, reported]
  job     \* [at, ask, def, cmd, pane, fails, gone, why]

vars == <<world, job>>

--------------------------------------------------------------------------
(* Harnesses: the built-in table and the [harness.<name>] tables over it *)

Definition(binary, model, prompt) == [binary |-> binary, model |-> model, prompt |-> prompt]
Builtin ==
  [claude |-> Definition("claude", "--model", "positional"),
   codex  |-> Definition("codex", "", "positional"),
   amp    |-> Definition("amp", "", "keystrokes")]
Alias == [cc |-> "claude"]
\* A table's field is "unset" when the file leaves it out.
Overlay(binary, model) == [binary |-> binary, model |-> model]
Tables ==
  [claude |-> Overlay("unset", ""), cc |-> Overlay("wrapper", "-m"),
   codex |-> Overlay("", "--model"), mine |-> Overlay("mine", "unset"), bare |-> Overlay("", "-m")]
Configs == {"absent", "unreadable", "empty", "tables"}
Definitions(config) == IF config = "tables" THEN Tables ELSE <<>>
Default(config) == IF config = "tables" THEN "codex" ELSE "claude"

Canonical(name) == IF name \in DOMAIN Alias THEN Alias[name] ELSE name
ApplyConfig(d, o) ==
  [d EXCEPT !.binary = IF o.binary \in {"unset", ""} THEN @ ELSE o.binary,
            !.model = IF o.model = "unset" THEN @ ELSE o.model]
Applied(d, config, name) ==
  IF name \in DOMAIN Definitions(config) THEN ApplyConfig(d, Definitions(config)[name]) ELSE d
FromCustom(o) == Definition(o.binary, IF o.model = "unset" THEN "" ELSE o.model, "unsupported")

\* The set holds the definition, or nothing for an error.
ResolveSpawnHarness(config, harness) ==
  LET name == IF harness = "none" THEN Default(config) ELSE harness
      id == Canonical(name)
      tables == Definitions(config)
  IN  CASE config = "unreadable" -> {}
        [] config # "unreadable" /\ id \in DOMAIN Builtin ->
             {Applied(Applied(Builtin[id], config, id), config, name)}
        [] config # "unreadable" /\ id \notin DOMAIN Builtin ->
             {FromCustom(tables[n]) : n \in {m \in DOMAIN tables : m = name /\ tables[m].binary # ""}}

\* prompt_words.
Prompts == {"none", "empty", "words", "long", "one_word", "option", "newline"}
PromptTaken(d, prompt) ==
  prompt # "none" => d.prompt = "positional" /\ prompt \notin {"one_word", "option", "newline"}

\* build_spawn_command_for_harness.  A BIN variable drops the default arguments, and
\* the harness's own one goes before the global one.
BuildSpawnCommand(d, env, cwd, model) ==
  [bin |-> IF env = {} THEN d.binary ELSE IF "own" \in env THEN "own" ELSE "global",
   model |-> IF model /\ d.model # "" THEN d.model ELSE "", cwd |-> cwd, prompt |-> "none"]

--------------------------------------------------------------------------
(* The command, a step per tmux call *)

Nothing == [bin |-> "", model |-> "", cwd |-> "none", prompt |-> "none"]
Pane(cwd) == [alive |-> TRUE, cwd |-> cwd, typed |-> Nothing, runs |-> Nothing]

Init ==
  /\ \E config \in Configs, env \in {{}, {"global"}, {"own", "global"}}, tmux, stdout \in BOOLEAN, caller \in 0 .. 1 :
       world = [config |-> config, env |-> env, tmux |-> tmux, stdout |-> stdout, caller |-> caller,
                panes |-> <<Pane("home"), Pane("home")>>, reported |-> {}]
  /\ job = [at |-> "none", ask |-> [harness |-> "none", model |-> FALSE, prompt |-> "none",
                                    worktree |-> FALSE, target |-> 0],
            def |-> Builtin.claude, cmd |-> Nothing, target |-> 0, pane |-> 0, fails |-> 0, gone |-> 0,
            why |-> "none"]

Ends(why) == [job EXCEPT !.at = "end", !.why = why]

Refused(ask, defs) ==
  \/ defs = {}
  \/ \E d \in defs : (ask.model /\ d.model = "") \/ ~ PromptTaken(d, ask.prompt)

Resolve ==
  /\ job.at = "none"
  /\ \E harness \in {"none", "claude", "cc", "amp", "mine", "bare", "other"}, model, worktree \in BOOLEAN,
        prompt \in Prompts, target \in 0 .. 1 :
       LET ask == [harness |-> harness, model |-> model, prompt |-> prompt, worktree |-> worktree,
                   target |-> target]
           defs == ResolveSpawnHarness(world.config, harness)
       IN  job' = IF Refused(ask, defs) \/ ~ world.tmux THEN [Ends("refused") EXCEPT !.ask = ask]
                  ELSE [job EXCEPT !.at = "list", !.ask = ask, !.def = CHOOSE d \in defs : TRUE]
  /\ UNCHANGED world

Alive(p) == p \in DOMAIN world.panes /\ world.panes[p].alive
\* A tmux call works, fails, or times out after all.
Fails == job.fails < MaxFails
Failed(why) == [Ends(why) EXCEPT !.fails = @ + 1]

\* -t, else $TMUX_PANE, else the active pane: the second one, while it lives.
ListPanes ==
  /\ job.at = "list"
  /\ \/ job' = [job EXCEPT !.at = "cwd",
                           !.target = IF job.ask.target # 0 THEN job.ask.target
                                      ELSE IF world.caller # 0 THEN world.caller
                                      ELSE IF Alive(2) THEN 2 ELSE 1]
     \/ Fails /\ job' = Failed("list")
  /\ UNCHANGED world

\* The pane's directory, or atm's own when tmux does not say.
Cwd ==
  /\ job.at = "cwd"
  /\ \E cwd \in IF job.ask.worktree THEN {"worktree"}
                ELSE (IF Alive(job.target) THEN {world.panes[job.target].cwd} ELSE {})
                     \cup (IF Fails \/ ~ Alive(job.target) THEN {"own"} ELSE {}) :
       LET cmd == [BuildSpawnCommand(job.def, world.env, cwd, job.ask.model) EXCEPT !.prompt = job.ask.prompt]
       IN  job' = IF job.ask.prompt = "long" THEN Ends("refused") ELSE [job EXCEPT !.at = "split", !.cmd = cmd]
  /\ UNCHANGED world

\* The new pane's id is printed as soon as the pane exists.
Prints(step) == step = "split"
Reported(step, p) == world.reported \cup {q \in {p} : world.stdout /\ Prints(step)}

SplitWindow ==
  LET new == Len(world.panes) + 1
      made == [world EXCEPT !.panes = Append(@, Pane("home"))]
  IN  /\ job.at = "split"
      /\ \/ /\ Alive(job.target)
            /\ world' = [made EXCEPT !.reported = Reported("split", new)]
            /\ job' = [job EXCEPT !.at = "type", !.pane = new]
         \/ ~ Alive(job.target) /\ job' = Ends("split") /\ UNCHANGED world
         \/ Fails /\ Alive(job.target) /\ job' = Failed("split") /\ world' \in {world, made}

\* Types into the pane; `then` follows.
SendKeys(effect, then) ==
  \/ Alive(job.pane) /\ world' = effect /\ job' = then
  \/ ~ Alive(job.pane) /\ UNCHANGED world /\ job' = Ends("keys")
  \/ Fails /\ job' = Failed("keys") /\ world' \in {world} \cup (IF Alive(job.pane) THEN {effect} ELSE {})
Type ==
  /\ job.at = "type"
  /\ SendKeys([world EXCEPT !.panes[job.pane].typed = job.cmd], [job EXCEPT !.at = "enter"])
Enter ==
  /\ job.at = "enter"
  /\ SendKeys([world EXCEPT !.panes[job.pane].runs = world.panes[job.pane].typed,
                            !.panes[job.pane].typed = Nothing,
                            !.reported = Reported("enter", job.pane)],
              Ends(IF world.stdout THEN "done" ELSE "print"))

PaneGoes ==
  /\ job.gone < MaxGone /\ job.at \notin {"none", "end"}
  /\ \E p \in DOMAIN world.panes :
       Alive(p) /\ world' = [world EXCEPT !.panes[p].alive = FALSE]
  /\ job' = [job EXCEPT !.gone = @ + 1]

Next == Resolve \/ ListPanes \/ Cwd \/ SplitWindow \/ Type \/ Enter \/ PaneGoes

Spec == Init /\ [][Next]_vars

--------------------------------------------------------------------------
(* Properties *)

New == DOMAIN world.panes \ {1, 2}

\* Whenever the command ends, each pane it made has been printed, so that its caller can
\* clean up, unless the split itself timed out or nobody reads the output.
MadePanesPrinted ==
  job.at = "end" => New \subseteq world.reported \/ job.why = "split" \/ ~ world.stdout

\* What was asked is done or refused, never dropped: a command that runs has the model
\* and the prompt asked for, and a refusal has made no pane.
NothingAskedDropped ==
  /\ \A p \in New : LET cmd == world.panes[p].runs IN
       cmd # Nothing => (job.ask.model <=> cmd.model # "") /\ cmd.prompt = job.ask.prompt
  /\ job.why = "refused" => New = {}
=============================================================================
