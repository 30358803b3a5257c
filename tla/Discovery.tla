----------------------------- MODULE Discovery ------------------------------
(***************************************************************************)
(* atmd's scan for agents (discovery.rs, tmux.rs, harness_registry.rs) and *)
(* the pid a vendor's hook script reports (scripts/atm-hook,               *)
(* atm-codex-hook), over processes that start and exit meanwhile.          *)
(*                                                                         *)
(* A launch of Codex may be two processes, a node wrapper and the binary   *)
(* it starts; both match.  The scan reads /proc pid by pid in any order.   *)
(***************************************************************************)
EXTENDS Naturals, Sequences, FiniteSets

CONSTANTS
  MaxPids,    \* bound on processes started; a pid is not used twice
  MaxExits    \* bound on exits

VARIABLES
  procs,   \* the process table: pid -> kind, parent, launch, alive
  scan     \* the running scan

vars == <<procs, scan>>

\* What /proc shows of a kind of process: comm, exe and argv.  A word with a slash is
\* a path that ends so.
Shows(comm, exe, argv) == [comm |-> comm, exe |-> exe, argv |-> argv]
Kinds ==
  [shell      |-> Shows("sh", "/sh", <<"sh">>),
   claude     |-> Shows("claude", "/claude/versions/2", <<"claude">>),
   teammate   |-> Shows("2", "/claude/versions/2", <<"/claude/versions/2">>),
   pi         |-> Shows("node", "/node", <<"node", "/pi">>),
   amp        |-> Shows("amp", "/amp", <<"amp">>),
   wrapper    |-> Shows("node", "/node", <<"node", "/codex">>),
   codex      |-> Shows("codex", "/codex", <<"/codex">>),
   appwrapper |-> Shows("node", "/node", <<"node", "/codex", "app-server">>),
   appserver  |-> Shows("codex", "/codex", <<"/codex", "app-server">>),
   bwrap      |-> Shows("bwrap", "/bwrap", <<"bwrap", "--", "/codex">>),
   sandbox    |-> Shows("codex", "/codex", <<"/codex-linux-sandbox">>)]

\* Who starts whom, and whether the child belongs to its parent's launch.
Starts ==
  {<<"shell", "claude">>, <<"shell", "teammate">>, <<"shell", "pi">>, <<"shell", "amp">>,
   <<"shell", "wrapper">>, <<"shell", "codex">>, <<"wrapper", "codex">>,
   <<"codex", "appwrapper">>, <<"appwrapper", "appserver">>, <<"codex", "bwrap">>,
   <<"bwrap", "sandbox">>, <<"claude", "codex">>, <<"claude", "claude">>, <<"codex", "codex">>}
SameLaunch(parent, child) == <<parent, child>> \in {<<"wrapper", "codex">>, <<"appwrapper", "appserver">>}

Init ==
  /\ procs = <<[kind |-> "shell", parent |-> 0, launch |-> 0, alive |-> TRUE]>>
  /\ scan = [on |-> FALSE, due |-> {}, read |-> {}, matches |-> {}, found |-> {}, quiet |-> TRUE, exits |-> 0]

Alive == {p \in DOMAIN procs : procs[p].alive}

Start ==
  /\ Len(procs) < MaxPids
  /\ \E p \in Alive, kind \in DOMAIN Kinds :
       /\ <<procs[p].kind, kind>> \in Starts
       /\ SameLaunch(procs[p].kind, kind) =>
            ~ \E q \in DOMAIN procs : procs[q].parent = p /\ procs[q].launch = procs[p].launch
       /\ procs' = Append(procs, [kind |-> kind, parent |-> p, alive |-> TRUE,
                                  launch |-> IF SameLaunch(procs[p].kind, kind) THEN procs[p].launch
                                             ELSE Len(procs) + 1])
  /\ scan' = [scan EXCEPT !.quiet = FALSE]

\* Children of an exited process go to init.
Exit ==
  /\ scan.exits < MaxExits
  /\ \E p \in Alive \ {1} :
       procs' = [q \in DOMAIN procs |->
                   [procs[q] EXCEPT !.alive = @ /\ q # p, !.parent = IF @ = p THEN 0 ELSE @]]
  /\ scan' = [scan EXCEPT !.quiet = FALSE, !.exits = @ + 1]

--------------------------------------------------------------------------
(* harness_registry.rs *)

Definition(id, binary, matchers, excludes, enabled, bare) ==
  [id |-> id, binary |-> binary, matchers |-> matchers, excludes |-> excludes,
   discovery_enabled |-> enabled, allow_bare |-> bare]

BuiltinHarnesses ==
  <<Definition("claude", "claude", {"claude", "/claude", "/claude/versions/2"}, {}, TRUE, TRUE),
    Definition("pi", "pi", {"/pi"}, {}, TRUE, FALSE),
    Definition("codex", "codex", {"codex", "/codex"},
               {<<2, "app-server">>, <<1, "/codex-linux-sandbox">>, <<1, "bwrap">>}, TRUE, TRUE),
    Definition("amp", "amp", {"amp", "/amp"}, {}, FALSE, TRUE)>>

PathLike(word) == word \in {"/codex", "/claude/versions/2", "/codex-linux-sandbox", "/pi"}

--------------------------------------------------------------------------
(* The scan of one process *)

CheckViaExe(shown, d) == shown.exe \in d.matchers
\* A bare word counts only as argv0, where the harness allows it; flags never do.
CheckViaCmdline(shown, d) ==
  \E i \in DOMAIN shown.argv :
    /\ shown.argv[i] \in d.matchers
    /\ PathLike(shown.argv[i]) \/ (i = 1 /\ d.allow_bare)
IsExcluded(shown, d) == \E exclude \in d.excludes :
  exclude[1] \in DOMAIN shown.argv /\ shown.argv[exclude[1]] = exclude[2]

Matching(shown) ==
  {i \in DOMAIN BuiltinHarnesses :
     LET d == BuiltinHarnesses[i]
     IN  d.discovery_enabled /\ (CheckViaExe(shown, d) \/ CheckViaCmdline(shown, d))}

Ancestors[p \in DOMAIN procs] ==
  IF procs[p].parent = 0 THEN {} ELSE {procs[p].parent} \cup Ancestors[procs[p].parent]

DetectAgentProcess(p) ==
  LET shown == Kinds[procs[p].kind]
      first == CHOOSE i \in Matching(shown) : \A j \in Matching(shown) : i <= j
      d == BuiltinHarnesses[first]
  IN  IF Matching(shown) = {} THEN {}
      ELSE {[pid |-> p, harness |-> d.id, ancestors |-> Ancestors[p],
             comm_is_binary |-> shown.comm = d.binary, excluded |-> IsExcluded(shown, d)]}

--------------------------------------------------------------------------
(* dedupe_wrapper_chains *)

Related(a, b) == a.pid \in b.ancestors \/ b.pid \in a.ancestors

\* The variant takes every relative of a harness for one agent.
SupersedesAny(a, b) ==
  a.harness = b.harness /\ b.pid \in a.ancestors
Supersedes(a, b) ==
  a.harness = b.harness /\ a.comm_is_binary /\ ~ b.comm_is_binary /\ Related(a, b)

\* Excluded matches take their wrapper with them.
DedupeWrapperChains(matches) ==
  {b \in matches : ~ b.excluded /\ ~ \E a \in matches : a # b /\ Supersedes(a, b)}

ScanStarts ==
  /\ ~ scan.on
  /\ scan' = [scan EXCEPT !.on = TRUE, !.due = Alive, !.read = {}, !.matches = {}, !.found = {},
                          !.quiet = TRUE]
  /\ UNCHANGED procs
\* A process that starts during the scan may or may not be listed.
ScanReads ==
  /\ scan.on
  /\ \E p \in (scan.due \cup Alive) \ scan.read :
       scan' = [scan EXCEPT !.read = @ \cup {p},
                            !.matches = @ \cup (IF procs[p].alive THEN DetectAgentProcess(p) ELSE {})]
  /\ UNCHANGED procs
ScanEnds ==
  /\ scan.on /\ scan.due \subseteq scan.read
  /\ scan' = [scan EXCEPT !.on = FALSE, !.found = {m.pid : m \in DedupeWrapperChains(scan.matches)},
                          !.due = {}, !.read = {}, !.matches = {}]
  /\ UNCHANGED procs

Next == Start \/ Exit \/ ScanStarts \/ ScanReads \/ ScanEnds

Spec == Init /\ [][Next]_vars

--------------------------------------------------------------------------
(* The hook scripts: from a child of process p, up the tree *)

Up[p \in 0 .. Len(procs)] == IF p = 0 THEN <<>> ELSE <<p>> \o Up[procs[p].parent]
Named(p, comm) == {i \in DOMAIN Up[p] : Kinds[procs[Up[p][i]].kind].comm = comm}
\* The highest "claude" and the nearest "codex"; 0 sends nothing.
FindClaudePid(p) ==
  IF Named(p, "claude") = {} THEN 0
  ELSE Up[p][CHOOSE i \in Named(p, "claude") : \A j \in Named(p, "claude") : j <= i]
FindCodexPid(p) ==
  IF Named(p, "codex") = {} THEN 0
  ELSE Up[p][CHOOSE i \in Named(p, "codex") : \A j \in Named(p, "codex") : i <= j]

--------------------------------------------------------------------------
(* Properties *)

Sessions == {p \in Alive : procs[p].kind \in {"claude", "teammate", "pi", "codex"}}
OfLaunch(p) == {q \in scan.found : procs[q].launch = procs[p].launch}
Settled ==
  \A p \in Alive : procs[p].kind \in {"wrapper", "appwrapper"} =>
    \E q \in Alive : procs[q].parent = p /\ SameLaunch(procs[p].kind, procs[q].kind)
Complete == ~ scan.on /\ scan.quiet /\ scan.found # {}

\* A scan beside which nothing starts or exits, once each wrapper has started its
\* binary, lists every agent once, by the agent's own pid, and no daemon, sandbox or
\* wrapper of one.
OneRowPerAgent == Complete /\ Settled => scan.found = Sessions

\* A hook of a Codex session names the process discovery lists, so the two make one row;
\* one of a Claude session does, unless another Claude Code started it.
HookNamesListed ==
  Complete /\ Settled => \A p \in Sessions :
    /\ procs[p].kind = "codex" => FindCodexPid(p) \in OfLaunch(p)
    /\ procs[p].kind = "claude" /\ Cardinality(Named(p, "claude")) = 1 =>
         FindClaudePid(p) \in OfLaunch(p)
=============================================================================
