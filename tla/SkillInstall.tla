---------------------------- MODULE SkillInstall ----------------------------
(***************************************************************************)
(* How `atm setup` replaces one skill folder of a harness                  *)
(* (crates/atm/src/setup/skills.rs): the new copy is built in a staging    *)
(* folder and swapped in with two renames.  Every file operation may fail, *)
(* and the process may be killed between two of them.                      *)
(*                                                                         *)
(* A folder is "none", "old" (a whole earlier copy), "new" (a whole new    *)
(* copy) or "part" (some files of a new copy).                             *)
(***************************************************************************)
EXTENDS Naturals

CONSTANTS MaxRuns   \* bound on the runs of setup and uninstall

VARIABLES
  world,  \* the skills folder: [dir, new, old], the last two in staging
  job     \* [at, runs, fails, had, killed]: the process

vars == <<world, job>>

\* `had`: a whole copy was installed when the run began.
Init ==
  /\ \E dir \in {"none", "old"} : world = [dir |-> dir, new |-> "none", old |-> "none"]
  /\ job = [at |-> "idle", runs |-> 0, fails |-> 0, had |-> FALSE, killed |-> FALSE]

Whole(folder) == folder \in {"old", "new"}

\* A copy installed by an earlier run is an old one for the next.
Begin(run) ==
  /\ job.at = "idle" /\ job.runs < MaxRuns
  /\ job' = [job EXCEPT !.at = run, !.runs = @ + 1, !.fails = 0, !.had = Whole(world.dir),
                        !.killed = FALSE]
  /\ world' = [world EXCEPT !.dir = IF @ = "new" THEN "old" ELSE @]

StartSetup == Begin("clean")
StartUninstall == Begin("remove")

Goes(at, w) == job' = [job EXCEPT !.at = at] /\ world' = w
Fails(at, w) == job' = [job EXCEPT !.at = at, !.fails = @ + 1] /\ world' = w

\* remove_dir_all may fail with the folder half gone.
Removed(folder) == IF folder = "none" THEN {"none"} ELSE {folder, "part"}

\* Leftovers of an earlier run go first.
Clean ==
  /\ job.at = "clean"
  /\ \/ Goes("build", [world EXCEPT !.new = "none", !.old = "none"])
     \/ \E n \in Removed(world.new), o \in Removed(world.old) :
          <<n, o>> # <<"none", "none">> /\ Fails("idle", [world EXCEPT !.new = n, !.old = o])

Build ==
  /\ job.at = "build"
  /\ \/ Goes("aside", [world EXCEPT !.new = "new"])
     \/ \E n \in {"none", "part"} : Fails("idle", [world EXCEPT !.new = n])

Aside ==
  /\ job.at = "aside"
  /\ \/ Goes("swap", [world EXCEPT !.dir = "none", !.old = world.dir])
     \/ world.dir # "none" /\ Fails("idle", [world EXCEPT !.new = "none"])

\* The second rename; when it fails the old copy goes back, if that works.
Swap ==
  /\ job.at = "swap"
  /\ \/ Goes("sweep", [world EXCEPT !.dir = world.new, !.new = "none"])
     \/ Fails("idle", [dir |-> world.old, new |-> "none", old |-> "none"])
     \/ /\ job' = [job EXCEPT !.at = "idle", !.fails = @ + 2]
        /\ world' = [world EXCEPT !.new = "none"]

Sweep ==
  /\ job.at = "sweep"
  /\ \/ Goes("idle", [world EXCEPT !.old = "none"])
     \/ \E o \in Removed(world.old) : o # "none" /\ Fails("idle", [world EXCEPT !.old = o])

\* uninstall_atm_skills: the skill folder, then the staging folder.
Remove ==
  /\ job.at = "remove"
  /\ \/ Goes("idle", [dir |-> "none", new |-> "none", old |-> "none"])
     \/ \E d \in Removed(world.dir) \cup {"none"}, n \in {"none", world.new}, o \in {"none", world.old} :
          Fails("idle", [dir |-> d, new |-> n, old |-> o])

Kill ==
  /\ job.at # "idle"
  /\ job' = [job EXCEPT !.at = "idle", !.killed = TRUE]
  /\ \/ world' = world
     \/ job.at = "build" /\ world' = [world EXCEPT !.new = "part"]
     \/ job.at = "remove" /\ world' = [world EXCEPT !.dir = IF @ = "none" THEN @ ELSE "part"]

Next ==
  \/ StartSetup \/ StartUninstall \/ Clean \/ Build \/ Aside \/ Swap \/ Sweep \/ Remove \/ Kill
Spec == Init /\ [][Next]_vars

\* As skills.rs says of an install: a failure leaves the old copy or the new one
\* whole.  It takes a kill between the renames, or the second rename and the one
\* that undoes the first failing together, to leave none; and nothing but an
\* uninstall ever leaves a mix under the skill's own name.
LeavesWhole ==
  job.at \in {"clean", "build", "aside", "swap", "sweep"} /\ job'.at = "idle" =>
    /\ job.had /\ job'.fails <= 1 /\ ~ job'.killed => Whole(world'.dir)
    /\ world'.dir = "part" => world.dir = "part" \/ world.old = "part"
InstallLeavesWhole == [][LeavesWhole]_vars
=============================================================================
