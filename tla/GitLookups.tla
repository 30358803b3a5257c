------------------------------ MODULE GitLookups ------------------------------
(***************************************************************************)
(* The git contexts (project root, worktree, branch) of the sessions: the  *)
(* registry actor never reads a disk itself.  It asks for a lookup of a    *)
(* directory, which runs on a thread of its own, and applies the results   *)
(* as they come back on a channel (registry/git.rs, apply_git_result).     *)
(* A lookup may panic, may hang for ever, and may fail to start.           *)
(***************************************************************************)
EXTENDS Naturals, Sequences, FiniteSets

CONSTANTS
  Sessions, Dirs, NoDir,
  Branches,    \* what a lookup may find in a directory
  NoContext,   \* a session's context before its first lookup
  Panicked,    \* the result of a lookup that panicked
  MaxChanges,  \* bound: changes of the sessions and of the disk
  MaxFaults    \* bound: lookups that hang, panic or don't start

VARIABLES
  disk,         \* disk[d]: the branch that d is on
  cwd,          \* cwd[s]: the working directory of s, NoDir if there is no s
  context,      \* context[s]: the project root and branch that s shows
  in_flight,    \* the directories that have a lookup
  threads,      \* threads[d]: the lookups of d that run and will report
  hung,         \* hung[d]: the lookups of d that never will
  git_results,  \* the channel of finished lookups
  changes, faults

lookups == <<in_flight, threads>>
vars == <<disk, cwd, context, lookups, hung, git_results, changes, faults>>

Contexts == [dir : Dirs, branch : Branches]

Held == {s \in Sessions : cwd[s] # NoDir}

Change == changes < MaxChanges /\ changes' = changes + 1
Fault == faults < MaxFaults /\ faults' = faults + 1

-----------------------------------------------------------------------------
(* The actor.  Request asks for lookups of all of ds; a thread that doesn't *)
(* start leaves nothing behind.                                             *)

Requested(ds, failed) ==
  /\ in_flight' = in_flight \cup (ds \ failed)
  /\ threads' = [d \in Dirs |-> IF d \in ds \ (failed \cup in_flight)
                                 THEN threads[d] + 1 ELSE threads[d]]

\* Faulty: starts a lookup though one runs.
RequestAlways(ds) ==
  /\ in_flight' = in_flight \cup ds
  /\ threads' = [d \in Dirs |-> IF d \in ds THEN threads[d] + 1 ELSE threads[d]]
  /\ UNCHANGED faults

Request(ds) ==
  \/ Requested(ds, {}) /\ UNCHANGED faults
  \/ \E failed \in ds \ in_flight : Requested(ds, {failed}) /\ Fault

\* A session starts in d.  A child starts with its parent's context.
SessionStarts(s, d) ==
  /\ s \notin Held /\ Change
  /\ cwd' = [cwd EXCEPT ![s] = d]
  /\ context' = [context EXCEPT ![s] = NoContext]
  /\ Request({d})
  /\ UNCHANGED <<disk, hung, git_results>>

ChildStarts(s, parent) ==
  /\ s \notin Held /\ parent \in Held /\ Change
  /\ cwd' = [cwd EXCEPT ![s] = cwd[parent]]
  /\ context' = [context EXCEPT ![s] = context[parent]]
  /\ IF context[parent] = NoContext THEN Request({cwd[parent]})
     ELSE UNCHANGED <<lookups, faults>>
  /\ UNCHANGED <<disk, hung, git_results>>

SessionLeaves(s) ==
  /\ s \in Held /\ Change
  /\ cwd' = [cwd EXCEPT ![s] = NoDir]
  /\ context' = [context EXCEPT ![s] = NoContext]
  /\ UNCHANGED <<disk, lookups, hung, git_results, faults>>

\* A status line tells the directory of s: the old context stays for now.
StatusLine(s, d) ==
  /\ s \in Held
  /\ d # cwd[s] \/ context[s] = NoContext
  /\ IF d # cwd[s] THEN Change ELSE UNCHANGED changes
  /\ cwd' = [cwd EXCEPT ![s] = d]
  /\ Request({d})
  /\ UNCHANGED <<disk, context, hung, git_results>>

\* The refresh task asks for every directory that some session is in.
RefreshGitInfo ==
  /\ Request({cwd[s] : s \in Held})
  /\ UNCHANGED <<disk, cwd, context, hung, git_results, changes>>

\* Faulty: applies the result to whichever sessions there are.
AppliedToAll(result) ==
  [s \in Sessions |-> IF s \in Held THEN result.context ELSE context[s]]

\* The contexts once a finished lookup is applied: only to the sessions that
\* are in its directory by then.
Applied(result) ==
  [s \in Sessions |-> IF cwd[s] = result.dir THEN result.context ELSE context[s]]

ApplyGitResult ==
  /\ git_results # <<>>
  /\ LET result == Head(git_results)
     IN /\ in_flight' = in_flight \ {result.dir}
        /\ context' = IF result.context = Panicked THEN context ELSE Applied(result)
  /\ git_results' = Tail(git_results)
  /\ UNCHANGED <<disk, cwd, threads, hung, changes, faults>>

-----------------------------------------------------------------------------
(* The lookups' threads, and the disk *)

Ends(d) == threads[d] > 0 /\ threads' = [threads EXCEPT ![d] = @ - 1]

Reports(d, found) ==
  /\ Ends(d)
  /\ git_results' = Append(git_results, [dir |-> d, context |-> found])
  /\ UNCHANGED <<disk, cwd, context, in_flight, hung, changes>>

Finds(d) == Reports(d, [dir |-> d, branch |-> disk[d]]) /\ UNCHANGED faults

\* Faulty: a lookup that panics does not report.
PanicsSilently(d) ==
  /\ Ends(d) /\ Fault
  /\ UNCHANGED <<disk, cwd, context, in_flight, hung, git_results, changes>>

Panics(d) == Reports(d, Panicked) /\ Fault

Hangs(d) ==
  /\ Ends(d) /\ Fault
  /\ hung' = [hung EXCEPT ![d] = @ + 1]
  /\ UNCHANGED <<disk, cwd, context, in_flight, git_results, changes>>

Checkout(d, branch) ==
  /\ branch # disk[d] /\ Change
  /\ disk' = [disk EXCEPT ![d] = branch]
  /\ UNCHANGED <<cwd, context, lookups, hung, git_results, faults>>

Init ==
  /\ disk \in [Dirs -> Branches]
  /\ cwd = [s \in Sessions |-> NoDir]
  /\ context = [s \in Sessions |-> NoContext]
  /\ in_flight = {} /\ threads = [d \in Dirs |-> 0]
  /\ hung = [d \in Dirs |-> 0]
  /\ git_results = <<>>
  /\ changes = 0 /\ faults = 0

Next ==
  \/ \E s \in Sessions, d \in Dirs : SessionStarts(s, d) \/ StatusLine(s, d)
  \/ \E s, parent \in Sessions : ChildStarts(s, parent)
  \/ \E s \in Sessions : SessionLeaves(s)
  \/ RefreshGitInfo \/ ApplyGitResult
  \/ \E d \in Dirs : Finds(d) \/ Panics(d) \/ Hangs(d)
  \/ \E d \in Dirs, branch \in Branches : Checkout(d, branch)

Spec == Init /\ [][Next]_vars

\* The refresh task ticks for as long as the daemon runs, the actor takes
\* results as they come, and a thread that doesn't hang reports.
FairSpec ==
  /\ Spec
  /\ WF_vars(RefreshGitInfo) /\ WF_vars(ApplyGitResult)
  /\ \A d \in Dirs : WF_vars(Finds(d))

-----------------------------------------------------------------------------
(* Properties *)

\* TypeOK: the maps of the actor and of the lookups have their types, and no
\* session ever shows what a lookup that panicked leaves.
TypeOK ==
  /\ disk \in [Dirs -> Branches]
  /\ cwd \in [Sessions -> Dirs \cup {NoDir}]
  /\ context \in [Sessions -> Contexts \cup {NoContext}]
  /\ in_flight \subseteq Dirs
  /\ threads \in [Dirs -> Nat] /\ hung \in [Dirs -> Nat]
  /\ git_results \in Seq([dir : Dirs, context : Contexts \cup {Panicked}])
  /\ changes \in 0..MaxChanges /\ faults \in 0..MaxFaults

\* SlotsExact: a directory has one lookup, that runs, hangs or waits to be
\* applied, exactly while it holds its slot: a hung file system costs one
\* thread per directory, and neither a panic nor a failed start leaks a slot,
\* after which the directory would never be looked up again.
SlotsExact ==
  \A d \in Dirs :
    LET reported == {k \in DOMAIN git_results : git_results[k].dir = d}
    IN threads[d] + hung[d] + Cardinality(reported)
         = IF d \in in_flight THEN 1 ELSE 0

\* NoStrayContext: a late result never gives a session the context of a
\* directory that it has left.
ChangesAreOwn ==
  \A s \in Held :
    context'[s] # context[s] => context'[s] = NoContext \/ context'[s].dir = cwd'[s]
NoStrayContext == [][ChangesAreOwn]_vars

\* ContextsSettle: when sessions and disk stay as they are, every session
\* ends up showing the context of its directory, unless a lookup of that
\* directory hangs: a change during a lookup is not missed for good, and one
\* directory's hung lookup holds no other up.
ContextsShown ==
  \A s \in Held :
    hung[cwd[s]] > 0 \/ context[s] = [dir |-> cwd[s], branch |-> disk[cwd[s]]]
ContextsSettle == <>[]ContextsShown

=============================================================================
