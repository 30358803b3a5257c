------------------------------ MODULE BeadsReader ------------------------------
(***************************************************************************)
(* The in-progress task of the selected project, which the compact preview *)
(* shows: the reader (crates/atm/src/beads.rs), the task that polls it     *)
(* (bin/atm/tui.rs) and what the App keeps of its answers.                 *)
(*                                                                         *)
(* A read runs on a thread of its own and may hang for ever on a mount;    *)
(* the poll waits for it for a while and asks again a second later, for    *)
(* the directory that is selected by then.  A directory's file is known by *)
(* its version, which only grows.                                          *)
(***************************************************************************)
EXTENDS Naturals, Sequences, FiniteSets

CONSTANTS
  Dirs,        \* project directories
  MaxVersion,  \* bound on the versions of a directory's file
  MaxReads     \* bound on reads

VARIABLES
  world,  \* [selected, disk, reads]: the cursor's directory, the files, reads so far
  job     \* [polling, pending, threads, inbox, beads_tasks]: the reader, its task, the App

vars == <<world, job>>

NoDir == "none"
Unread == 0   \* versions count from 1

Init ==
  /\ world = [selected |-> NoDir, disk |-> [d \in Dirs |-> 1], reads |-> 0]
  /\ job = [polling |-> NoDir, pending |-> [d \in Dirs |-> 0], threads |-> {}, inbox |-> <<>>,
            beads_tasks |-> [d \in Dirs |-> Unread]]

--------------------------------------------------------------------------
(* The user and the files *)

\* Every frame publishes the directory of the session under the cursor.
Select ==
  /\ \E d \in (Dirs \cup {NoDir}) \ {world.selected} : world' = [world EXCEPT !.selected = d]
  /\ UNCHANGED job

FileChanges ==
  /\ \E d \in Dirs : world.disk[d] < MaxVersion /\ world' = [world EXCEPT !.disk[d] = @ + 1]
  /\ UNCHANGED job

--------------------------------------------------------------------------
(* BeadsReader::poll.  `pending` has the read whose answer a directory awaits, 0 if none; *)
(* a thread that does not start changes nothing.                                          *)

\* Faulty: a read that is still pending is not looked for.
StartsAnyway(d) == TRUE
Starts(d) == job.pending[d] = 0

Poll ==
  /\ job.polling = NoDir /\ world.selected # NoDir
  /\ LET d    == world.selected
         read == [id |-> world.reads + 1, dir |-> d, at |-> "reading", version |-> Unread]
     IN  IF Starts(d)
         THEN /\ world.reads < MaxReads
              /\ job' = [job EXCEPT !.polling = d, !.pending[d] = read.id, !.threads = @ \cup {read}]
              /\ world' = [world EXCEPT !.reads = @ + 1]
         ELSE job' = [job EXCEPT !.polling = d] /\ UNCHANGED world

\* A thread reads its directory's file, and some time later answers; or it panics.
\* One that hangs does neither.
ThreadReads ==
  /\ \E t \in job.threads :
       /\ t.at = "reading"
       /\ \E read \in {[t EXCEPT !.at = "read", !.version = world.disk[t.dir]], [t EXCEPT !.at = "ended"]} :
            job' = [job EXCEPT !.threads = (@ \ {t}) \cup {read}]
  /\ UNCHANGED world

ThreadAnswers ==
  /\ \E t \in job.threads :
       t.at = "read" /\ job' = [job EXCEPT !.threads = (@ \ {t}) \cup {[t EXCEPT !.at = "ended"]}]
  /\ UNCHANGED world

\* The answer that the poll waits for is there: sent, or dropped by a panic.
PollReturns ==
  /\ \E t \in job.threads :
       /\ t.dir = job.polling /\ t.id = job.pending[t.dir] /\ t.at = "ended"
       /\ job' = [job EXCEPT !.polling = NoDir, !.pending[t.dir] = 0, !.threads = @ \ {t},
                    !.inbox = IF t.version = Unread THEN @ ELSE Append(@, [dir |-> t.dir, version |-> t.version])]
  /\ UNCHANGED world

\* Faulty: a timeout gives the read up, and the next poll starts another.
ForgetsRead(pending, d) == [pending EXCEPT ![d] = 0]
KeepsRead(pending, d) == pending

PollTimesOut ==
  /\ job.polling # NoDir
  /\ job' = [job EXCEPT !.polling = NoDir, !.pending = KeepsRead(@, job.polling)]
  /\ UNCHANGED world

\* Event::BeadsUpdate.
BeadsUpdate ==
  /\ job.inbox # <<>>
  /\ LET answer == Head(job.inbox)
     IN  job' = [job EXCEPT !.inbox = Tail(@), !.beads_tasks[answer.dir] = answer.version]
  /\ UNCHANGED world

Next ==
  \/ Select \/ FileChanges \/ Poll \/ ThreadReads \/ ThreadAnswers \/ PollReturns \/ PollTimesOut
  \/ BeadsUpdate

Spec == Init /\ [][Next]_vars

--------------------------------------------------------------------------
(* Properties *)

\* However long its reads hang and whatever is selected meanwhile, a directory never
\* occupies a second thread.
OneReadEach == \A t, u \in job.threads : t.dir = u.dir => t = u

\* The preview never goes back to an older task: no answer on its way is of an earlier
\* version of the file than the one shown, or than an answer before it.
NothingOlderComes ==
  /\ \A t \in job.threads : t.version # Unread => t.version >= job.beads_tasks[t.dir]
  /\ \A i \in DOMAIN job.inbox :
       /\ job.inbox[i].version >= job.beads_tasks[job.inbox[i].dir]
       /\ \A j \in DOMAIN job.inbox :
            i < j /\ job.inbox[i].dir = job.inbox[j].dir => job.inbox[i].version <= job.inbox[j].version
       /\ \A t \in job.threads :
            t.dir = job.inbox[i].dir /\ t.version # Unread => t.version >= job.inbox[i].version
=============================================================================
