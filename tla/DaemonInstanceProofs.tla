------------------------- MODULE DaemonInstanceProofs -------------------------
(***************************************************************************)
(* Theorems about DaemonInstance, for any number of processes, state       *)
(* directories, crashes and commands: the holder of the lock is the only   *)
(* one that touches the socket's path and its own pid file.                *)
(***************************************************************************)
EXTENDS DaemonInstance, TLAPS

\* From taking the lock to its exit, an atmd holds it.
LockHeld == \A p \in Pids : proc[p] \in Holding => lock = p

Inv == TypeOK /\ LockHeld /\ PathIsOurs /\ PidFileIsOurs

States == {"dead", "stranger", "starting", "locked", "checked", "created",
           "written", "unlinked", "serving", "draining", "ended", "leaving"}

LEMMA StateNames ==
  /\ ProcStates = States
  /\ Holding = States \ {"dead", "stranger", "starting"}
  /\ WithPidFile = {"written", "unlinked", "serving", "draining", "ended"}
  /\ BeforePidFile = {"locked", "checked", "created"}
  /\ Running = {"written", "unlinked", "serving"}
  BY DEF ProcStates, States, Holding, WithPidFile, BeforePidFile, Running

LEMMA InitInv == Init => Inv
  BY DaemonAssumption, StateNames DEF Init, Inv, TypeOK, LockHeld, PathIsOurs, PidFileIsOurs, States

\* A process that ends leaves nothing that Inv says of the others.
LEMMA GoneInv ==
  ASSUME Inv, NEW p \in Pids, Gone(p), tui' = tui,
         mishaps' \in 0..MaxMishaps, UNCHANGED <<dir, sock, pidFile, commands>>,
         stopping' \in Pids \cup {NoPid}
  PROVE  Inv'
  BY DaemonAssumption, StateNames
     DEF Inv, TypeOK, LockHeld, PathIsOurs, PidFileIsOurs, Gone, States

LEMMA AtmdStepInv == ASSUME Inv, NEW p \in Pids, AtmdStep(p) PROVE Inv'
<1> USE DaemonAssumption, StateNames
<1> USE DEF Inv, TypeOK, LockHeld, PathIsOurs, PidFileIsOurs, At, States
<1>1. CASE LockDaemon(p)
  BY <1>1 DEF LockDaemon, LockFree
<1>2. CASE LosesLock(p)
  BY <1>2, GoneInv DEF LosesLock
<1>3. CASE NoneRunning(p)
  BY <1>3 DEF NoneRunning
<1>4. CASE AlreadyRunning(p)
  BY <1>4, GoneInv DEF AlreadyRunning
<1>5. CASE CreatePidFile(p)
  BY <1>5 DEF CreatePidFile
<1>6. CASE WritePid(p)
  BY <1>6 DEF WritePid
<1>7. CASE RemoveOldSocket(p)
  BY <1>7 DEF RemoveOldSocket
<1>8. CASE Bind(p)
  BY <1>8 DEF Bind
<1>9. CASE SetupFails(p)
  BY <1>9 DEF SetupFails, Mishap
<1>10. CASE Cleanup(p)
  BY <1>10 DEF Cleanup
<1>11. CASE Drained(p)
  BY <1>11 DEF Drained
<1>12. CASE RemovePidFile(p)
  BY <1>12 DEF RemovePidFile
<1>13. CASE Exit(p)
  BY <1>13, GoneInv DEF Exit
<1> QED
  BY <1>1, <1>2, <1>3, <1>4, <1>5, <1>6, <1>7, <1>8, <1>9, <1>10, <1>11, <1>12, <1>13
     DEF AtmdStep

LEMMA EndingsInv ==
  ASSUME Inv, NEW p \in Pids,
         ActorDies(p) \/ Crash(p) \/ StrangerStarts(p) \/ StrangerExits(p)
  PROVE  Inv'
<1> USE DaemonAssumption, StateNames
<1> USE DEF Inv, TypeOK, LockHeld, PathIsOurs, PidFileIsOurs, At, Mishap, States
<1>1. CASE ActorDies(p)
  BY <1>1 DEF ActorDies
<1>2. CASE Crash(p)
  BY <1>2, GoneInv DEF Crash
<1>3. CASE StrangerStarts(p)
  BY <1>3 DEF StrangerStarts
<1>4. CASE StrangerExits(p)
  BY <1>4 DEF StrangerExits
<1> QED
  BY <1>1, <1>2, <1>3, <1>4

\* A user's commands: `atmd start`, and the two steps of `atmd stop`.
LEMMA CommandInv ==
  ASSUME Inv,
         \/ \E p \in Pids, d \in Dirs : Start(p, d)
         \/ \E d \in Dirs : StopReads(d)
         \/ StopSignals
  PROVE  Inv'
<1> USE DaemonAssumption, StateNames
<1>1. CASE \E p \in Pids, d \in Dirs : Start(p, d)
  <2> PICK p \in Pids, d \in Dirs : Start(p, d)
    BY <1>1
  <2> QED
    BY DEF Start, Launched, Command, At, Inv, TypeOK, LockHeld, PathIsOurs, PidFileIsOurs, States
<1>2. CASE \E d \in Dirs : StopReads(d)
  BY <1>2 DEF StopReads, Command, Inv, TypeOK, LockHeld, PathIsOurs, PidFileIsOurs
<1>3. CASE StopSignals
  <2> DEFINE q == stopping
  <2>1. q \in Pids
    BY <1>3 DEF StopSignals, Inv, TypeOK
  <2>2. CASE Cancels(q) /\ cancelled' = cancelled \cup {q} /\ UNCHANGED <<proc, lock, peer>>
    BY <1>3, <2>1, <2>2
       DEF StopSignals, Cancels, Inv, TypeOK, LockHeld, PathIsOurs, PidFileIsOurs
  <2>3. CASE Gone(q)
    <3>1. /\ UNCHANGED <<dir, sock, pidFile, tui, mishaps, commands>>
          /\ stopping' = NoPid /\ mishaps \in 0..MaxMishaps
      BY <1>3 DEF StopSignals, Inv, TypeOK
    <3> QED
      BY <2>1, <2>3, <3>1, GoneInv
  <2>4. CASE UNCHANGED <<proc, cancelled, lock, peer>>
    BY <1>3, <2>4 DEF StopSignals, Inv, TypeOK, LockHeld, PathIsOurs, PidFileIsOurs
  <2> QED
    BY <1>3, <2>2, <2>3, <2>4 DEF StopSignals
<1> QED
  BY <1>1, <1>2, <1>3

\* The TUI changes no file: it only starts a process that holds nothing yet.
LEMMA TuiInv ==
  ASSUME Inv, TuiStep \/ \E p \in Pids : TuiSpawns(p)
  PROVE  Inv'
<1> USE DaemonAssumption, StateNames
<1> USE DEF Inv, TypeOK, LockHeld, PathIsOurs, PidFileIsOurs
<1>1. CASE TuiStep
  BY <1>1 DEF TuiStep, TuiConnects, IsSocketListening, TuiConnectFails, Mishap,
              TuiFindsDaemon, TuiWaited, TuiDisconnected
<1>2. CASE \E p \in Pids : TuiSpawns(p)
  <2> PICK p \in Pids : TuiSpawns(p)
    BY <1>2
  <2> QED
    BY DEF TuiSpawns, Launched, Mishap, At, States
<1> QED
  BY <1>1, <1>2

LEMMA NextInv == Inv /\ [Next]_vars => Inv'
<1> SUFFICES ASSUME Inv, [Next]_vars PROVE Inv'
  OBVIOUS
<1>1. CASE Next
  BY <1>1, AtmdStepInv, EndingsInv, CommandInv, TuiInv DEF Next
<1>2. CASE UNCHANGED vars
  BY <1>2 DEF vars, Inv, TypeOK, LockHeld, PathIsOurs, PidFileIsOurs
<1> QED
  BY <1>1, <1>2

\* Inv is an invariant of the daemon's processes, for any constants.
THEOREM Invariance == Spec => []Inv
  BY InitInv, NextInv, PTL DEF Spec

\* Every reachable state is typed; only a daemon that has written its pid
\* file and has not left its accept loop has a cancelled token (`run_daemon`).
THEOREM TypeCorrect == Spec => []TypeOK
<1>1. Inv => TypeOK
  BY DEF Inv
<1> QED
  BY <1>1, Invariance, PTL

\* While a daemon serves, the socket's path leads to it, so at most one
\* serves at a time (`lock_daemon`: the lock is held until process exit).
THEOREM PathAlwaysOurs == Spec => []PathIsOurs
<1>1. Inv => PathIsOurs
  BY DEF Inv
<1> QED
  BY <1>1, Invariance, PTL

\* `atmd stop` and the TUI of a daemon's state directory find the daemon for
\* as long as it runs (`write_pid`, `remove_pid_file`).
THEOREM PidFileAlwaysOurs == Spec => []PidFileIsOurs
<1>1. Inv => PidFileIsOurs
  BY DEF Inv
<1> QED
  BY <1>1, Invariance, PTL

=============================================================================
