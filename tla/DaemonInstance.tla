---------------------------- MODULE DaemonInstance ----------------------------
(***************************************************************************)
(* The life of `atmd` processes around one socket: the lock on             *)
(* `<socket>.lock`, the pid file of each state directory, the socket file, *)
(* `atmd start`, `atmd stop`, and a TUI that starts the daemon whenever it *)
(* cannot connect.                                                         *)
(*                                                                         *)
(* The steps of concurrent starters, of a daemon that shuts down, of       *)
(* `atmd stop` and of the TUI interleave freely; processes crash and their *)
(* pids come back as other daemons or as unrelated programs.               *)
(*                                                                         *)
(* A starter keeps one pid: the fork of `atmd start -d` hands the locked   *)
(* file over, so the starter and its child are one holder of the lock.     *)
(* All daemons here share the socket; each state directory belongs to it.  *)
(***************************************************************************)
EXTENDS Naturals, FiniteSets

CONSTANTS
  Pids,         \* process ids
  NoPid,        \* no process; also a pid file that is missing or empty
  Dirs,         \* state directories, each with a pid file
  tuiDir,       \* the state directory of the TUI
  MaxStrangers, \* bound: pids that unrelated programs have at one time
  MaxMishaps,   \* bound: crashes, failures, connects that time out, strangers
  MaxCommands   \* bound: start and stop commands of users

ASSUME DaemonAssumption ==
  /\ NoPid \notin Pids
  /\ tuiDir \in Dirs
  /\ MaxStrangers \in Nat /\ MaxMishaps \in Nat /\ MaxCommands \in Nat

VARIABLES
  proc,       \* how far each process has come
  dir,        \* the state directory of each atmd
  cancelled,  \* daemons whose cancellation token is cancelled
  lock,       \* the process that holds the lock
  sock,       \* the process that bound the file at the socket's path
  pidFile,    \* what the pid file of each state directory says
  stopping,   \* the pid that an `atmd stop` has read and is about to signal
  tui,        \* what the TUI's connection task does
  peer,       \* the daemon at the other end of its connection
  mishaps, commands

vars == <<proc, dir, cancelled, lock, sock, pidFile, stopping, tui, peer,
          mishaps, commands>>

\* Starters before the lock, with the lock, and with the pid file written.
BeforePidFile == {"locked", "checked", "created"}
WithPidFile == {"written", "unlinked", "serving", "draining", "ended"}
Holding == BeforePidFile \cup WithPidFile \cup {"leaving"}
Running == {"written", "unlinked", "serving"}
ProcStates == {"dead", "stranger", "starting"} \cup Holding

TypeOK ==
  /\ proc \in [Pids -> ProcStates]
  /\ dir \in [Pids -> Dirs]
  /\ cancelled \subseteq {p \in Pids : proc[p] \in Running}
  /\ lock \in Pids \cup {NoPid}
  /\ sock \in Pids \cup {NoPid}
  /\ pidFile \in [Dirs -> Pids \cup {NoPid}]
  /\ stopping \in Pids \cup {NoPid}
  /\ tui \in {"connecting", "checking", "waiting", "connected"}
  /\ peer \in Pids \cup {NoPid}
  /\ peer # NoPid => tui = "connected"
  /\ mishaps \in 0..MaxMishaps /\ commands \in 0..MaxCommands

Init ==
  /\ proc = [p \in Pids |-> "dead"]
  /\ dir = [p \in Pids |-> tuiDir]
  /\ cancelled = {}
  /\ lock = NoPid
  /\ sock = NoPid
  /\ pidFile = [d \in Dirs |-> NoPid]
  /\ stopping = NoPid
  /\ tui = "connecting"
  /\ peer = NoPid
  /\ mishaps = 0
  /\ commands = 0

IsProcessRunning(p) == p # NoPid /\ proc[p] # "dead"

\* What is_daemon_running of atmd finds: whatever process has that number.
IsDaemonRunning(d) == IsProcessRunning(pidFile[d])

\* A connect to the socket's path succeeds, or finds its backlog full.
IsSocketListening == sock # NoPid /\ proc[sock] = "serving"

Mishap == mishaps < MaxMishaps /\ mishaps' = mishaps + 1
Command == commands < MaxCommands /\ commands' = commands + 1

At(p, from, to) ==
  /\ proc[p] = from
  /\ proc' = [proc EXCEPT ![p] = to]

\* The kernel closes a process's files: its lock and its connections go,
\* what it left in the file system stays.
Gone(p) ==
  /\ proc' = [proc EXCEPT ![p] = "dead"]
  /\ cancelled' = cancelled \ {p}
  /\ lock' = IF lock = p THEN NoPid ELSE lock
  /\ peer' = IF peer = p THEN NoPid ELSE peer

-----------------------------------------------------------------------------
(* atmd start *)

Launched(p, d) ==
  /\ At(p, "dead", "starting")
  /\ dir' = [dir EXCEPT ![p] = d]

Start(p, d) ==
  /\ Command
  /\ Launched(p, d)
  /\ UNCHANGED <<cancelled, lock, sock, pidFile, stopping, tui, peer, mishaps>>

\* Faulty: the lock lies in the state directory, not beside the socket.
LockFreeInDir(p) == \A q \in Pids : lock = q => dir[q] # dir[p]

LockFree(p) == lock = NoPid

LockDaemon(p) ==
  /\ LockFree(p)
  /\ At(p, "starting", "locked")
  /\ lock' = p
  /\ UNCHANGED <<dir, cancelled, sock, pidFile, stopping, tui, peer, mishaps, commands>>

\* Faulty: a starter that loses removes the pid file as it exits.
LosesLockTidily(p) ==
  /\ proc[p] = "starting" /\ ~LockFree(p)
  /\ Gone(p)
  /\ pidFile' = [pidFile EXCEPT ![dir[p]] = NoPid]
  /\ UNCHANGED <<dir, sock, stopping, tui, mishaps, commands>>

\* Another atmd holds the lock: exit 1 and touch nothing.
LosesLock(p) ==
  /\ proc[p] = "starting" /\ ~LockFree(p)
  /\ Gone(p)
  /\ UNCHANGED <<dir, sock, pidFile, stopping, tui, mishaps, commands>>

NoneRunning(p) ==
  /\ ~IsDaemonRunning(dir[p])
  /\ At(p, "locked", "checked")
  /\ UNCHANGED <<dir, cancelled, lock, sock, pidFile, stopping, tui, peer, mishaps, commands>>

\* The pid file names a live process, be it a stranger or the starter itself.
AlreadyRunning(p) ==
  /\ proc[p] = "locked" /\ IsDaemonRunning(dir[p])
  /\ Gone(p)
  /\ UNCHANGED <<dir, sock, pidFile, stopping, tui, mishaps, commands>>

\* write_pid truncates the file, then writes to it.
CreatePidFile(p) ==
  /\ At(p, "checked", "created")
  /\ pidFile' = [pidFile EXCEPT ![dir[p]] = NoPid]
  /\ UNCHANGED <<dir, cancelled, lock, sock, stopping, tui, peer, mishaps, commands>>

WritePid(p) ==
  /\ At(p, "created", "written")
  /\ pidFile' = [pidFile EXCEPT ![dir[p]] = p]
  /\ UNCHANGED <<dir, cancelled, lock, sock, stopping, tui, peer, mishaps, commands>>

RemoveOldSocket(p) ==
  /\ At(p, "written", "unlinked")
  /\ sock' = NoPid
  /\ UNCHANGED <<dir, cancelled, lock, pidFile, stopping, tui, peer, mishaps, commands>>

Bind(p) ==
  /\ At(p, "unlinked", "serving")
  /\ sock = NoPid
  /\ sock' = p
  /\ UNCHANGED <<dir, cancelled, lock, pidFile, stopping, tui, peer, mishaps, commands>>

\* Removing or binding the socket fails; bind always does on a used path.
SetupFails(p) ==
  /\ proc[p] \in {"written", "unlinked"}
  /\ \/ proc[p] = "unlinked" /\ sock # NoPid /\ UNCHANGED mishaps
     \/ Mishap
  /\ proc' = [proc EXCEPT ![p] = "ended"]
  /\ cancelled' = cancelled \ {p}
  /\ UNCHANGED <<dir, lock, sock, pidFile, stopping, tui, peer, commands>>

-----------------------------------------------------------------------------
(* The end of a daemon *)

\* The registry actor dies; its supervisor cancels the server.
ActorDies(p) ==
  /\ Mishap
  /\ proc[p] \in Running /\ p \notin cancelled
  /\ cancelled' = cancelled \cup {p}
  /\ UNCHANGED <<proc, dir, lock, sock, pidFile, stopping, tui, peer, commands>>

\* The accept loop ends: connections are cancelled, and the file at the
\* socket's path is removed, whoever bound it.
Cleanup(p) ==
  /\ p \in cancelled
  /\ At(p, "serving", "draining")
  /\ cancelled' = cancelled \ {p}
  /\ sock' = NoPid
  /\ peer' = IF peer = p THEN NoPid ELSE peer
  /\ UNCHANGED <<dir, lock, pidFile, stopping, tui, mishaps, commands>>

\* Handlers that do not end within the drain timeout are aborted.
Drained(p) ==
  /\ At(p, "draining", "ended")
  /\ UNCHANGED <<dir, cancelled, lock, sock, pidFile, stopping, tui, peer, mishaps, commands>>

RemovePidFile(p) ==
  /\ At(p, "ended", "leaving")
  /\ pidFile' = [pidFile EXCEPT ![dir[p]] = NoPid]
  /\ UNCHANGED <<dir, cancelled, lock, sock, stopping, tui, peer, mishaps, commands>>

Exit(p) ==
  /\ proc[p] = "leaving"
  /\ Gone(p)
  /\ UNCHANGED <<dir, sock, pidFile, stopping, tui, mishaps, commands>>

\* A crash at any point. An error that main returns before run_daemon (a
\* failed lock, fork or pid file) leaves the same behind.
Crash(p) ==
  /\ Mishap
  /\ proc[p] \in Holding \cup {"starting"}
  /\ Gone(p)
  /\ UNCHANGED <<dir, sock, pidFile, stopping, tui, commands>>

\* An unrelated program gets the pid of a process that has ended.
StrangerStarts(p) ==
  /\ Mishap
  /\ Cardinality({q \in Pids : proc[q] = "stranger"}) < MaxStrangers
  /\ At(p, "dead", "stranger")
  /\ UNCHANGED <<dir, cancelled, lock, sock, pidFile, stopping, tui, peer, commands>>

StrangerExits(p) ==
  /\ At(p, "stranger", "dead")
  /\ UNCHANGED <<dir, cancelled, lock, sock, pidFile, stopping, tui, peer, mishaps, commands>>

-----------------------------------------------------------------------------
(* atmd stop: it takes no lock, and signals what it read before *)

StopReads(d) ==
  /\ Command
  /\ stopping = NoPid /\ IsDaemonRunning(d)
  /\ stopping' = pidFile[d]
  /\ UNCHANGED <<proc, dir, cancelled, lock, sock, pidFile, tui, peer, mishaps>>

\* A daemon takes SIGTERM as a request to stop once run_daemon listens for
\* it, and dies of it before.
Cancels(p) == proc[p] \in Running
Kills(p) == proc[p] \in BeforePidFile \cup {"starting", "written"}

StopSignals ==
  /\ stopping # NoPid
  /\ stopping' = NoPid
  /\ \/ /\ Cancels(stopping)
        /\ cancelled' = cancelled \cup {stopping}
        /\ UNCHANGED <<proc, lock, peer>>
     \/ Kills(stopping) /\ Gone(stopping)
     \/ /\ ~Cancels(stopping) /\ ~Kills(stopping)
        /\ UNCHANGED <<proc, cancelled, lock, peer>>
  /\ UNCHANGED <<dir, sock, pidFile, tui, mishaps, commands>>

-----------------------------------------------------------------------------
(* The connection task of a TUI *)

TuiConnects ==
  /\ tui = "connecting" /\ IsSocketListening
  /\ tui' = "connected"
  /\ peer' = sock
  /\ UNCHANGED <<proc, dir, cancelled, lock, sock, pidFile, stopping, mishaps, commands>>

\* Nothing listens, or a stalled daemon does not accept in time.
TuiConnectFails ==
  /\ tui = "connecting"
  /\ \/ ~IsSocketListening /\ UNCHANGED mishaps
     \/ Mishap
  /\ tui' = "checking"
  /\ UNCHANGED <<proc, dir, cancelled, lock, sock, pidFile, stopping, peer, commands>>

\* Faulty: a pid file counts, whether or not its process lives.
DaemonSeenByFile == pidFile[tuiDir] # NoPid \/ IsSocketListening

\* The client's is_daemon_running: unlike atmd's, it asks the socket too.
DaemonSeen == IsProcessRunning(pidFile[tuiDir]) \/ IsSocketListening

TuiFindsDaemon ==
  /\ tui = "checking" /\ DaemonSeen
  /\ tui' = "connecting"
  /\ UNCHANGED <<proc, dir, cancelled, lock, sock, pidFile, stopping, peer, mishaps, commands>>

\* Pids go round, so that a starter gets the very number in a stale pid file,
\* and takes itself for the daemon, is a mishap.
TuiSpawns(p) ==
  /\ tui = "checking" /\ ~DaemonSeen
  /\ \/ p # pidFile[tuiDir] /\ UNCHANGED mishaps
     \/ p = pidFile[tuiDir] /\ Mishap
  /\ Launched(p, tuiDir)
  /\ tui' = "waiting"
  /\ UNCHANGED <<cancelled, lock, sock, pidFile, stopping, peer, commands>>

\* The daemon shows up, or three seconds pass without it.
TuiWaited ==
  /\ tui = "waiting"
  /\ tui' = "connecting"
  /\ UNCHANGED <<proc, dir, cancelled, lock, sock, pidFile, stopping, peer, mishaps, commands>>

\* After a short connection the TUI checks for a daemon before it connects.
TuiDisconnected ==
  /\ tui = "connected" /\ peer = NoPid
  /\ tui' \in {"connecting", "checking"}
  /\ UNCHANGED <<proc, dir, cancelled, lock, sock, pidFile, stopping, peer, mishaps, commands>>

-----------------------------------------------------------------------------

AtmdStep(p) ==
  \/ LockDaemon(p) \/ LosesLock(p) \/ NoneRunning(p) \/ AlreadyRunning(p)
  \/ CreatePidFile(p) \/ WritePid(p) \/ RemoveOldSocket(p) \/ Bind(p)
  \/ SetupFails(p) \/ Cleanup(p) \/ Drained(p) \/ RemovePidFile(p) \/ Exit(p)

TuiStep ==
  TuiConnects \/ TuiConnectFails \/ TuiFindsDaemon \/ TuiWaited \/ TuiDisconnected

Next ==
  \/ \E p \in Pids :
       \/ AtmdStep(p) \/ TuiSpawns(p)
       \/ ActorDies(p) \/ Crash(p) \/ StrangerStarts(p) \/ StrangerExits(p)
       \/ \E d \in Dirs : Start(p, d)
  \/ \E d \in Dirs : StopReads(d)
  \/ StopSignals
  \/ TuiStep

Spec == Init /\ [][Next]_vars

\* Processes run on, `atmd stop` included, and so does the TUI.  Users need
\* not start or stop anything, and nothing has to go wrong.
FairSpec ==
  /\ Spec
  /\ \A p \in Pids : WF_vars(AtmdStep(p))
  /\ WF_vars(StopSignals)
  /\ WF_vars(TuiStep \/ \E p \in Pids : TuiSpawns(p))

-----------------------------------------------------------------------------

\* From the removal of the old socket to the end of the accept loop, the
\* socket's path belongs to that one daemon: no other starter, and no daemon
\* on its way out, unlinks or rebinds it (`lock_daemon`, `DaemonServer::run`).
PathIsOurs ==
  \A p \in Pids :
    /\ proc[p] = "unlinked" => sock = NoPid
    /\ proc[p] = "serving" => sock = p

\* A daemon that has written its pid file finds it unchanged until it removes
\* it: losing starters, `atmd stop` and a predecessor that is still exiting
\* leave it alone (`write_pid`, `remove_pid_file`).
PidFileIsOurs ==
  \A p \in Pids : proc[p] \in WithPidFile => pidFile[dir[p]] = p

\* The pid file of the TUI's directory names an unrelated process: neither
\* the TUI nor `atmd start` can tell it from a daemon.
Masked == pidFile[tuiDir] # NoPid /\ proc[pidFile[tuiDir]] = "stranger"

\* After the last crash, failure and stop command the TUI gets a connection
\* and keeps it, unless a stale pid file names an unrelated live process
\* (`DaemonClient::run`, `respawn_daemon`).
TuiRecovers == <>[](tui = "connected" \/ Masked)
=============================================================================
