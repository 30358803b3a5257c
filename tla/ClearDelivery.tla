----------------------------- MODULE ClearDelivery -----------------------------
(***************************************************************************)
(* One agent process that moves from session to session (/clear, an        *)
(* in-process resume) while the daemon runs.  Each frame it reports goes   *)
(* out through a process of its own (atm-hook, or the status line          *)
(* command), so the registry gets the frames of one move in any order.     *)
(* The registry's handlers are SessionRegistry's.                          *)
(***************************************************************************)
EXTENDS SessionRegistry

CONSTANTS
  agent,        \* the pid of the process
  OldFrames,    \* kinds of frames of the session left, on top of its end
  NewFrames,    \* kinds of frames of the session entered, besides its start
  Unseen,       \* may the process move while its row is still pending?
  MaxMoves      \* bound: moves of the process

ASSUME ClearAssumption ==
  /\ agent \in Pids
  /\ OldFrames \cup NewFrames \subseteq {"status", "event"}
  /\ Unseen \in BOOLEAN /\ MaxMoves \in Nat

VARIABLES
  current,   \* the session the process runs
  inflight,  \* the frames of the last move that the registry has not got
  moves,     \* how many moves the process has made
  orderly    \* of the last move: the registry knew the session left, and a hook came
             \* before the status line of the session entered

clearVars == <<vars, current, inflight, moves, orderly>>

Frame == [kind : {"end", "start", "status", "event"}, id : RealIds]

Frames(old, new) ==
  {[kind |-> "end", id |-> old], [kind |-> "start", id |-> new]}
    \cup {[kind |-> k, id |-> old] : k \in OldFrames}
    \cup {[kind |-> k, id |-> new] : k \in NewFrames}

\* The frames of a move arrive before the process moves on again: they are
\* on their way for milliseconds, and moves are a person's commands.  What the
\* row holds after a disorderly move stops no further one.
Move(new) ==
  /\ inflight = {} /\ new # current /\ moves < MaxMoves
  /\ \/ IdAt(agent) = current
     \/ Unseen /\ IdAt(agent) \in PendingIds
     \/ ~ orderly
  /\ orderly' = (IdAt(agent) = current)
  /\ inflight' = Frames(current, new)
  /\ current' = new
  /\ moves' = moves + 1
  /\ UNCHANGED vars

Receive(frame) ==
  LET origin == <<frame.id, agent>>
  IN \/ frame.kind = "end" /\ SessionEnd(origin)
     \/ frame.kind = "start" /\ SessionStart(origin)
     \/ frame.kind = "status" /\ StatusLine(origin)
     \/ frame.kind = "event" /\ OrdinaryEvent(origin, "Working")

\* Neither hook of the move has been handled.
HooksOut == {"end", "start"} \subseteq {f.kind : f \in inflight}

Deliver(frame) ==
  /\ frame \in inflight
  /\ Receive(frame)
  /\ inflight' = inflight \ {frame}
  /\ orderly' = (orderly /\ ~ (frame.kind = "status" /\ frame.id = current /\ HooksOut))
  /\ UNCHANGED <<current, moves>>

\* What the session reports between moves.
SteadyFrame ==
  /\ inflight = {}
  /\ \/ StatusLine(<<current, agent>>)
     \/ OrdinaryEvent(<<current, agent>>, "Working")

\* ENDED_SESSION_TTL, 10 s, is far longer than a frame is on its way.
SettledMarkerExpires ==
  /\ inflight = {}
  /\ \E id \in RealIds : MarkerExpires(<<id, agent>>)

ClearInit ==
  /\ Init
  /\ current \in Reports[agent]
  /\ inflight = {} /\ moves = 0 /\ orderly = TRUE

ClearNext ==
  \/ \E new \in Reports[agent] : Move(new)
  \/ \E frame \in Frame : Deliver(frame)
  \/ /\ SteadyFrame \/ SettledMarkerExpires \/ RegisterDiscovered(agent) \/ CleanupStale
     /\ UNCHANGED <<current, inflight, moves, orderly>>

ClearSpec == ClearInit /\ [][ClearNext]_clearVars

-----------------------------------------------------------------------------
\* MoveLeavesNewRow: once every frame of a move is in, whatever their order,
\* the process has its row, under the session it runs now: what lifecycle.rs
\* says of SessionStart and of the SessionEnd that arrives after it.  The code
\* does not keep it for every move.
MoveLeavesNewRow == inflight = {} /\ moves > 0 => IdAt(agent) = current

\* OrderlyMoveLands: it does for a move from a session the registry knew, if
\* either hook arrives before the status line of the session entered; every
\* other order of the frames, and what became of the moves before, is covered.
OrderlyMoveLands == orderly => MoveLeavesNewRow

\* OldStaysOut: when either hook of such a move has been handled, the row is
\* never again renamed to the session left, whose late status line may still
\* come.
OldStaysOut ==
  [][\A frame \in inflight :
       /\ orderly /\ ~ HooksOut
       /\ frame.kind = "status" /\ frame.id # current
       /\ Deliver(frame)
       => UNCHANGED sessions_by_pid]_clearVars
=============================================================================
