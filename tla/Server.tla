------------------------------- MODULE Server -------------------------------
(***************************************************************************)
(* atmd's socket server (server/mod.rs, server/connection.rs) with many    *)
(* connections, and a TUI's client that reconnects (atm/src/client.rs):    *)
(* the accept queue, the handshake, the subscriber cap, shutdown, and      *)
(* rejections.  What a subscription carries is SubscriberStream's.         *)
(***************************************************************************)
EXTENDS Naturals, FiniteSets

CONSTANTS
  Others,     \* connections of other clients; one starts anew once it is closed
  Ids,        \* client ids; clients choose them, so they repeat
  MaxClients, \* MAX_TUI_CLIENTS
  MaxDelay,   \* the backoff's steps up to retry_max_delay
  MaxStops    \* bound on shutdowns

VARIABLES
  world,  \* [up, paused, conns, entries, stops]: the server
  job     \* [at, delay, told]: the TUI's client

vars == <<world, job>>

Tui == "tui"
Conns == Others \cup {Tui}

--------------------------------------------------------------------------
(* State *)

\* `sub` is what the handler believes, `fwd` the forwarder task, `told` the last reply
\* to a Subscribe, `open` that the client's end is.
Closed == [at |-> "closed", id |-> "none", sub |-> FALSE, fwd |-> FALSE, cancel |-> FALSE,
           told |-> "none", open |-> FALSE]

Init ==
  /\ world = [up |-> "up", paused |-> FALSE, conns |-> [c \in Conns |-> Closed], entries |-> {}, stops |-> 0]
  /\ job = [at |-> "waiting", delay |-> 0, told |-> "none"]

Conn(c) == world.conns[c]
SetConn(c, conn) == world' = [world EXCEPT !.conns[c] = conn]
SetAll(c, conn, entries) == world' = [world EXCEPT !.conns[c] = conn, !.entries = entries]

\* The key of a connection's entry.  The variant takes the client's id.
KeyById(c) == Conn(c).id
SubscriberKey(c) == c

--------------------------------------------------------------------------
(* Accepting *)

\* A connect to a listening socket goes to the queue.
Connects(c) ==
  /\ world.up = "up" /\ Conn(c).at = "closed"
  /\ SetConn(c, [Closed EXCEPT !.at = "queued", !.open = TRUE])
OtherConnects == (\E c \in Others : Connects(c)) /\ UNCHANGED job

Accept(c) ==
  /\ world.up = "up" /\ ~ world.paused /\ Conn(c).at = "queued"
  /\ SetConn(c, [Conn(c) EXCEPT !.at = "handshake"])
  /\ UNCHANGED job
\* The connection stays queued; the loop pauses.
AcceptFails ==
  /\ world.up = "up" /\ ~ world.paused /\ \E c \in Conns : Conn(c).at = "queued"
  /\ world' = [world EXCEPT !.paused = TRUE]
  /\ UNCHANGED job
AcceptResumes ==
  /\ world.paused
  /\ world' = [world EXCEPT !.paused = FALSE]
  /\ UNCHANGED job

--------------------------------------------------------------------------
(* A connection's handler *)

\* Major versions must match; the TUI's does.
IsCompatibleWith(major) == major = 1

HandleHandshake(c) ==
  /\ Conn(c).at = "handshake"
  /\ \E major \in IF c = Tui THEN {1} ELSE {1, 2}, id \in Ids :
       SetConn(c, IF IsCompatibleWith(major)
                  THEN [Conn(c) EXCEPT !.at = "ready", !.id = id]
                  ELSE [Conn(c) EXCEPT !.at = "ending", !.told = "refused"])
  /\ UNCHANGED job

\* The check and the entry are under one lock.
Admitted(c) == Cardinality(world.entries) < MaxClients \/ SubscriberKey(c) \in world.entries
Reads(c) == Conn(c).at = "ready" /\ ~ Conn(c).cancel /\ Conn(c).open
ReadsSubscribe(c) ==
  /\ Reads(c) /\ (c = Tui => Conn(c).told = "none")
  /\ SetConn(c, [Conn(c) EXCEPT !.at = "asking"])
  /\ UNCHANGED job
Subscribe(c) ==
  /\ Conn(c).at = "asking"
  /\ IF Admitted(c)
     THEN SetAll(c, [Conn(c) EXCEPT !.at = "subscribing", !.sub = TRUE], world.entries \cup {SubscriberKey(c)})
     ELSE SetConn(c, [Conn(c) EXCEPT !.at = "ready", !.told = "refused"])
  /\ UNCHANGED job
\* The old forwarder stops, then the list is written: the write may fail, and ends the
\* connection before a forwarder runs.
SubscribeRuns(c) ==
  /\ Conn(c).at = "subscribing"
  /\ \/ SetConn(c, [Conn(c) EXCEPT !.at = "ready", !.told = "list", !.fwd = ~ Conn(c).cancel])
     \/ SetConn(c, [Conn(c) EXCEPT !.at = "ending", !.fwd = FALSE])
  /\ UNCHANGED job
Unsubscribe(c) ==
  /\ Reads(c) /\ c # Tui /\ Conn(c).sub
  /\ SetConn(c, [Conn(c) EXCEPT !.at = "unsubscribing", !.fwd = FALSE])
  /\ UNCHANGED job
UnsubscribeRuns(c) ==
  /\ Conn(c).at = "unsubscribing"
  /\ SetAll(c, [Conn(c) EXCEPT !.at = "ready", !.sub = FALSE], world.entries \ {SubscriberKey(c)})
  /\ UNCHANGED job

\* A lag or a write timeout: the forwarder cancels its whole connection.
ForwarderFails(c) ==
  /\ Conn(c).fwd
  /\ SetConn(c, [Conn(c) EXCEPT !.fwd = FALSE, !.cancel = TRUE])
  /\ UNCHANGED job
\* Cancelled, at the end of its input, idle without a subscription, or out of step.
HandlerEnds(c) ==
  /\ Conn(c).at \in {"ready", "handshake"}
  /\ \/ Conn(c).at = "ready" /\ Conn(c).cancel
     \/ ~ Conn(c).open
     \/ c # Tui /\ ~ Conn(c).sub
  /\ SetConn(c, [Conn(c) EXCEPT !.at = "ending"])
  /\ UNCHANGED job
\* run() drops the handler, and with it the forwarder; then the entry goes.
HandlerDrops(c) ==
  /\ Conn(c).at = "ending"
  /\ SetConn(c, [Conn(c) EXCEPT !.at = "leaving", !.fwd = FALSE])
  /\ UNCHANGED job
HandlerLeaves(c) ==
  /\ Conn(c).at = "leaving"
  /\ SetAll(c, [Conn(c) EXCEPT !.at = "closed", !.open = FALSE], world.entries \ {SubscriberKey(c)})
  /\ UNCHANGED job

OtherCloses(c) ==
  /\ c # Tui /\ Conn(c).open
  /\ SetConn(c, [Conn(c) EXCEPT !.open = FALSE])
  /\ UNCHANGED job

--------------------------------------------------------------------------
(* Shutdown *)

Cancelled(conn) == IF conn.at = "closed" THEN conn ELSE [conn EXCEPT !.cancel = TRUE]
Stop ==
  /\ world.up = "up" /\ world.stops < MaxStops
  /\ world' = [world EXCEPT !.up = "stopping", !.stops = @ + 1, !.paused = FALSE,
                            !.conns = [c \in Conns |-> Cancelled(world.conns[c])]]
  /\ UNCHANGED job
Cleanup ==
  /\ world.up = "stopping"
  /\ world' = [world EXCEPT !.up = "draining", !.entries = {}]
  /\ UNCHANGED job
\* What an abort leaves of a connection: nothing, its forwarder dropped with it.
Aborted(conn) == Closed
\* After two seconds the handlers still running are aborted.
DrainConnections ==
  /\ world.up = "draining"
  /\ world' = [world EXCEPT !.up = "down", !.entries = {},
                            !.conns = [c \in Conns |-> IF Conn(c).at = "closed" THEN Conn(c) ELSE Aborted(Conn(c))]]
  /\ UNCHANGED job
Restart ==
  /\ world.up = "down"
  /\ world' = [world EXCEPT !.up = "up", !.conns = [c \in Conns |-> Closed]]
  /\ UNCHANGED job

--------------------------------------------------------------------------
(* The TUI's client: connect, subscribe, and again after a delay *)

TuiConnects ==
  /\ job.at = "waiting"
  /\ Connects(Tui)
  /\ job' = [job EXCEPT !.at = "connected"]
\* A refusal, of the version or of the subscription, ends the connection on this side.
TuiRefused ==
  /\ job.at = "connected" /\ Conn(Tui).told = "refused" /\ Conn(Tui).open
  /\ SetConn(Tui, [Conn(Tui) EXCEPT !.open = FALSE])
  /\ job' = [job EXCEPT !.told = "refused"]
\* The delay carries over short connections; one as long as the longest delay resets it.
Grown(delay) == IF delay < MaxDelay THEN delay + 1 ELSE delay
\* The variant gives up once it was refused.
EndsWhenRefused(told) == IF told = "refused" THEN "given up" ELSE "waiting"
AfterEnd(told) == "waiting"
TuiDisconnected ==
  /\ job.at = "connected" /\ Conn(Tui).at = "closed"
  /\ \E long \in IF Conn(Tui).told = "list" THEN BOOLEAN ELSE {FALSE} :
       job' = [job EXCEPT !.at = AfterEnd(job.told), !.delay = IF long THEN 0 ELSE Grown(@), !.told = "none"]
  /\ UNCHANGED world

Handler(c) ==
  Accept(c) \/ HandleHandshake(c) \/ Subscribe(c) \/ SubscribeRuns(c) \/ UnsubscribeRuns(c)
    \/ (Conn(c).at \in {"ready", "handshake"} /\ (Conn(c).cancel \/ ~ Conn(c).open) /\ HandlerEnds(c))
    \/ HandlerDrops(c) \/ HandlerLeaves(c)
TuiSteps == TuiConnects \/ ReadsSubscribe(Tui) \/ TuiRefused \/ TuiDisconnected

Next ==
  \/ OtherConnects \/ AcceptFails \/ AcceptResumes \/ Stop \/ Cleanup \/ DrainConnections \/ Restart
  \/ TuiConnects \/ TuiRefused \/ TuiDisconnected
  \/ \E c \in Conns :
       \/ Accept(c) \/ HandleHandshake(c) \/ ReadsSubscribe(c) \/ Subscribe(c) \/ SubscribeRuns(c)
       \/ Unsubscribe(c) \/ UnsubscribeRuns(c) \/ ForwarderFails(c) \/ HandlerEnds(c) \/ HandlerDrops(c)
       \/ HandlerLeaves(c) \/ OtherCloses(c)

\* Accepting fails now and then, not forever.
Fairness ==
  /\ WF_vars(AcceptResumes) /\ WF_vars(Cleanup) /\ WF_vars(DrainConnections) /\ WF_vars(Restart)
  /\ \A c \in Conns : SF_vars(Accept(c)) /\ WF_vars(Handler(c))
  /\ WF_vars(TuiSteps)
Spec == Init /\ [][Next]_vars /\ Fairness

--------------------------------------------------------------------------
(* Properties *)

\* Types.
ConnStates ==
  [at : {"closed", "queued", "handshake", "ready", "asking", "subscribing", "unsubscribing", "ending", "leaving"},
   id : Ids \cup {"none"}, sub : BOOLEAN, fwd : BOOLEAN, cancel : BOOLEAN,
   told : {"none", "list", "refused"}, open : BOOLEAN]
TypeOK ==
  /\ world \in [up : {"up", "stopping", "draining", "down"}, paused : BOOLEAN, conns : [Conns -> ConnStates],
               entries : SUBSET Conns, stops : Nat]
  /\ job \in [at : {"waiting", "connected"}, delay : Nat, told : {"none", "refused"}]

\* The subscriber cap as Places states it: a forwarder runs, unless its connection is
\* cancelled, only while its connection holds one of the places; and no shutdown leaves
\* one running.
Served == {c \in Conns : Conn(c).fwd /\ ~ Conn(c).cancel}
Cap == INSTANCE Places WITH Clients <- Conns, Size <- MaxClients, holders <- world.entries, served <- Served
PlacesKept == Cap!Spec

\* A TUI that was refused goes on trying: again and again it is subscribed, or other
\* clients hold every place.
TuiIsIn == Conn(Tui).told = "list" \/ Cardinality(world.entries) >= MaxClients
TuiGetsIn == []<>TuiIsIn
=============================================================================
