---------------------------- MODULE SubscriberStream ----------------------------
(***************************************************************************)
(* How the session list of a TUI follows the registry: the actor publishes *)
(* events on a broadcast channel, the connection's handler subscribes,     *)
(* takes a snapshot and writes it, a forwarder then writes the events      *)
(* after it, and the client applies what it reads.  The socket keeps order *)
(* and loses nothing, but it is cut when the client is too slow, and both  *)
(* ends may go away at any time.  The registry is reduced to the views it  *)
(* shows: what a command changes, it publishes afterwards, event by event. *)
(***************************************************************************)
EXTENDS Naturals, Sequences

CONSTANTS
  Ids, Views, NoView,
  EventBuffer,   \* EVENT_BUFFER: events a receiver may have unread
  SocketBuffer,  \* messages that fit in the socket before a write blocks
  MaxCommands,   \* bound: commands that change a session
  MaxBreaks,     \* bound: failures of a connection or of the daemon
  MaxRequests    \* bound: requests to change a running subscription

ASSUME StreamAssumption ==
  /\ NoView \notin Views
  /\ EventBuffer \in Nat \ {0} /\ SocketBuffer \in Nat \ {0}
  /\ MaxCommands \in Nat /\ MaxBreaks \in Nat /\ MaxRequests \in Nat

VARIABLES
  sessions,  \* what the registry holds
  outbox,    \* the events of the actor's current command, not yet published
  events,    \* what the subscription's receiver has not read yet
  lagged,    \* has that receiver lost events?
  handler,   \* how far the connection's handler is
  snapshot,  \* the session list that the handler has in hand
  cancelled, \* has the connection been cancelled?
  wire,      \* the messages in the socket
  client,    \* is the client connected?
  list,      \* the sessions that the client shows
  commands, breaks, requests

registry == <<sessions, outbox, commands>>
server == <<handler, snapshot, events, lagged, cancelled>>
tui == <<client, list>>
vars == <<registry, server, tui, wire, breaks, requests>>

Lists == [Ids -> Views \cup {NoView}]
Empty == [id \in Ids |-> NoView]

\* An update of a session, or with NoView its removal.
Event(id, view) == [kind |-> "event", id |-> id, view |-> view]
SessionList(sl) == [kind |-> "list", sessions |-> sl]

Events == [kind : {"event"}, id : Ids, view : Views \cup {NoView}]
Messages == Events \cup [kind : {"list"}, sessions : Lists]

\* How far the handler is: no connection; connected; subscribed to the
\* events; holding the snapshot; forwarding events after it.
Stages == {"closed", "open", "attached", "listed", "forwarding"}

\* Faulty: subscribes only once the list has been sent.
AttachedLate == handler = "forwarding"

Attached == handler \in {"attached", "listed", "forwarding"}

-----------------------------------------------------------------------------
(* The registry's side *)

\* The actor runs a command: it changes what it holds and then publishes es.
Command(held, es) ==
  /\ outbox = <<>> /\ commands < MaxCommands
  /\ sessions' = held
  /\ outbox' = es
  /\ commands' = commands + 1
  /\ UNCHANGED <<server, tui, wire, breaks, requests>>

Update(id, view) ==
  Command([sessions EXCEPT ![id] = view], <<Event(id, view)>>)

Remove(id) ==
  /\ sessions[id] # NoView
  /\ Command([sessions EXCEPT ![id] = NoView], <<Event(id, NoView)>>)

\* A session takes another id.
Rename(old, new) ==
  /\ sessions[old] # NoView /\ sessions[new] = NoView
  /\ Command([sessions EXCEPT ![old] = NoView, ![new] = sessions[old]],
             <<Event(old, NoView), Event(new, sessions[old])>>)

\* The broadcast channel: a receiver that is too far behind loses its oldest.
Publish ==
  /\ outbox # <<>>
  /\ outbox' = Tail(outbox)
  /\ LET all == Append(events, Head(outbox))
     IN IF ~Attached THEN UNCHANGED <<events, lagged>>
        ELSE IF Len(events) < EventBuffer THEN events' = all /\ UNCHANGED lagged
        ELSE events' = Tail(all) /\ lagged' = TRUE
  /\ UNCHANGED <<sessions, commands, handler, snapshot, cancelled, tui, wire,
                 breaks, requests>>

-----------------------------------------------------------------------------
(* The connection's handler and its forwarder *)

\* The receiver starts with the events published from now on.
Receiver == events' = <<>> /\ lagged' = FALSE

Subscribe ==
  /\ handler = "open"
  /\ handler' = "attached"
  /\ Receiver
  /\ UNCHANGED <<snapshot, cancelled, registry, tui, wire, breaks, requests>>

\* A second Subscribe stops the forwarder and starts over.
Resubscribe ==
  /\ handler = "forwarding" /\ client = "connected" /\ requests < MaxRequests
  /\ requests' = requests + 1
  /\ handler' = "attached"
  /\ Receiver
  /\ UNCHANGED <<snapshot, cancelled, registry, tui, wire, breaks>>

Unsubscribe ==
  /\ handler = "forwarding" /\ client = "connected" /\ requests < MaxRequests
  /\ requests' = requests + 1
  /\ handler' = "open"
  /\ Receiver
  /\ UNCHANGED <<snapshot, cancelled, registry, tui, wire, breaks>>

\* get_all_sessions is a command too: the actor answers between two others.
TakeSnapshot ==
  /\ handler = "attached" /\ outbox = <<>>
  /\ handler' = "listed"
  /\ snapshot' = sessions
  /\ UNCHANGED <<events, lagged, cancelled, registry, tui, wire, breaks, requests>>

Write(message) ==
  /\ Len(wire) < SocketBuffer
  /\ wire' = Append(wire, message)

SendList ==
  /\ handler = "listed"
  /\ Write(SessionList(snapshot))
  /\ handler' = "forwarding"
  /\ UNCHANGED <<snapshot, events, lagged, cancelled, registry, tui, breaks, requests>>

\* A forwarder of a cancelled connection stops before the next event.
Forward ==
  /\ handler = "forwarding" /\ ~cancelled /\ ~lagged
  /\ events # <<>>
  /\ Write(Head(events))
  /\ events' = Tail(events)
  /\ UNCHANGED <<handler, snapshot, lagged, cancelled, registry, tui, breaks, requests>>

\* Faulty: goes on with the events that are left.
ForwarderSkips ==
  /\ handler = "forwarding" /\ lagged
  /\ lagged' = FALSE
  /\ UNCHANGED <<handler, snapshot, events, cancelled, registry, tui, wire, breaks, requests>>

ForwarderLags ==
  /\ handler = "forwarding" /\ lagged
  /\ cancelled' = TRUE
  /\ UNCHANGED <<handler, snapshot, events, lagged, registry, tui, wire, breaks, requests>>

\* A write that finds the socket full for WRITE_TIMEOUT.
ForwarderTimesOut ==
  /\ handler = "forwarding" /\ events # <<>> /\ Len(wire) = SocketBuffer
  /\ breaks < MaxBreaks
  /\ breaks' = breaks + 1
  /\ cancelled' = TRUE
  /\ UNCHANGED <<handler, snapshot, events, lagged, registry, tui, wire, requests>>

Close == handler' = "closed" /\ cancelled' = FALSE /\ Receiver /\ UNCHANGED snapshot

\* The handler notices the cancellation between two requests.
HandlerStops ==
  /\ cancelled /\ handler \in {"open", "forwarding"}
  /\ Close
  /\ UNCHANGED <<registry, tui, wire, breaks, requests>>

\* The handler ends by itself: an idle timeout or a reply that timed out.
HandlerFails ==
  /\ handler # "closed" /\ breaks < MaxBreaks
  /\ breaks' = breaks + 1
  /\ Close
  /\ UNCHANGED <<registry, tui, wire, requests>>

\* The daemon crashes, or is stopped, and starts again with no sessions.
DaemonRestarts ==
  /\ breaks < MaxBreaks
  /\ breaks' = breaks + 1
  /\ sessions' = Empty /\ outbox' = <<>>
  /\ Close
  /\ UNCHANGED <<commands, tui, wire, requests>>

-----------------------------------------------------------------------------
(* The client *)

\* The handshake, which the Subscribe request follows at once.
Connect ==
  /\ client = "away" /\ handler = "closed"
  /\ client' = "connected" /\ handler' = "open"
  /\ UNCHANGED <<list, snapshot, events, lagged, cancelled, registry, wire, breaks, requests>>

\* What the client shows once it has applied a message.
Applied(shown, message) ==
  IF message.kind = "list" THEN message.sessions
  ELSE [shown EXCEPT ![message.id] = message.view]

Receive ==
  /\ client = "connected" /\ wire # <<>>
  /\ list' = Applied(list, Head(wire))
  /\ wire' = Tail(wire)
  /\ UNCHANGED <<client, registry, server, breaks, requests>>

\* The client reads what was written before the daemon closed its end.
Eof ==
  /\ client = "connected" /\ handler = "closed" /\ wire = <<>>
  /\ client' = "away"
  /\ UNCHANGED <<list, registry, server, wire, breaks, requests>>

\* The client gives up the connection (a timeout, an I/O error).
Leave ==
  /\ client = "connected" /\ breaks < MaxBreaks
  /\ breaks' = breaks + 1
  /\ client' = "away" /\ wire' = <<>>
  /\ Close
  /\ UNCHANGED <<list, registry, requests>>

Init ==
  /\ sessions = Empty /\ outbox = <<>>
  /\ events = <<>> /\ lagged = FALSE
  /\ handler = "closed" /\ snapshot = Empty /\ cancelled = FALSE
  /\ wire = <<>>
  /\ client = "away" /\ list = Empty
  /\ commands = 0 /\ breaks = 0 /\ requests = 0

Next ==
  \/ \E id \in Ids, view \in Views : Update(id, view)
  \/ \E id \in Ids : Remove(id)
  \/ \E old, new \in Ids : Rename(old, new)
  \/ Publish
  \/ Subscribe \/ Resubscribe \/ Unsubscribe \/ TakeSnapshot \/ SendList
  \/ Forward \/ ForwarderLags \/ ForwarderTimesOut
  \/ HandlerStops \/ HandlerFails \/ DaemonRestarts
  \/ Connect \/ Receive \/ Eof \/ Leave

Spec == Init /\ [][Next]_vars

(***************************************************************************)
(* Every task of the daemon and of the client that can go on does: the     *)
(* runtime schedules it.  The client keeps reading and reconnects with     *)
(* backoff for as long as it runs.  Commands and failures owe nothing.     *)
(***************************************************************************)
Fairness ==
  /\ WF_vars(Publish)
  /\ WF_vars(Subscribe) /\ WF_vars(TakeSnapshot) /\ WF_vars(SendList)
  /\ WF_vars(Forward) /\ WF_vars(ForwarderLags) /\ WF_vars(HandlerStops)
  /\ WF_vars(Connect) /\ WF_vars(Receive) /\ WF_vars(Eof)

FairSpec == Spec /\ Fairness

-----------------------------------------------------------------------------
(* Properties *)

\* TypeOK: every queue holds messages of its kind and no more than fit.
TypeOK ==
  /\ sessions \in Lists /\ snapshot \in Lists /\ list \in Lists
  /\ outbox \in Seq(Events) /\ events \in Seq(Events) /\ wire \in Seq(Messages)
  /\ Len(events) <= EventBuffer /\ Len(wire) <= SocketBuffer
  /\ lagged \in BOOLEAN /\ cancelled \in BOOLEAN
  /\ handler \in Stages /\ client \in {"away", "connected"}
  /\ commands \in 0..MaxCommands /\ breaks \in 0..MaxBreaks
  /\ requests \in 0..MaxRequests

\* All that the client has yet to apply, in the order it will.
Ahead == wire \o events \o outbox

Tells(message, id) == message.kind = "list" \/ message.id = id

\* What the client will show of id once it has applied all that is ahead.
LastWord(id) ==
  LET telling == {i \in DOMAIN Ahead : Tells(Ahead[i], id)}
      last == CHOOSE i \in telling : \A j \in telling : j <= i
  IN IF telling = {} THEN list[id] ELSE Applied(list, Ahead[last])[id]

\* NothingLost: while a subscription runs that has not lagged, the last that
\* the client is still to read about a session, else what it shows already,
\* is what the registry holds: no event falls between the receiver and the
\* snapshot, and no older event is applied after a newer one.
NothingLost ==
  handler = "forwarding" /\ client = "connected" /\ ~lagged
    => \A id \in Ids : LastWord(id) = sessions[id]

\* StreamSound: the queues stay typed and within their bounds (TypeOK), and
\* nothing is lost or overtaken between the registry and the client's list.
StreamSound == TypeOK /\ NothingLost

\* Converges: once sessions stop changing and connections stop failing, the
\* client ends up showing exactly the registry's sessions, whatever lags,
\* cut connections and restarts there were.
Converges == <>[](list = sessions)

=============================================================================
