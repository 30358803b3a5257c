---------------------------- MODULE PiExtension -----------------------------
(***************************************************************************)
(* pi-atm (extensions/pi-atm/extensions/pi-atm.ts), the extension that     *)
(* forwards pi's events to atmd over one lasting socket: its bounded       *)
(* outbox, back-pressure, reconnects with a back-off, and the wrapped      *)
(* `ui.select`.  Everything runs on Node's event loop, one handler at a    *)
(* time; the socket and the daemon move between handlers.                  *)
(*                                                                         *)
(* An event is the number under which pi fired it.  Line 0 is the          *)
(* handshake.                                                              *)
(***************************************************************************)
EXTENDS Naturals, Sequences, FiniteSets

CONSTANTS
  OutboxMax,   \* OUTBOX_MAX, 256 in the code
  HighWater,   \* lines Node buffers before write() returns false
  MaxEvents,   \* bound on events fired
  MaxSockets   \* bound on connections opened

VARIABLES
  ext,      \* the module's variables
  socks,    \* Node's sockets, in the order created
  daemon    \* up, its socket file, and the lines it has read

vars == <<ext, socks, daemon>>

\* activeSocket and pendingSocket are indices into `socks`, 0 for null.
Init ==
  /\ ext = [fired |-> 0, active |-> 0, pending |-> 0, paused |-> FALSE, backoff |-> FALSE,
            outbox |-> <<>>, uiBound |-> FALSE, patched |-> FALSE, dialog |-> FALSE]
  /\ socks = <<>>
  /\ daemon = [up |-> TRUE, file |-> TRUE, read |-> <<>>]

--------------------------------------------------------------------------
(* Node's sockets: "connecting", "open", "broken" (the peer is gone, Node does not know  *)
(* yet) or "closed"; `wants` is that a write returned false and a drain event is due.    *)

Full(socket) == Len(socket.buffer) >= HighWater

Write(ss, k, lines) ==
  LET wrote == [ss EXCEPT ![k].buffer = @ \o lines]
  IN  [wrote EXCEPT ![k].wants = @ \/ (lines # <<>> /\ Full(wrote[k]))]

\* Drops the oldest line when full.
Enqueue(box, line) == IF Len(box) < OutboxMax THEN Append(box, line) ELSE Append(Tail(box), line)

\* Writes lines of the outbox until a write returns false.
FlushOutboxTo(e, ss, k) ==
  LET room == IF Len(ss[k].buffer) + 1 >= HighWater THEN 1 ELSE HighWater - Len(ss[k].buffer)
      n == IF room < Len(e.outbox) THEN room ELSE Len(e.outbox)
      wrote == Write(ss, k, SubSeq(e.outbox, 1, n))
  IN  [e |-> [e EXCEPT !.outbox = SubSeq(@, n + 1, Len(@)), !.paused = @ \/ (n > 0 /\ Full(wrote[k]))],
       ss |-> wrote]

OpenSocket(e, ss) ==
  IF e.active # 0 \/ e.pending # 0 \/ ~ daemon.file \/ Len(ss) = MaxSockets THEN [e |-> e, ss |-> ss]
  ELSE [e |-> [e EXCEPT !.pending = Len(ss) + 1],
        ss |-> Append(ss, [state |-> "connecting", buffer |-> <<>>, wants |-> FALSE])]

\* No usable socket: queues, opening one when there is none.  In the back-off after a
\* connection ended the line is dropped.
SendLater(e, ss, line) ==
  IF e.pending # 0 THEN [e |-> [e EXCEPT !.outbox = Enqueue(@, line)], ss |-> ss]
  ELSE IF ~ e.backoff THEN OpenSocket([e EXCEPT !.outbox = Enqueue(@, line)], ss)
  ELSE [e |-> e, ss |-> ss]

\* Takes no notice of the back-pressure.
SendUnpaused(e, ss, line) ==
  LET wrote == Write(ss, e.active, <<line>>)
  IN  IF e.active # 0
        THEN [e |-> [e EXCEPT !.paused = @ \/ Full(wrote[e.active])], ss |-> wrote]
      ELSE SendLater(e, ss, line)

Send(e, ss, line) ==
  LET wrote == Write(ss, e.active, <<line>>)
  IN  IF e.active # 0 /\ e.paused
        THEN [e |-> [e EXCEPT !.outbox = Enqueue(@, line)], ss |-> ss]
      ELSE IF e.active # 0
        THEN [e |-> [e EXCEPT !.paused = Full(wrote[e.active])], ss |-> wrote]
      ELSE SendLater(e, ss, line)

--------------------------------------------------------------------------
(* pi *)

\* pi fires an event and `e` is the module after what the handler does before it sends.
Sends(e) ==
  LET sent == Send([e EXCEPT !.fired = @ + 1], socks, e.fired + 1)
  IN  /\ e.fired < MaxEvents
      /\ ext' = sent.e /\ socks' = sent.ss
      /\ UNCHANGED daemon

\* The handler of FORWARDED_EVENTS wraps ui.select at the first event that finds it bound.
EventFires == Sends([ext EXCEPT !.patched = @ \/ ext.uiBound])
UiBinds == ~ ext.uiBound /\ ext' = [ext EXCEPT !.uiBound = TRUE] /\ UNCHANGED <<socks, daemon>>

\* The wrapped select reports before and, in its `finally`, after the dialog.
SelectOpens == ext.patched /\ ~ ext.dialog /\ Sends([ext EXCEPT !.dialog = TRUE])
SelectSettles == ext.dialog /\ Sends([ext EXCEPT !.dialog = FALSE])

--------------------------------------------------------------------------
(* The sockets' handlers *)

Connects(k) ==
  /\ socks[k].state = "connecting" /\ daemon.up
  /\ LET e == [ext EXCEPT !.pending = 0, !.active = k, !.paused = FALSE]
         shaken == Write([socks EXCEPT ![k].state = "open"], k, <<0>>)
         flushed == FlushOutboxTo([e EXCEPT !.paused = Full(shaken[k])], shaken, k)
     IN  ext' = flushed.e /\ socks' = flushed.ss
  /\ UNCHANGED daemon

\* Node's buffer has emptied after a write returned false.
DrainsStuck(k) ==
  /\ socks[k].state = "open" /\ socks[k].wants /\ socks[k].buffer = <<>>
  /\ LET emptied == [socks EXCEPT ![k].wants = FALSE]
         flushed == FlushOutboxTo(ext, emptied, k)
     IN  IF ext.active = k THEN ext' = flushed.e /\ socks' = flushed.ss
         ELSE socks' = emptied /\ UNCHANGED ext
  /\ UNCHANGED daemon

Drains(k) ==
  /\ socks[k].state = "open" /\ socks[k].wants /\ socks[k].buffer = <<>>
  /\ LET emptied == [socks EXCEPT ![k].wants = FALSE]
         flushed == FlushOutboxTo([ext EXCEPT !.paused = FALSE], emptied, k)
     IN  IF ext.active = k THEN ext' = flushed.e /\ socks' = flushed.ss
         ELSE socks' = emptied /\ UNCHANGED ext
  /\ UNCHANGED daemon

\* A broken socket, or one whose connect fails (`error`, then `close`).
Closes(k) ==
  /\ \/ socks[k].state = "broken"
     \/ socks[k].state = "connecting" /\ ~ daemon.up
  /\ socks' = [socks EXCEPT ![k] = [state |-> "closed", buffer |-> <<>>, wants |-> FALSE]]
  /\ ext' = [ext EXCEPT !.pending = IF @ = k THEN 0 ELSE @,
                        !.active = IF @ = k THEN 0 ELSE @,
                        !.paused = IF ext.active = k THEN FALSE ELSE @,
                        !.backoff = TRUE]
  /\ UNCHANGED daemon

BackoffEnds == ext.backoff /\ ext' = [ext EXCEPT !.backoff = FALSE] /\ UNCHANGED <<socks, daemon>>

--------------------------------------------------------------------------
(* The daemon *)

Reads(k) ==
  /\ socks[k].state = "open" /\ socks[k].buffer # <<>>
  /\ daemon' = [daemon EXCEPT !.read = Append(@, <<k, Head(socks[k].buffer)>>)]
  /\ socks' = [socks EXCEPT ![k].buffer = Tail(@)]
  /\ UNCHANGED ext

\* The 300 s idle limit, or a shutdown.
ClosesConnection(k) ==
  /\ socks[k].state = "open"
  /\ socks' = [socks EXCEPT ![k].state = "broken"]
  /\ UNCHANGED <<ext, daemon>>

\* A crash leaves the socket file, a stop removes it.
Dies ==
  /\ daemon.up
  /\ \E file \in BOOLEAN : daemon' = [daemon EXCEPT !.up = FALSE, !.file = file]
  /\ socks' = [k \in DOMAIN socks |->
                 IF socks[k].state = "open" THEN [socks[k] EXCEPT !.state = "broken"] ELSE socks[k]]
  /\ UNCHANGED ext
Starts == ~ daemon.up /\ daemon' = [daemon EXCEPT !.up = TRUE, !.file = TRUE] /\ UNCHANGED <<ext, socks>>

Next ==
  \/ EventFires \/ UiBinds \/ SelectOpens \/ SelectSettles \/ BackoffEnds \/ Dies \/ Starts
  \/ \E k \in DOMAIN socks :
       Connects(k) \/ Drains(k) \/ Closes(k) \/ Reads(k) \/ ClosesConnection(k)

\* Node runs its handlers, the daemon reads; pi need not fire, the daemon not start.
Settles(k) == Drains(k) \/ Closes(k) \/ Reads(k)
Fairness == \A k \in 1 .. MaxSockets : WF_vars(k \in DOMAIN socks /\ Settles(k))

Spec == Init /\ [][Next]_vars /\ Fairness

--------------------------------------------------------------------------
(* Properties *)

\* What atmd reads is in the order pi fired it, across pauses, reconnects and overflow:
\* a direct write never overtakes the outbox, nor does a new connection an old one.
ReadInOrder ==
  \A i, j \in DOMAIN daemon.read :
    i < j /\ daemon.read[i][2] # 0 /\ daemon.read[j][2] # 0 => daemon.read[i][2] < daemon.read[j][2]

\* A slow or wedged daemon never makes Node's heap grow: what it has not read waits in the
\* bounded outbox.
HeapBounded ==
  /\ Len(ext.outbox) <= OutboxMax
  /\ \A k \in DOMAIN socks : Len(socks[k].buffer) <= HighWater + 1

\* A pause ends: by a drain, or with its socket.
PauseEnds == ext.paused ~> ~ ext.paused
=============================================================================
