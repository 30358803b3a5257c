--------------------------- MODULE AttentionNotifier ---------------------------
(***************************************************************************)
(* The notifier of atmd (crates/atmd/src/notify.rs): it listens to the     *)
(* registry's events and runs the user's command when a session starts     *)
(* needing input, at once or after a delay if it still does.  A dialog is  *)
(* one stretch of a session needing input, numbered per session; the       *)
(* numbers are history, the code has only its own count of stretches.      *)
(***************************************************************************)
EXTENDS Naturals, Sequences

CONSTANTS
  Ids,
  EventBuffer,  \* EVENT_BUFFER: events the notifier may have unread
  MaxDialogs,   \* bound: MaxDialogs[id] dialogs of session id
  MaxRepeats    \* bound: other changes of the sessions

ASSUME NotifierAssumption ==
  /\ EventBuffer \in Nat \ {0}
  /\ MaxDialogs \in [Ids -> Nat] /\ MaxRepeats \in Nat

VARIABLES
  delayed,       \* is delay_secs more than 0?  Read once, at the start
  waiting,       \* the sessions that need input
  dialog,        \* dialog[id]: the number of dialogs id has had
  repeats,
  events,        \* what the notifier's receiver has not read
  lagged,        \* has it lost events since it last found out?
  in_attention,  \* AttentionTracker: a session's open stretch, 0 for none
  last_stretch,  \* AttentionTracker: the stretches so far
  sleeping,      \* the notifications whose delay runs
  due,           \* the notifications whose delay is over, in that order
  heard,         \* history: id's open dialog by the events read, else 0
  lags,          \* history: how often the notifier found it had lost events
  runs           \* history: how often the command ran, per session and dialog

harness == <<delayed, waiting, dialog, repeats>>
channel == <<events, lagged>>
tracker == <<in_attention, last_stretch>>
history == <<heard, lags, runs>>
vars == <<harness, channel, tracker, sleeping, due, history>>

Numbers == UNION {0..MaxDialogs[id] : id \in Ids}
Dialogs == {k \in Ids \X Numbers : k[2] \in 1..MaxDialogs[k[1]]}

\* What an event says of a session: it needs input, it does not, or it has
\* just been registered or removed.
Says == {"attention", "other", "reset"}
Events == [id : Ids, says : Says, dialog : Numbers]

Notifications == [id : Ids, stretch : Nat, dialog : Numbers]

-----------------------------------------------------------------------------
(* The registry's side: it publishes every change of a session             *)

Publish(event) ==
  /\ UNCHANGED <<delayed, tracker, sleeping, due, history>>
  /\ IF Len(events) < EventBuffer
     THEN events' = Append(events, event) /\ UNCHANGED lagged
     ELSE events' = Append(Tail(events), event) /\ lagged' = TRUE

DialogOpens(id) ==
  /\ id \notin waiting /\ dialog[id] < MaxDialogs[id]
  /\ waiting' = waiting \cup {id}
  /\ dialog' = [dialog EXCEPT ![id] = @ + 1]
  /\ UNCHANGED repeats
  /\ Publish([id |-> id, says |-> "attention", dialog |-> dialog[id] + 1])

DialogCloses(id, says) ==
  /\ id \in waiting /\ says # "attention"
  /\ waiting' = waiting \ {id}
  /\ UNCHANGED <<dialog, repeats>>
  /\ Publish([id |-> id, says |-> says, dialog |-> 0])

\* An update that leaves the session as it is: needing input or not.
Repeat(id) ==
  /\ repeats < MaxRepeats
  /\ repeats' = repeats + 1
  /\ UNCHANGED <<waiting, dialog>>
  /\ Publish(IF id \in waiting
             THEN [id |-> id, says |-> "attention", dialog |-> dialog[id]]
             ELSE [id |-> id, says |-> "other", dialog |-> 0])

-----------------------------------------------------------------------------
(* The notifier's loop *)

\* Faulty: takes any stretch of the session for the notification's own.
IsOpenAnyStretch(n) == in_attention[n.id] # 0

IsOpen(n) == in_attention[n.id] = n.stretch

\* The command runs for a notification.
Run(n) == runs' = [runs EXCEPT ![<<n.id, n.dialog>>] = @ + 1]

\* Faulty: every update of a session that needs input starts a stretch.
StartsAlways(event) == event.says = "attention"

\* A session that did not need input does now.
StartsStretch(event) ==
  event.says = "attention" /\ in_attention[event.id] = 0

\* Faulty: a removed session's stretch stays.
EndsOnUpdate(event) == event.says = "other"

\* Any other event ends the session's stretch.
EndsStretch(event) == event.says # "attention"

\* The notification is sent, or starts its delay.
Notify(n) ==
  IF delayed THEN sleeping' = sleeping \cup {n} /\ UNCHANGED runs
             ELSE Run(n) /\ UNCHANGED sleeping

Observe ==
  /\ events # <<>> /\ ~lagged
  /\ LET event == Head(events)
         stretch == last_stretch + 1
     IN /\ heard' = [heard EXCEPT ![event.id] = event.dialog]
        /\ IF StartsStretch(event)
           THEN /\ last_stretch' = stretch
                /\ in_attention' = [in_attention EXCEPT ![event.id] = stretch]
                /\ Notify([id |-> event.id, stretch |-> stretch, dialog |-> event.dialog])
           ELSE /\ in_attention' = IF EndsStretch(event)
                                   THEN [in_attention EXCEPT ![event.id] = 0]
                                   ELSE in_attention
                /\ UNCHANGED <<last_stretch, sleeping, runs>>
  /\ events' = Tail(events)
  /\ UNCHANGED <<harness, lagged, due, lags>>

\* The tracker forgets every session when events were lost.
Forgotten == [id \in Ids |-> 0]

Lagged ==
  /\ lagged
  /\ lagged' = FALSE
  /\ in_attention' = Forgotten
  /\ heard' = [id \in Ids |-> 0]
  /\ lags' = lags + 1
  /\ UNCHANGED <<harness, events, last_stretch, sleeping, due, runs>>

\* All delays are as long, but a timer task may be late to report.
DelayOver(n) ==
  /\ n \in sleeping
  /\ sleeping' = sleeping \ {n}
  /\ due' = Append(due, n)
  /\ UNCHANGED <<harness, channel, tracker, history>>

\* The command runs if the session still needs input in the same stretch.
Due ==
  /\ due # <<>>
  /\ IF IsOpen(Head(due)) THEN Run(Head(due)) ELSE UNCHANGED runs
  /\ due' = Tail(due)
  /\ UNCHANGED <<harness, channel, tracker, sleeping, heard, lags>>

Init ==
  /\ delayed \in BOOLEAN
  /\ waiting = {} /\ dialog = [id \in Ids |-> 0] /\ repeats = 0
  /\ events = <<>> /\ lagged = FALSE
  /\ in_attention = [id \in Ids |-> 0] /\ last_stretch = 0
  /\ sleeping = {} /\ due = <<>>
  /\ heard = [id \in Ids |-> 0] /\ lags = 0
  /\ runs = [k \in Dialogs |-> 0]

Next ==
  \/ \E id \in Ids : DialogOpens(id) \/ Repeat(id)
  \/ \E id \in Ids, says \in Says : DialogCloses(id, says)
  \/ Observe \/ Lagged \/ Due
  \/ \E n \in sleeping : DelayOver(n)

Spec == Init /\ [][Next]_vars

\* The notifier's task runs whenever it can, its select picks each ready
\* branch sooner or later, and a delay ends.
Fairness ==
  /\ WF_vars(Observe) /\ WF_vars(Lagged) /\ WF_vars(Due)
  /\ WF_vars(\E n \in sleeping : DelayOver(n))

FairSpec == Spec /\ Fairness

-----------------------------------------------------------------------------
(* Properties *)

\* TypeOK: the channel keeps to its capacity, and the tracker to stretches
\* that have begun.
TypeOK ==
  /\ delayed \in BOOLEAN /\ waiting \subseteq Ids
  /\ dialog \in [Ids -> Numbers] /\ repeats \in 0..MaxRepeats
  /\ events \in Seq(Events) /\ Len(events) <= EventBuffer
  /\ lagged \in BOOLEAN
  /\ last_stretch \in Nat /\ in_attention \in [Ids -> 0..last_stretch]
  /\ sleeping \subseteq Notifications /\ due \in Seq(Notifications)
  /\ heard \in [Ids -> Numbers] /\ lags \in Nat
  /\ runs \in [Dialogs -> Nat]

\* OncePerDialog: the command runs once for a dialog, however many updates
\* repeat that the session needs input; each time events are lost it may run
\* once more ("at worst one extra ping", spawn_notifier).
OncePerDialog ==
  \A k \in Dialogs : runs[k] <= 1 + lags

\* A notification of id that is due, or will be, is of its open stretch.
Waits(id) ==
  \/ \E n \in sleeping : n.id = id /\ IsOpen(n)
  \/ \E k \in DOMAIN due : due[k].id = id /\ IsOpen(due[k])

\* HeardIsAnnounced: a dialog that the notifier has heard of and that is still
\* open by what it read has been announced: no dialog is muted by an earlier
\* one of the session, whether its end was read, lost or never sent.
HeardIsAnnounced ==
  \A id \in Ids : heard[id] # 0 => runs[<<id, heard[id]>>] > 0 \/ Waits(id)

\* AnnouncedOnce: a dialog that was heard of is announced, and not over and over.
AnnouncedOnce == TypeOK /\ OncePerDialog /\ HeardIsAnnounced

\* OpenDialogRings: when a delay is over and the notifier has read all there
\* is, a dialog that is still open has been announced: forgetting what it knew
\* costs "at worst one extra ping" (spawn_notifier), never the ping of a
\* dialog whose delay has begun.
OpenDialogRings ==
  due # <<>> /\ events = <<>> /\ ~lagged =>
    LET n == Head(due)
    IN n.id \in waiting /\ n.dialog = dialog[n.id]
         => runs[<<n.id, n.dialog>>] > 0 \/ Waits(n.id)

\* RunsWhileOpen: a command runs only for the dialog that is open by what the
\* notifier has read: a delay that outlives its dialog never announces it,
\* not even when the session has a new dialog by then.
RunsWhileOpen ==
  [][\A k \in Dialogs : runs'[k] > runs[k] => heard'[k[1]] = k[2]]_vars

\* DialogsRing: with no events lost, a dialog that stays open is announced.
DialogsRing ==
  \A k \in Dialogs :
    LET Open == k[1] \in waiting /\ dialog[k[1]] = k[2]
    IN Open ~> ~Open \/ runs[k] > 0 \/ lagged \/ lags > 0

=============================================================================
