------------------------ MODULE AttentionNotifierProofs ------------------------
(***************************************************************************)
(* For any sessions, any number of dialogs and any size of the channel: a  *)
(* dialog is announced, never twice but for losses, and only while it is   *)
(* open.  What makes the properties inductive is the order of the events   *)
(* in the channel: those of one session tell its dialogs one by one, from  *)
(* the one the notifier has heard of to the one that is open now.          *)
(***************************************************************************)
EXTENDS AttentionNotifier, SequenceTheorems, TLAPS

\* Between the i-th and the j-th of es, none says that id stopped needing input.
Quiet(es, id, i, j) ==
  \A m \in DOMAIN es :
    i < m /\ m < j /\ es[m].id = id => es[m].says = "attention"

Asks(i) == events[i].says = "attention"

\* An event tells a dialog if and only if it says that its session needs input, and
\* no event tells one yet to come.
EventsSound ==
  \A i \in DOMAIN events :
    /\ Asks(i) <=> events[i].dialog # 0
    /\ events[i].dialog <= dialog[events[i].id]

\* Two events tell one dialog if and only if nothing between them ends it.
InOrder ==
  \A i, j \in DOMAIN events :
    i < j /\ Asks(i) /\ Asks(j) /\ events[i].id = events[j].id =>
      (events[i].dialog = events[j].dialog <=> Quiet(events, events[i].id, i, j))

\* The dialog that is open now is that of the events nothing has ended since.
UpToNow ==
  \A i \in DOMAIN events :
    Asks(i) =>
      (/\ events[i].id \in waiting
       /\ events[i].dialog = dialog[events[i].id])
      <=> Quiet(events, events[i].id, i, Len(events) + 1)

\* The dialog heard of goes on until an event ends it.
FromHeard ==
  \A id \in Ids :
    heard[id] # 0 /\ ~lagged =>
      /\ \A j \in DOMAIN events :
           Asks(j) /\ events[j].id = id =>
             (heard[id] = events[j].dialog <=> Quiet(events, id, 0, j))
      /\ (id \in waiting /\ heard[id] = dialog[id]) <=> Quiet(events, id, 0, Len(events) + 1)

\* A session's dialogs are numbered, and the tracker has a stretch open for the one
\* heard of.
Counted ==
  \A id \in Ids :
    /\ dialog[id] <= MaxDialogs[id] /\ heard[id] <= dialog[id]
    /\ id \in waiting => dialog[id] # 0
    /\ (heard[id] # 0 <=> in_attention[id] # 0)

\* A notification under way is of a stretch that has begun.
Begun(n) ==
  /\ n.stretch \in 1 .. last_stretch
  /\ n.dialog \in 1 .. dialog[n.id]

\* A notification of the open stretch is of the dialog heard of, which has runs left.
HasRunLeft(n) ==
  IsOpen(n) => heard[n.id] = n.dialog /\ runs[<<n.id, n.dialog>>] <= lags

\* No stretch has two notifications.
StretchesApart ==
  /\ \A n, m \in sleeping : n.stretch = m.stretch => n = m
  /\ \A i, j \in DOMAIN due : due[i].stretch = due[j].stretch => i = j
  /\ \A n \in sleeping, i \in DOMAIN due : n.stretch # due[i].stretch

NotificationsSound ==
  /\ \A n \in sleeping : Begun(n) /\ HasRunLeft(n)
  /\ \A i \in DOMAIN due : Begun(due[i]) /\ HasRunLeft(due[i])
  /\ StretchesApart

\* A dialog the notifier will hear of has a run left; one yet to come has had none.
RunsLeft ==
  /\ \A k \in Dialogs : dialog[k[1]] < k[2] => runs[k] = 0
  /\ ~lagged =>
       /\ \A i \in DOMAIN events :
            Asks(i) /\ heard[events[i].id] # events[i].dialog =>
              runs[<<events[i].id, events[i].dialog>>] <= lags
       /\ \A id \in waiting :
            heard[id] # dialog[id] => runs[<<id, dialog[id]>>] <= lags

Order == EventsSound /\ InOrder /\ UpToNow /\ FromHeard

Inv ==
  /\ TypeOK /\ Counted /\ Order
  /\ NotificationsSound /\ RunsLeft
  /\ OncePerDialog /\ HeardIsAnnounced

-----------------------------------------------------------------------------
(* The channel *)

LEMMA NumbersAreNat == Numbers \subseteq Nat
  BY NotifierAssumption, SMT DEF Numbers

\* es is the rest of the channel after its first cut events, and then event.
Followed(es, cut, event) ==
  /\ cut \in {0, 1} /\ cut <= Len(events)
  /\ es \in Seq(Events) /\ Len(es) = Len(events) + 1 - cut
  /\ \A i \in 1 .. Len(events) - cut : es[i] = events[i + cut]
  /\ es[Len(es)] = event

LEMMA PublishFollows ==
  ASSUME TypeOK, NEW event \in Events, Publish(event)
  PROVE  \E cut \in {0, 1} :
           /\ Followed(events', cut, event) /\ Len(events') <= EventBuffer
           /\ lagged' = (lagged \/ cut = 1)
  <1>0. /\ events \in Seq(Events) /\ Len(events) \in Nat /\ Len(events) <= EventBuffer
        /\ lagged \in BOOLEAN /\ EventBuffer \in Nat \ {0}
    BY NotifierAssumption DEF TypeOK
  <1>1. CASE Len(events) < EventBuffer
    <2>1. events' = Append(events, event) /\ lagged' = lagged
      BY <1>1 DEF Publish
    <2>2. Followed(events', 0, event) /\ Len(events') = Len(events) + 1
      BY <1>0, <2>1, AppendProperties DEF Followed
    <2> QED  BY <1>0, <1>1, <2>1, <2>2
  <1>2. CASE ~(Len(events) < EventBuffer)
    <2>1. events # <<>> /\ Len(events) = EventBuffer
      BY <1>0, <1>2, EmptySeq
    <2>2. events' = Append(Tail(events), event) /\ lagged' = TRUE
      BY <1>2 DEF Publish
    <2>3. /\ Tail(events) \in Seq(Events) /\ Len(Tail(events)) = Len(events) - 1
          /\ \A i \in 1 .. Len(events) - 1 : Tail(events)[i] = events[i + 1]
      BY <1>0, <2>1, HeadTailProperties
    <2>4. /\ events' \in Seq(Events) /\ Len(events') = Len(events)
          /\ \A i \in 1 .. Len(events) - 1 : events'[i] = Tail(events)[i]
          /\ events'[Len(events)] = event
      <3> DEFINE rest == Tail(events)
      <3>1. /\ Append(rest, event) \in Seq(Events) /\ Len(Append(rest, event)) = Len(rest) + 1
            /\ \A i \in 1 .. Len(rest) : Append(rest, event)[i] = rest[i]
            /\ Append(rest, event)[Len(rest) + 1] = event
        BY <2>3, AppendProperties
      <3> QED  BY <1>0, <2>2, <2>3, <3>1
    <2>5. Followed(events', 1, event)
      BY <1>0, <2>1, <2>3, <2>4 DEF Followed
    <2> QED  BY <1>0, <2>1, <2>2, <2>4, <2>5
  <1> QED  BY <1>1, <1>2

LEMMA FollowedQuiet ==
  ASSUME TypeOK, NEW es, NEW cut, NEW event, Followed(es, cut, event),
         NEW id, NEW i \in Nat, i < Len(es)
  PROVE  /\ \A j \in 0 .. Len(es) : Quiet(es, id, i, j) <=> Quiet(events, id, i + cut, j + cut)
         /\ Quiet(es, id, i, Len(es) + 1) <=>
              /\ Quiet(events, id, i + cut, Len(events) + 1)
              /\ event.id = id => event.says = "attention"
  <1>0. /\ Len(events) \in Nat /\ DOMAIN events = 1 .. Len(events)
        /\ Len(es) \in Nat /\ DOMAIN es = 1 .. Len(es)
    BY DEF TypeOK, Followed
  <1>1. ASSUME NEW m \in DOMAIN events, i + cut < m
        PROVE  m - cut \in DOMAIN es /\ es[m - cut] = events[m] /\ m - cut < Len(es)
    <2>1. cut \in {0, 1} /\ Len(es) = Len(events) + 1 - cut
      BY DEF Followed
    <2>2. m - cut \in 1 .. Len(events) - cut /\ (m - cut) + cut = m
      BY <1>0, <1>1, <2>1
    <2>3. es[m - cut] = events[(m - cut) + cut]
      BY <2>2 DEF Followed
    <2> QED  BY <1>0, <2>1, <2>2, <2>3
  <1>2. ASSUME NEW m \in DOMAIN es, m < Len(es)
        PROVE  m + cut \in DOMAIN events /\ events[m + cut] = es[m]
    <2>1. cut \in {0, 1} /\ Len(es) = Len(events) + 1 - cut
      BY DEF Followed
    <2>2. m \in 1 .. Len(events) - cut
      BY <1>0, <1>2, <2>1
    <2>3. es[m] = events[m + cut]
      BY <2>2 DEF Followed
    <2> QED  BY <1>0, <2>1, <2>2, <2>3
  <1>3. ASSUME NEW j \in 0 .. Len(es)
        PROVE  Quiet(es, id, i, j) <=> Quiet(events, id, i + cut, j + cut)
    <2>1. ASSUME Quiet(es, id, i, j), NEW m \in DOMAIN events,
                 i + cut < m, m < j + cut, events[m].id = id
          PROVE  events[m].says = "attention"
      BY <2>1, <1>0, <1>1, <1>3 DEF Quiet, Followed
    <2>2. ASSUME Quiet(events, id, i + cut, j + cut), NEW m \in DOMAIN es,
                 i < m, m < j, es[m].id = id
          PROVE  es[m].says = "attention"
      BY <2>2, <1>0, <1>2, <1>3 DEF Quiet, Followed
    <2> QED  BY <2>1, <2>2 DEF Quiet
  <1>4. ASSUME Quiet(es, id, i, Len(es) + 1)
        PROVE  /\ Quiet(events, id, i + cut, Len(events) + 1)
               /\ event.id = id => event.says = "attention"
    <2>1. /\ Len(es) \in DOMAIN es /\ es[Len(es)] = event
          /\ i < Len(es) /\ Len(es) < Len(es) + 1
      BY <1>0 DEF Followed
    <2>2. event.id = id => event.says = "attention"
      BY <1>4, <2>1 DEF Quiet
    <2>3. ASSUME NEW m \in DOMAIN events, i + cut < m, events[m].id = id
          PROVE  events[m].says = "attention"
      <3>1. /\ m - cut \in DOMAIN es /\ es[m - cut] = events[m]
            /\ m - cut < Len(es)
        BY <1>1, <2>3
      <3>2. i < m - cut /\ m - cut < Len(es) + 1
        BY <1>0, <2>3, <3>1 DEF Followed
      <3> QED  BY <1>4, <2>3, <3>1, <3>2 DEF Quiet
    <2> QED  BY <2>2, <2>3 DEF Quiet
  <1>5. ASSUME Quiet(events, id, i + cut, Len(events) + 1),
               event.id = id => event.says = "attention"
        PROVE  Quiet(es, id, i, Len(es) + 1)
    BY <1>5, <1>0, <1>2 DEF Quiet, Followed
  <1> QED  BY <1>3, <1>4, <1>5

-----------------------------------------------------------------------------
(* What the registry's side does: it publishes an event that says what      *)
(* became of one session.                                                   *)

\* event tells what the step did to its session; the others are left alone.
Changes(event) ==
  /\ event \in Events
  /\ \A id \in Ids : id # event.id =>
       /\ id \in waiting' <=> id \in waiting
       /\ dialog'[id] = dialog[id]
  /\ dialog'[event.id] <= MaxDialogs[event.id]
  /\ \/ /\ event.says = "attention" /\ event.id \in waiting'
        /\ event.dialog = dialog'[event.id]
        /\ dialog'[event.id] = dialog[event.id] + (IF event.id \in waiting THEN 0 ELSE 1)
     \/ /\ event.says # "attention" /\ event.id \notin waiting'
        /\ event.dialog = 0 /\ dialog'[event.id] = dialog[event.id]

LEMMA ChangesOrder ==
  ASSUME TypeOK, Counted, Order, NEW event, Changes(event),
         NEW cut \in {0, 1}, Followed(events', cut, event),
         lagged' = (lagged \/ cut = 1),
         waiting' \subseteq Ids, dialog' \in [Ids -> Numbers], UNCHANGED heard
  PROVE  Order'
  <1> DEFINE es == events'
             was == Len(events)
             is == Len(es)
             x == event.id
  <1>0. /\ was \in Nat /\ DOMAIN events = 1 .. was
        /\ is \in Nat /\ DOMAIN es = 1 .. is /\ is = was + 1 - cut
        /\ \A i \in DOMAIN events : events[i] \in Events
        /\ \A id \in Ids : dialog[id] \in Nat /\ dialog'[id] \in Nat /\ heard[id] \in Nat
        /\ x \in Ids /\ event.dialog \in Nat
    <2>1. /\ was \in Nat /\ DOMAIN events = 1 .. was
          /\ is \in Nat /\ DOMAIN es = 1 .. is /\ is = was + 1 - cut
          /\ \A i \in DOMAIN events : events[i] \in Events
      BY DEF TypeOK, Followed
    <2>2. \A id \in Ids : dialog[id] \in Nat /\ dialog'[id] \in Nat /\ heard[id] \in Nat
      BY NumbersAreNat DEF TypeOK
    <2>3. x \in Ids /\ event.dialog \in Nat
      BY NumbersAreNat DEF Changes, Events
    <2> QED  BY <2>1, <2>2, <2>3
  <1>1. ASSUME NEW i \in DOMAIN es, i # is
        PROVE  /\ i + cut \in DOMAIN events /\ es[i] = events[i + cut]
               /\ i < is
    <2>1. i \in 1 .. was - cut /\ i + cut \in 1 .. was /\ i < is
      BY <1>0, <1>1
    <2> QED  BY <2>1, <1>0 DEF Followed
  <1>2. es[is] = event
    BY DEF Followed
  <1>3. ASSUME NEW id, NEW i \in Nat, i < is
        PROVE  /\ \A j \in 0 .. is : Quiet(es, id, i, j) <=> Quiet(events, id, i + cut, j + cut)
               /\ Quiet(es, id, i, is + 1) <=>
                    /\ Quiet(events, id, i + cut, was + 1)
                    /\ x = id => event.says = "attention"
    BY <1>3, FollowedQuiet
  <1>4. \A i \in DOMAIN events : events[i].id \in Ids /\ events[i].dialog \in Nat
    BY <1>0, NumbersAreNat DEF Events
  <1>5. \A id \in Ids : dialog[id] <= dialog'[id]
    BY <1>0 DEF Changes
  <1>6. event.says = "attention" <=> event.dialog # 0
    BY <1>0 DEF Changes, Counted
  <1> HIDE DEF es, was, is, x
  <1>7. EventsSound'
    <2> SUFFICES ASSUME NEW i \in DOMAIN es
                 PROVE  /\ es[i].says = "attention" <=> es[i].dialog # 0
                        /\ es[i].dialog <= dialog'[es[i].id]
      BY DEF EventsSound, Asks, es
    <2>1. CASE i = is
      BY <2>1, <1>0, <1>2, <1>6 DEF Changes, x
    <2>2. CASE i # is
      <3>1. /\ events[i + cut].says = "attention" <=> events[i + cut].dialog # 0
            /\ events[i + cut].dialog <= dialog[events[i + cut].id]
        BY <2>2, <1>1 DEF Order, EventsSound, Asks
      <3>2. events[i + cut].id \in Ids /\ events[i + cut].dialog \in Nat
        BY <2>2, <1>1, <1>4
      <3> QED  BY <2>2, <3>1, <3>2, <1>0, <1>1, <1>5
    <2> QED  BY <2>1, <2>2
  <1>8. ASSUME NEW p \in DOMAIN events, events[p].says = "attention", events[p].id = x
        PROVE  IF event.says = "attention"
               THEN events[p].dialog = event.dialog <=> Quiet(events, x, p, was + 1)
               ELSE ~(x \in waiting')
    <2>1. (x \in waiting /\ events[p].dialog = dialog[x]) <=> Quiet(events, x, p, was + 1)
      BY <1>8 DEF Order, UpToNow, Asks, was
    <2>2. events[p].dialog <= dialog[x] /\ events[p].dialog \in Nat
      BY <1>4, <1>8 DEF Order, EventsSound
    <2> QED  BY <2>1, <2>2, <1>0 DEF Changes, x
  <1>9. InOrder'
    <2> SUFFICES ASSUME NEW i \in DOMAIN es, NEW j \in DOMAIN es, i < j,
                        es[i].says = "attention", es[j].says = "attention",
                        es[i].id = es[j].id
                 PROVE  es[i].dialog = es[j].dialog <=> Quiet(es, es[i].id, i, j)
      BY DEF InOrder, Asks, es
    <2>1. i # is /\ i \in Nat /\ i < is /\ j \in 0 .. is
      BY <1>0
    <2>2. Quiet(es, es[i].id, i, j) <=> Quiet(events, es[i].id, i + cut, j + cut)
      BY <2>1, <1>3
    <2>3. CASE j = is
      BY <2>1, <2>2, <2>3, <1>0, <1>1, <1>2, <1>8 DEF x
    <2>4. CASE j # is
      BY <2>1, <2>2, <2>4, <1>0, <1>1 DEF Order, InOrder, Asks
    <2> QED  BY <2>3, <2>4
  <1>10. UpToNow'
    <2> SUFFICES ASSUME NEW i \in DOMAIN es, es[i].says = "attention"
                 PROVE  (es[i].id \in waiting' /\ es[i].dialog = dialog'[es[i].id])
                          <=> Quiet(es, es[i].id, i, is + 1)
      BY DEF UpToNow, Asks, es, is
    <2>1. CASE i = is
      <3>1. Quiet(es, es[i].id, i, is + 1)
        BY <2>1, <1>0 DEF Quiet
      <3> QED  BY <2>1, <3>1, <1>2 DEF Changes
    <2>2. CASE i # is /\ es[i].id = x
      BY <2>2, <1>0, <1>1, <1>3, <1>8 DEF Changes, x
    <2>3. CASE i # is /\ es[i].id # x
      <3>1. (events[i + cut].id \in waiting /\ events[i + cut].dialog = dialog[events[i + cut].id])
              <=> Quiet(events, events[i + cut].id, i + cut, was + 1)
        BY <2>3, <1>1 DEF Order, UpToNow, Asks, was
      <3>2. es[i].id \in Ids
        BY <2>3, <1>1, <1>4
      <3> QED  BY <2>3, <3>1, <3>2, <1>0, <1>1, <1>3 DEF Changes, x
    <2> QED  BY <2>1, <2>2, <2>3
  <1>11. FromHeard'
    <2> SUFFICES ASSUME NEW id \in Ids, heard[id] # 0, ~lagged'
                 PROVE  /\ \A j \in DOMAIN es :
                             es[j].says = "attention" /\ es[j].id = id =>
                               (heard[id] = es[j].dialog <=> Quiet(es, id, 0, j))
                        /\ (id \in waiting' /\ heard[id] = dialog'[id])
                             <=> Quiet(es, id, 0, is + 1)
      BY DEF FromHeard, Asks, es, is
    <2>1. ~lagged /\ cut = 0
      OBVIOUS
    <2>2. /\ \A j \in DOMAIN events :
               events[j].says = "attention" /\ events[j].id = id =>
                 (heard[id] = events[j].dialog <=> Quiet(events, id, 0, j))
          /\ (id \in waiting /\ heard[id] = dialog[id]) <=> Quiet(events, id, 0, was + 1)
      BY <2>1 DEF Order, FromHeard, Asks, was
    <2>3. /\ \A j \in 0 .. is : Quiet(es, id, 0, j) <=> Quiet(events, id, 0, j)
          /\ Quiet(es, id, 0, is + 1) <=>
               Quiet(events, id, 0, was + 1) /\ (x = id => event.says = "attention")
      BY <2>1, <1>0, <1>3
    <2>4. heard[id] <= dialog[id]
      BY DEF Counted
    <2>5. ASSUME NEW j \in DOMAIN es, es[j].says = "attention", es[j].id = id
          PROVE  heard[id] = es[j].dialog <=> Quiet(es, id, 0, j)
      <3>1. CASE j = is
        BY <3>1, <2>1, <2>2, <2>3, <2>4, <2>5, <1>0, <1>2 DEF Changes, x
      <3>2. CASE j # is
        BY <3>2, <2>1, <2>2, <2>3, <2>5, <1>0, <1>1
      <3> QED  BY <3>1, <3>2
    <2>6. (id \in waiting' /\ heard[id] = dialog'[id]) <=> Quiet(es, id, 0, is + 1)
      BY <2>2, <2>3, <2>4, <1>0 DEF Changes, x
    <2> QED  BY <2>5, <2>6
  <1> QED  BY <1>7, <1>9, <1>10, <1>11 DEF Order

\* A step of the registry's side.
RegistryStep(event) ==
  /\ Changes(event) /\ Publish(event)
  /\ waiting' \subseteq Ids /\ dialog' \in [Ids -> Numbers] /\ repeats' \in 0 .. MaxRepeats

LEMMA RegistrySteps ==
  ASSUME Inv,
         \/ \E id \in Ids : DialogOpens(id) \/ Repeat(id)
         \/ \E id \in Ids, says \in Says : DialogCloses(id, says)
  PROVE  \E event \in Events : RegistryStep(event)
  <1>1. /\ waiting \subseteq Ids /\ dialog \in [Ids -> Numbers] /\ repeats \in 0 .. MaxRepeats
        /\ MaxDialogs \in [Ids -> Nat] /\ MaxRepeats \in Nat
        /\ \A id \in Ids : dialog[id] \in Nat /\ dialog[id] <= MaxDialogs[id]
    BY NotifierAssumption, NumbersAreNat DEF Inv, TypeOK, Counted
  <1>2. \A id \in Ids, n \in Nat : n <= MaxDialogs[id] => n \in Numbers
    BY <1>1 DEF Numbers
  <1>3. ASSUME NEW id \in Ids, DialogOpens(id)
        PROVE  \E event \in Events : RegistryStep(event)
    <2> DEFINE event == [id |-> id, says |-> "attention", dialog |-> dialog[id] + 1]
    <2>1. dialog[id] + 1 \in Numbers /\ dialog[id] + 1 <= MaxDialogs[id]
      BY <1>1, <1>2, <1>3 DEF DialogOpens
    <2>2. event \in Events
      BY <2>1 DEF Events, Says
    <2>3. /\ waiting' = waiting \cup {id} /\ dialog' = [dialog EXCEPT ![id] = @ + 1]
          /\ repeats' = repeats /\ Publish(event) /\ id \notin waiting
      BY <1>3 DEF DialogOpens
    <2>4. Changes(event)
      BY <1>1, <2>1, <2>2, <2>3 DEF Changes
    <2> QED  BY <1>1, <2>1, <2>2, <2>3, <2>4 DEF RegistryStep
  <1>4. ASSUME NEW id \in Ids, NEW says \in Says, DialogCloses(id, says)
        PROVE  \E event \in Events : RegistryStep(event)
    <2> DEFINE event == [id |-> id, says |-> says, dialog |-> 0]
    <2>1. event \in Events
      BY <1>1, <1>2 DEF Events
    <2>2. /\ waiting' = waiting \ {id} /\ dialog' = dialog
          /\ repeats' = repeats /\ Publish(event) /\ says # "attention"
      BY <1>4 DEF DialogCloses
    <2>3. Changes(event)
      BY <1>1, <2>1, <2>2 DEF Changes
    <2> QED  BY <1>1, <2>1, <2>2, <2>3 DEF RegistryStep
  <1>5. ASSUME NEW id \in Ids, Repeat(id)
        PROVE  \E event \in Events : RegistryStep(event)
    <2> DEFINE event == IF id \in waiting
                        THEN [id |-> id, says |-> "attention", dialog |-> dialog[id]]
                        ELSE [id |-> id, says |-> "other", dialog |-> 0]
    <2>1. event \in Events
      BY <1>1, <1>2 DEF Events, Says
    <2>2. /\ waiting' = waiting /\ dialog' = dialog
          /\ repeats' \in 0 .. MaxRepeats /\ Publish(event)
      BY <1>1, <1>5 DEF Repeat
    <2>3. Changes(event)
      BY <1>1, <2>1, <2>2 DEF Changes
    <2> QED  BY <1>1, <2>1, <2>2, <2>3 DEF RegistryStep
  <1> QED  BY <1>3, <1>4, <1>5

LEMMA RegistryKeeps ==
  ASSUME Inv, NEW event \in Events, RegistryStep(event)
  PROVE  Inv'
  <1>1. PICK cut \in {0, 1} :
          /\ Followed(events', cut, event) /\ Len(events') <= EventBuffer
          /\ lagged' = (lagged \/ cut = 1)
    BY PublishFollows DEF Inv, RegistryStep
  <1>2. UNCHANGED <<delayed, in_attention, last_stretch, sleeping, due, heard, lags, runs>>
    BY DEF RegistryStep, Publish, tracker, history
  <1>3. TypeOK'
    BY <1>1, <1>2 DEF Inv, TypeOK, RegistryStep, Followed
  <1>4. Order'
    BY <1>1, <1>2, ChangesOrder DEF Inv, RegistryStep
  <1>5. /\ \A id \in Ids : /\ dialog[id] \in Nat /\ dialog'[id] \in Nat /\ heard[id] \in Nat
                           /\ MaxDialogs[id] \in Nat /\ dialog[id] <= dialog'[id]
                           /\ dialog[id] <= MaxDialogs[id]
        /\ lags \in Nat /\ event.id \in Ids
    <2>1. /\ \A id \in Ids : /\ dialog[id] \in Nat /\ dialog'[id] \in Nat /\ heard[id] \in Nat
                             /\ MaxDialogs[id] \in Nat /\ dialog[id] <= MaxDialogs[id]
          /\ lags \in Nat
      BY NumbersAreNat, NotifierAssumption DEF Inv, TypeOK, Counted, RegistryStep
    <2>2. event.id \in Ids
      BY DEF Events
    <2> QED  BY <2>1, <2>2 DEF RegistryStep, Changes
  <1>6. Counted'
    BY <1>2, <1>5 DEF Inv, Counted, RegistryStep, Changes
  <1>7. NotificationsSound'
    <2>1. ASSUME NEW n \in Notifications, Begun(n) /\ HasRunLeft(n)
          PROVE  (Begun(n) /\ HasRunLeft(n))'
      BY <2>1, <1>2, <1>5 DEF Begun, HasRunLeft, IsOpen, Notifications
    <2>2. sleeping \subseteq Notifications /\ \A i \in DOMAIN due : due[i] \in Notifications
      BY ElementOfSeq DEF Inv, TypeOK
    <2> QED  BY <1>2, <2>1, <2>2 DEF Inv, NotificationsSound, StretchesApart
  <1>8. \A d \in Nat : dialog[event.id] < d /\ d <= dialog'[event.id] =>
          runs[<<event.id, d>>] = 0
    <2>1. dialog'[event.id] \in Numbers /\ dialog'[event.id] <= MaxDialogs[event.id]
      BY <1>5 DEF RegistryStep, Changes
    <2>2. ASSUME dialog[event.id] < dialog'[event.id]
          PROVE  <<event.id, dialog'[event.id]>> \in Dialogs
      BY <1>5, <2>1, <2>2 DEF Dialogs
    <2>3. dialog'[event.id] <= dialog[event.id] + 1
      BY <1>5 DEF RegistryStep, Changes
    <2> QED  BY <1>5, <2>2, <2>3 DEF Inv, RunsLeft
  <1>9. RunsLeft'
    <2>1. \A k \in Dialogs : dialog'[k[1]] < k[2] => runs[k] = 0
      <3>1. ASSUME NEW k \in Dialogs
            PROVE  k[1] \in Ids /\ k[2] \in Nat
        BY <3>1, NumbersAreNat DEF Dialogs
      <3> QED  BY <3>1, <1>5 DEF Inv, RunsLeft
    <2>2. ASSUME ~lagged', NEW i \in DOMAIN events', events'[i].says = "attention",
                 heard[events'[i].id] # events'[i].dialog
          PROVE  runs[<<events'[i].id, events'[i].dialog>>] <= lags
      <3>1. cut = 0 /\ ~lagged
        BY <1>1, <2>2
      <3>2. CASE i \in DOMAIN events
        <4>1. i \in 1 .. Len(events) - cut /\ i + cut = i
          BY <3>1, <3>2 DEF Inv, TypeOK
        <4>2. events'[i] = events[i]
          BY <4>1, <1>1 DEF Followed
        <4> QED  BY <2>2, <3>1, <3>2, <4>2 DEF Inv, RunsLeft, Asks
      <3>3. CASE i \notin DOMAIN events
        <4>1. events'[i] = event
          BY <3>1, <3>3, <1>1 DEF Followed, Inv, TypeOK
        <4> QED  BY <2>2, <3>1, <4>1, <1>5, <1>8 DEF Inv, RunsLeft, RegistryStep, Changes
      <3> QED  BY <3>2, <3>3
    <2>3. ASSUME ~lagged', NEW id \in waiting', heard[id] # dialog'[id]
          PROVE  runs[<<id, dialog'[id]>>] <= lags
      <3>1. ~lagged
        BY <1>1, <2>3
      <3>2. id \in Ids
        BY DEF RegistryStep
      <3> QED  BY <2>3, <3>1, <3>2, <1>5, <1>8 DEF Inv, RunsLeft, RegistryStep, Changes
    <2> QED  BY <2>1, <2>2, <2>3, <1>2 DEF RunsLeft, Asks
  <1>10. OncePerDialog' /\ HeardIsAnnounced'
    BY <1>2 DEF Inv, OncePerDialog, HeardIsAnnounced, Waits, IsOpen
  <1> QED  BY <1>3, <1>4, <1>6, <1>7, <1>9, <1>10 DEF Inv

-----------------------------------------------------------------------------
(* What the notifier does *)

LEMMA TailQuiet ==
  ASSUME NEW es \in Seq(Events), es # <<>>
  PROVE  /\ Head(es) = es[1] /\ es[1] \in Events /\ 1 \in DOMAIN es
         /\ Tail(es) \in Seq(Events) /\ Len(Tail(es)) = Len(es) - 1
         /\ DOMAIN Tail(es) = 1 .. Len(es) - 1
         /\ \A i \in DOMAIN Tail(es) : i + 1 \in DOMAIN es /\ Tail(es)[i] = es[i + 1]
         /\ \A id : \A i \in Nat, j \in Nat :
              Quiet(Tail(es), id, i, j) <=> Quiet(es, id, i + 1, j + 1)
  <1>1. /\ Tail(es) \in Seq(Events) /\ Len(Tail(es)) = Len(es) - 1
        /\ \A i \in 1 .. Len(Tail(es)) : Tail(es)[i] = es[i + 1]
    BY HeadTailProperties
  <1>2. Len(es) \in Nat \ {0} /\ DOMAIN es = 1 .. Len(es)
    BY EmptySeq
  <1>3. es[1] \in Events /\ Head(es) = es[1] /\ 1 \in DOMAIN es
    BY <1>2, ElementOfSeq
  <1>4. DOMAIN Tail(es) = 1 .. Len(es) - 1
    BY <1>1
  <1>5. \A i \in DOMAIN Tail(es) : i + 1 \in DOMAIN es /\ Tail(es)[i] = es[i + 1]
    BY <1>1, <1>2, <1>4
  <1> DEFINE rest == Tail(es)
  <1> HIDE DEF rest
  <1>6. ASSUME NEW id, NEW i \in Nat, NEW j \in Nat
        PROVE  Quiet(rest, id, i, j) <=> Quiet(es, id, i + 1, j + 1)
    <2>0. /\ DOMAIN rest = 1 .. Len(es) - 1
          /\ \A k \in DOMAIN rest : k + 1 \in DOMAIN es /\ rest[k] = es[k + 1]
      BY <1>4, <1>5 DEF rest
    <2>1. ASSUME Quiet(rest, id, i, j), NEW m \in DOMAIN es,
                 i + 1 < m, m < j + 1, es[m].id = id
          PROVE  es[m].says = "attention"
      <3>1. /\ m - 1 \in DOMAIN rest /\ (m - 1) + 1 = m
            /\ i < m - 1 /\ m - 1 < j
        BY <1>2, <2>0, <2>1
      <3>2. rest[m - 1] = es[m]
        BY <2>0, <3>1
      <3> QED  BY <2>1, <3>1, <3>2 DEF Quiet
    <2>2. ASSUME Quiet(es, id, i + 1, j + 1), NEW m \in DOMAIN rest,
                 i < m, m < j, rest[m].id = id
          PROVE  rest[m].says = "attention"
      <3>1. /\ m + 1 \in DOMAIN es /\ rest[m] = es[m + 1]
            /\ i + 1 < m + 1 /\ m + 1 < j + 1
        BY <1>2, <2>0, <2>2
      <3> QED  BY <2>2, <3>1 DEF Quiet
    <2> QED  BY <2>1, <2>2 DEF Quiet
  <1> QED  BY <1>1, <1>2, <1>3, <1>4, <1>5, <1>6 DEF rest

LEMMA QuietFrom ==
  ASSUME NEW es \in Seq(Events), es # <<>>, NEW id, NEW j \in Nat
  PROVE  /\ Quiet(es, id, 0, j) /\ 1 < j /\ es[1].id = id => es[1].says = "attention"
         /\ es[1].id # id \/ es[1].says = "attention" =>
              (Quiet(es, id, 0, j) <=> Quiet(es, id, 1, j))
         /\ Quiet(es, id, 0, 1)
  <1>1. Len(es) \in Nat \ {0} /\ DOMAIN es = 1 .. Len(es)
    BY EmptySeq
  <1> QED  BY <1>1 DEF Quiet

LEMMA ObserveOrder ==
  ASSUME TypeOK, Counted, Order, events # <<>>, ~lagged,
         events' = Tail(events), UNCHANGED <<waiting, dialog, lagged>>,
         heard' = [heard EXCEPT ![Head(events).id] = Head(events).dialog]
  PROVE  Order'
  <1> DEFINE es == events'
             e == events[1]
             was == Len(events)
  <1>1. /\ events \in Seq(Events) /\ was \in Nat /\ DOMAIN events = 1 .. was
        /\ heard \in [Ids -> Numbers]
    BY DEF TypeOK
  <1>2. /\ Head(events) = e /\ e \in Events /\ 1 \in DOMAIN events
        /\ Len(es) = was - 1 /\ DOMAIN es = 1 .. was - 1
        /\ \A i \in DOMAIN es : i + 1 \in DOMAIN events /\ es[i] = events[i + 1]
        /\ \A id : \A i \in Nat, j \in Nat :
             Quiet(es, id, i, j) <=> Quiet(events, id, i + 1, j + 1)
    BY <1>1, TailQuiet
  <1>3. e.id \in Ids
    BY <1>2 DEF Events
  <1>4. \A id \in Ids : heard'[id] = IF id = e.id THEN e.dialog ELSE heard[id]
    BY <1>1, <1>2, <1>3
  <1>5. \A id : \A j \in Nat : e.id # id => (Quiet(events, id, 0, j) <=> Quiet(events, id, 1, j))
    BY <1>1, QuietFrom
  <1>6. EventsSound'
    BY <1>2 DEF Order, EventsSound, Asks
  <1>7. InOrder'
    <2> SUFFICES ASSUME NEW i \in DOMAIN es, NEW j \in DOMAIN es, i < j,
                        es[i].says = "attention", es[j].says = "attention",
                        es[i].id = es[j].id
                 PROVE  es[i].dialog = es[j].dialog <=> Quiet(es, es[i].id, i, j)
      BY DEF InOrder, Asks
    <2>1. events[i + 1].dialog = events[j + 1].dialog
            <=> Quiet(events, events[i + 1].id, i + 1, j + 1)
      BY <1>1, <1>2 DEF Order, InOrder, Asks
    <2>2. i \in Nat /\ j \in Nat
      BY <1>2
    <2> QED  BY <1>2, <2>1, <2>2
  <1>8. UpToNow'
    <2> SUFFICES ASSUME NEW i \in DOMAIN es, es[i].says = "attention"
                 PROVE  (es[i].id \in waiting /\ es[i].dialog = dialog[es[i].id])
                          <=> Quiet(es, es[i].id, i, was)
      BY <1>1, <1>2 DEF UpToNow, Asks
    <2>1. (events[i + 1].id \in waiting /\ events[i + 1].dialog = dialog[events[i + 1].id])
            <=> Quiet(events, events[i + 1].id, i + 1, was + 1)
      BY <1>1, <1>2 DEF Order, UpToNow, Asks
    <2>2. i \in Nat
      BY <1>2
    <2> QED  BY <1>1, <1>2, <2>1, <2>2
  <1>9. FromHeard'
    <2> SUFFICES ASSUME NEW id \in Ids, heard'[id] # 0
                 PROVE  /\ \A j \in DOMAIN es :
                             es[j].says = "attention" /\ es[j].id = id =>
                               (heard'[id] = es[j].dialog <=> Quiet(events, id, 1, j + 1))
                        /\ (id \in waiting /\ heard'[id] = dialog[id])
                             <=> Quiet(events, id, 1, was + 1)
      <3>1. \A id : \A j \in Nat : Quiet(es, id, 0, j) <=> Quiet(events, id, 0 + 1, j + 1)
        BY <1>2
      <3>2. DOMAIN es \subseteq Nat /\ Len(es) + 1 = was
        BY <1>1, <1>2
      <3> QED  BY <1>1, <3>1, <3>2 DEF FromHeard, Asks
    <2>1. CASE id # e.id
      <3>1. /\ \A j \in DOMAIN events :
                 events[j].says = "attention" /\ events[j].id = id =>
                   (heard[id] = events[j].dialog <=> Quiet(events, id, 0, j))
            /\ (id \in waiting /\ heard[id] = dialog[id])
                 <=> Quiet(events, id, 0, was + 1)
        BY <1>4, <2>1 DEF Order, FromHeard, Asks
      <3> QED  BY <1>1, <1>2, <1>4, <1>5, <2>1, <3>1
    <2>2. CASE id = e.id
      <3>1. e.says = "attention"
        BY <1>2, <1>4, <2>2 DEF Order, EventsSound, Asks
      <3>2. (id \in waiting /\ e.dialog = dialog[id]) <=> Quiet(events, id, 1, was + 1)
        BY <1>2, <2>2, <3>1 DEF Order, UpToNow, Asks
      <3>3. \A j \in DOMAIN events :
              1 < j /\ events[j].says = "attention" /\ events[j].id = id =>
                (e.dialog = events[j].dialog <=> Quiet(events, id, 1, j))
        BY <1>2, <2>2, <3>1 DEF Order, InOrder, Asks
      <3> QED  BY <1>1, <1>2, <1>4, <2>2, <3>2, <3>3
    <2> QED  BY <2>1, <2>2
  <1> QED  BY <1>6, <1>7, <1>8, <1>9 DEF Order

LEMMA TypeFacts ==
  ASSUME Inv
  PROVE  /\ \A id \in Ids : /\ dialog[id] \in Nat /\ heard[id] \in Nat
                            /\ in_attention[id] \in 0 .. last_stretch
                            /\ heard[id] <= dialog[id] /\ dialog[id] <= MaxDialogs[id]
                            /\ (heard[id] # 0 <=> in_attention[id] # 0)
         /\ \A id \in Ids, d \in Nat :
              1 <= d /\ d <= dialog[id] => <<id, d>> \in Dialogs
         /\ \A k \in Dialogs : k[1] \in Ids /\ k[2] \in Nat /\ k = <<k[1], k[2]>>
         /\ \A k \in Dialogs : runs[k] \in Nat
         /\ lags \in Nat /\ last_stretch \in Nat
         /\ \A n \in sleeping : n \in Notifications
         /\ \A i \in DOMAIN due : due[i] \in Notifications
  <1>1. \A id \in Ids : MaxDialogs[id] \in Nat /\ dialog[id] \in Nat /\ heard[id] \in Nat
    BY NumbersAreNat, NotifierAssumption DEF Inv, TypeOK
  <1>2. \A id \in Ids, d \in Nat : 1 <= d /\ d <= dialog[id] => <<id, d>> \in Dialogs
    <2>1. \A id \in Ids, d \in Nat : d <= MaxDialogs[id] => d \in Numbers
      BY <1>1 DEF Numbers
    <2> QED  BY <1>1, <2>1 DEF Dialogs, Inv, Counted
  <1>3. \A k \in Dialogs : k[1] \in Ids /\ k[2] \in Nat /\ k = <<k[1], k[2]>>
    BY NumbersAreNat DEF Dialogs
  <1>4. \A i \in DOMAIN due : due[i] \in Notifications
    BY ElementOfSeq DEF Inv, TypeOK
  <1> QED  BY <1>1, <1>2, <1>3, <1>4 DEF Inv, TypeOK, Counted

LEMMA ObserveKeeps ==
  ASSUME Inv, Observe
  PROVE  Inv'
  <1> DEFINE e == events[1]
             x == e.id
             k == <<e.id, e.dialog>>
             new == [id |-> e.id, stretch |-> last_stretch + 1, dialog |-> e.dialog]
             starts == e.says = "attention" /\ in_attention[x] = 0
  <1>0. /\ \A id \in Ids : /\ dialog[id] \in Nat /\ heard[id] \in Nat
                           /\ in_attention[id] \in 0 .. last_stretch
                           /\ heard[id] <= dialog[id] /\ dialog[id] <= MaxDialogs[id]
                           /\ (heard[id] # 0 <=> in_attention[id] # 0)
        /\ \A id \in Ids, d \in Nat :
             1 <= d /\ d <= dialog[id] => <<id, d>> \in Dialogs
        /\ \A l \in Dialogs : l[1] \in Ids /\ l[2] \in Nat /\ l = <<l[1], l[2]>>
        /\ \A l \in Dialogs : runs[l] \in Nat
        /\ lags \in Nat /\ last_stretch \in Nat
        /\ \A n \in sleeping : n \in Notifications
        /\ \A i \in DOMAIN due : due[i] \in Notifications
    BY TypeFacts
  <1>1. /\ events # <<>> /\ ~lagged /\ events' = Tail(events)
        /\ UNCHANGED <<delayed, waiting, dialog, repeats, lagged, due, lags>>
        /\ heard' = [heard EXCEPT ![Head(events).id] = Head(events).dialog]
    BY DEF Observe, harness
  <1>2. /\ events \in Seq(Events) /\ Len(events) <= EventBuffer /\ Len(events) \in Nat
        /\ heard \in [Ids -> Numbers] /\ runs \in [Dialogs -> Nat]
        /\ in_attention \in [Ids -> 0 .. last_stretch]
    BY DEF Inv, TypeOK
  <1>3. /\ Head(events) = e /\ e \in Events /\ 1 \in DOMAIN events
        /\ Len(events') = Len(events) - 1 /\ events' \in Seq(Events)
        /\ \A i \in DOMAIN events' : i + 1 \in DOMAIN events /\ events'[i] = events[i + 1]
        /\ DOMAIN events' = 1 .. Len(events) - 1
    BY <1>1, <1>2, TailQuiet
  <1>4. /\ x \in Ids /\ e.dialog \in Nat /\ e.dialog \in Numbers
        /\ e.dialog <= dialog[x]
        /\ e.says = "attention" <=> e.dialog # 0
    BY <1>3, NumbersAreNat DEF Events, Inv, Order, EventsSound, Asks
  <1>5. \A id \in Ids : heard'[id] = IF id = x THEN e.dialog ELSE heard[id]
    BY <1>1, <1>2, <1>3, <1>4
  <1>6. ASSUME starts
        PROVE  /\ k \in Dialogs /\ heard[x] = 0 /\ runs[k] <= lags
               /\ last_stretch' = last_stretch + 1
               /\ in_attention' = [in_attention EXCEPT ![x] = last_stretch + 1]
               /\ \/ sleeping' = sleeping \cup {new} /\ runs' = runs
                  \/ sleeping' = sleeping /\ runs' = [runs EXCEPT ![k] = @ + 1]
    <2>1. k \in Dialogs /\ heard[x] = 0
      BY <1>4, <1>6, <1>0
    <2>2. runs[k] <= lags
      <3>1. heard[x] # e.dialog /\ Asks(1)
        BY <1>4, <1>6, <2>1 DEF Asks
      <3> QED  BY <1>1, <1>3, <3>1 DEF Inv, RunsLeft
    <2> QED  BY <1>3, <1>6, <2>1, <2>2 DEF Observe, StartsStretch, Notify, Run
  <1>7. ASSUME ~starts
        PROVE  /\ UNCHANGED <<last_stretch, sleeping, runs>>
               /\ \A id \in Ids : in_attention'[id] =
                    IF id = x /\ e.says # "attention" THEN 0 ELSE in_attention[id]
               /\ in_attention' \in [Ids -> 0 .. last_stretch]
    <2>1. /\ UNCHANGED <<last_stretch, sleeping, runs>>
          /\ in_attention' = IF e.says # "attention"
                             THEN [in_attention EXCEPT ![x] = 0] ELSE in_attention
      BY <1>3, <1>7 DEF Observe, StartsStretch, EndsStretch
    <2>2. 0 \in 0 .. last_stretch
      BY <1>0
    <2> QED  BY <1>2, <1>4, <2>1, <2>2
  <1>8. e.says = "attention" /\ in_attention[x] # 0 => heard[x] = e.dialog
    <2>1. e.says = "attention" /\ heard[x] # 0 => (heard[x] = e.dialog <=> Quiet(events, x, 0, 1))
      BY <1>1, <1>3, <1>4 DEF Inv, Order, FromHeard, Asks
    <2>2. Quiet(events, x, 0, 1)
      BY <1>1, <1>2, QuietFrom
    <2> QED  BY <1>4, <2>1, <2>2, <1>0
  <1> HIDE DEF starts, new, k, x, e
  <1>9. TypeOK'
    <2>1. heard' \in [Ids -> Numbers]
      BY <1>1, <1>2, <1>3, <1>4
    <2>2. ASSUME starts
          PROVE  /\ last_stretch' \in Nat /\ in_attention' \in [Ids -> 0 .. last_stretch']
                 /\ sleeping' \subseteq Notifications /\ runs' \in [Dialogs -> Nat]
      <3>1. new \in Notifications
        BY <1>0, <1>4 DEF new, Notifications, x
      <3> QED  BY <1>2, <1>4, <1>6, <2>2, <3>1, <1>0
    <2>3. ASSUME ~starts
          PROVE  /\ last_stretch' \in Nat /\ in_attention' \in [Ids -> 0 .. last_stretch']
                 /\ sleeping' \subseteq Notifications /\ runs' \in [Dialogs -> Nat]
      BY <1>0, <1>2, <1>7, <2>3
    <2>4. /\ last_stretch' \in Nat /\ in_attention' \in [Ids -> 0 .. last_stretch']
          /\ sleeping' \subseteq Notifications /\ runs' \in [Dialogs -> Nat]
      BY <2>2, <2>3
    <2>5. /\ events' \in Seq(Events) /\ Len(events') <= EventBuffer
      BY <1>2, <1>3, NotifierAssumption
    <2> QED  BY <1>1, <2>1, <2>4, <2>5 DEF Inv, TypeOK
  <1>10. Order'
    BY <1>1, ObserveOrder DEF Inv
  <1>11. \A id \in Ids : in_attention'[id] = IF id # x THEN in_attention[id]
                                            ELSE IF starts THEN last_stretch + 1
                                            ELSE IF e.says # "attention" THEN 0
                                            ELSE in_attention[x]
    BY <1>2, <1>4, <1>6, <1>7
  <1>12. Counted'
    BY <1>1, <1>4, <1>5, <1>8, <1>11, <1>0 DEF Inv, Counted, starts
  <1>13. \A l \in Dialogs : runs'[l] = runs[l] \/ (starts /\ l = k /\ runs'[l] = runs[l] + 1)
    BY <1>2, <1>6, <1>7
  <1>14. OncePerDialog'
    BY <1>1, <1>6, <1>13, <1>0 DEF Inv, OncePerDialog
  <1>15. ASSUME NEW n \in Notifications, Begun(n), HasRunLeft(n)
         PROVE  Begun(n)' /\ HasRunLeft(n)'
    <2>1. n.id \in Ids /\ n.stretch \in Nat /\ n.dialog \in Nat
      BY NumbersAreNat DEF Notifications
    <2>2. Begun(n)'
      BY <1>1, <1>6, <1>7, <1>15, <1>0 DEF Begun
    <2>3. CASE n.id # x
      <3>1. <<n.id, n.dialog>> \in Dialogs /\ <<n.id, n.dialog>> # k
        BY <2>1, <2>3, <1>0, <1>15 DEF Begun, k, x
      <3>2. runs'[<<n.id, n.dialog>>] = runs[<<n.id, n.dialog>>]
        BY <3>1, <1>13
      <3>3. heard'[n.id] = heard[n.id] /\ in_attention'[n.id] = in_attention[n.id]
        BY <2>1, <2>3, <1>5, <1>11
      <3>4. lags' = lags
        BY <1>1
      <3> QED  BY <2>2, <3>2, <3>3, <3>4, <1>15 DEF HasRunLeft, IsOpen
    <2>4. CASE n.id = x /\ in_attention'[x] = n.stretch
      <3>1. ~starts /\ in_attention[x] = n.stretch /\ e.says = "attention"
        BY <2>1, <2>4, <1>4, <1>11, <1>15, <1>0 DEF Begun
      <3>2. heard'[x] = heard[x] /\ in_attention[x] # 0
        BY <3>1, <1>4, <1>5, <1>8, <1>15 DEF Begun
      <3> QED  BY <2>1, <2>2, <2>4, <3>1, <3>2, <1>1, <1>7, <1>15 DEF HasRunLeft, IsOpen
    <2> QED  BY <2>2, <2>3, <2>4 DEF HasRunLeft, IsOpen
  <1>16. ASSUME starts, NEW n, n = new
         PROVE  Begun(n)' /\ (n \in sleeping' => n \in sleeping \/ HasRunLeft(n)')
    <2>1. /\ n.id = x /\ n.dialog = e.dialog /\ n.stretch = last_stretch + 1
          /\ k = <<n.id, n.dialog>> /\ e.dialog # 0
      BY <1>4, <1>16 DEF new, k, x, starts
    <2>2. Begun(n)'
      BY <2>1, <1>0, <1>1, <1>4, <1>6, <1>16 DEF Begun
    <2>3. ASSUME n \in sleeping', n \notin sleeping
          PROVE  runs' = runs
      BY <2>3, <1>6, <1>16
    <2>4. heard'[n.id] = n.dialog /\ runs[<<n.id, n.dialog>>] <= lags
      BY <2>1, <1>4, <1>5, <1>6, <1>16
    <2> QED  BY <2>2, <2>3, <2>4, <1>1 DEF HasRunLeft
  <1>17. NotificationsSound'
    <2>1. \A n \in sleeping' : n \in sleeping \/ (starts /\ n = new)
      BY <1>6, <1>7
    <2>2. ASSUME NEW n \in sleeping'
          PROVE  Begun(n)' /\ HasRunLeft(n)'
      <3>1. CASE n \in sleeping
        BY <3>1, <1>0, <1>15 DEF Inv, NotificationsSound
      <3>2. CASE n \notin sleeping
        BY <3>2, <2>1, <2>2, <1>16
      <3> QED  BY <3>1, <3>2
    <2>3. ASSUME NEW i \in DOMAIN due', NEW n, n = due'[i]
          PROVE  Begun(n)' /\ HasRunLeft(n)'
      <3>1. n = due[i] /\ i \in DOMAIN due
        BY <2>3, <1>1
      <3> QED  BY <3>1, <1>0, <1>15 DEF Inv, NotificationsSound
    <2>4. new.stretch = last_stretch + 1
      BY DEF new
    <2>5. /\ \A n \in sleeping : n.stretch \in 1 .. last_stretch
          /\ \A i \in DOMAIN due : due[i].stretch \in 1 .. last_stretch
      BY DEF Inv, NotificationsSound, Begun
    <2>6. /\ \A n, m \in sleeping' : n.stretch = m.stretch => n = m
          /\ \A n \in sleeping', i \in DOMAIN due : n.stretch # due[i].stretch
      BY <2>1, <2>4, <2>5, <1>0 DEF Inv, NotificationsSound, StretchesApart
    <2>7. StretchesApart'
      BY <1>1, <2>6 DEF Inv, NotificationsSound, StretchesApart
    <2> QED  BY <1>1, <2>2, <2>3, <2>7 DEF NotificationsSound
  <1>18. ASSUME NEW d \in Nat, heard[x] = d, heard[x] # 0, NEW j \in Nat, 1 < j,
                Quiet(events, x, 0, j)
         PROVE  heard'[x] = d
    <2>1. e.says = "attention"
      BY <1>1, <1>2, <1>18, QuietFrom DEF e, x
    <2> QED  BY <2>1, <1>4, <1>5, <1>8, <1>18, <1>0
  <1>19. RunsLeft'
    <2>1. \A l \in Dialogs : dialog[l[1]] < l[2] => runs'[l] = 0
      BY <1>4, <1>13, <1>0 DEF Inv, RunsLeft, k, x
    <2>2. ASSUME NEW i \in DOMAIN events', events'[i].says = "attention",
                 heard'[events'[i].id] # events'[i].dialog
          PROVE  runs'[<<events'[i].id, events'[i].dialog>>] <= lags
      <3> DEFINE f == events[i + 1]
                 l == <<f.id, f.dialog>>
      <3>1. /\ events'[i] = f /\ i + 1 \in DOMAIN events /\ f \in Events
            /\ i + 1 \in Nat /\ 1 < i + 1
        BY <1>2, <1>3, ElementOfSeq
      <3>2. f.id \in Ids /\ f.dialog \in Nat /\ f.dialog # 0 /\ f.dialog <= dialog[f.id]
        BY <2>2, <3>1, NumbersAreNat DEF Events, Inv, Order, EventsSound, Asks
      <3>3. l \in Dialogs
        BY <3>2, <1>0
      <3>4. l # k
        BY <2>2, <3>1, <3>2, <1>5 DEF k, x
      <3>5. heard[f.id] # f.dialog
        <4>1. ASSUME heard[f.id] = f.dialog
              PROVE  Quiet(events, f.id, 0, i + 1)
          BY <4>1, <2>2, <3>1, <3>2, <1>1 DEF Inv, Order, FromHeard, Asks
        <4> QED  BY <2>2, <3>1, <3>2, <4>1, <1>5, <1>18
      <3>6. runs[l] <= lags
        BY <2>2, <3>1, <3>5, <1>1 DEF Inv, RunsLeft, Asks
      <3> QED  BY <3>1, <3>3, <3>4, <3>6, <1>13
    <2>3. ASSUME NEW id \in waiting, heard'[id] # dialog[id]
          PROVE  runs'[<<id, dialog[id]>>] <= lags
      <3>1. id \in Ids /\ dialog[id] # 0 /\ dialog[id] \in Nat /\ <<id, dialog[id]>> \in Dialogs
        BY <1>0 DEF Inv, TypeOK, Counted
      <3>2. <<id, dialog[id]>> # k
        BY <2>3, <3>1, <1>5 DEF k, x
      <3>3. heard[id] # dialog[id]
        <4>1. ASSUME heard[id] = dialog[id]
              PROVE  Quiet(events, id, 0, Len(events) + 1)
          BY <4>1, <2>3, <3>1, <1>1 DEF Inv, Order, FromHeard
        <4>2. Len(events) + 1 \in Nat /\ 1 < Len(events) + 1
          BY <1>2, <1>3
        <4> QED  BY <2>3, <3>1, <4>1, <4>2, <1>5, <1>18
      <3>4. runs[<<id, dialog[id]>>] <= lags
        BY <2>3, <3>3, <1>1 DEF Inv, RunsLeft
      <3> QED  BY <3>1, <3>2, <3>4, <1>13
    <2> QED  BY <1>1, <2>1, <2>2, <2>3 DEF RunsLeft, Asks
  <1>20. HeardIsAnnounced'
    <2> SUFFICES ASSUME NEW id \in Ids, heard'[id] # 0
                 PROVE  runs'[<<id, heard'[id]>>] > 0 \/ Waits(id)'
      BY DEF HeardIsAnnounced
    <2>1. \A n : n \in sleeping => n \in sleeping'
      BY <1>6, <1>7
    <2>2. CASE id = x /\ starts
      <3>1. /\ new.id = x /\ new.stretch = last_stretch + 1
            /\ k = <<id, heard'[id]>> /\ in_attention'[x] = last_stretch + 1
        BY <2>2, <1>4, <1>5, <1>11 DEF new, k, x
      <3>2. CASE new \in sleeping'
        BY <2>2, <3>1, <3>2 DEF Waits, IsOpen
      <3>3. CASE runs' = [runs EXCEPT ![k] = @ + 1]
        BY <2>2, <3>1, <3>3, <1>0, <1>2, <1>6
      <3> QED  BY <2>2, <3>2, <3>3, <1>6
    <2>3. CASE ~(id = x /\ starts)
      <3>1. heard'[id] = heard[id] /\ in_attention'[id] = in_attention[id]
        BY <2>3, <1>4, <1>5, <1>8, <1>11 DEF starts
      <3>2. runs[<<id, heard[id]>>] > 0 \/ Waits(id)
        BY <3>1 DEF Inv, HeardIsAnnounced
      <3>3. <<id, heard[id]>> \in Dialogs
        BY <3>1, <1>0
      <3>4. runs'[<<id, heard[id]>>] >= runs[<<id, heard[id]>>]
        BY <3>3, <1>13, <1>0
      <3>5. Waits(id) => Waits(id)'
        BY <1>1, <2>1, <3>1 DEF Waits, IsOpen
      <3>6. runs[<<id, heard[id]>>] > 0 => runs'[<<id, heard[id]>>] > 0
        BY <3>3, <1>13, <1>0
      <3> QED  BY <3>1, <3>2, <3>5, <3>6
    <2> QED  BY <2>2, <2>3
  <1> QED  BY <1>9, <1>10, <1>12, <1>14, <1>17, <1>19, <1>20 DEF Inv

LEMMA LaggedKeeps ==
  ASSUME Inv, Lagged
  PROVE  Inv'
  <1>1. /\ lagged' = FALSE /\ in_attention' = [id \in Ids |-> 0] /\ heard' = [id \in Ids |-> 0]
        /\ lags' = lags + 1
        /\ UNCHANGED <<delayed, waiting, dialog, repeats, events, last_stretch, sleeping, due, runs>>
    BY DEF Lagged, Forgotten, harness
  <1>2. \A k \in Dialogs : runs[k] \in Nat /\ runs[k] <= lags + 1
    BY TypeFacts DEF Inv, OncePerDialog
  <1>3. lags \in Nat /\ last_stretch \in Nat
    BY TypeFacts
  <1>4. TypeOK'
    <2>1. Ids # {} => 0 \in Numbers
      BY NotifierAssumption DEF Numbers
    <2>2. in_attention' \in [Ids -> 0 .. last_stretch] /\ heard' \in [Ids -> Numbers]
      BY <1>1, <1>3, <2>1
    <2>3. lagged' \in BOOLEAN
      BY <1>1, Zenon
    <2>6. lags' \in Nat
      BY <1>1, <1>3
    <2>4. /\ delayed' \in BOOLEAN /\ waiting' \subseteq Ids
          /\ dialog' \in [Ids -> Numbers] /\ repeats' \in 0 .. MaxRepeats
          /\ events' \in Seq(Events) /\ Len(events') <= EventBuffer
          /\ last_stretch' \in Nat
          /\ sleeping' \subseteq Notifications /\ due' \in Seq(Notifications)
          /\ runs' \in [Dialogs -> Nat]
      BY <1>1 DEF Inv, TypeOK
    <2>5. in_attention' \in [Ids -> 0 .. last_stretch']
      BY <1>1, <2>2
    <2> QED  BY <2>2, <2>3, <2>4, <2>5, <2>6, Zenon DEF TypeOK
  <1>5. Order'
    BY <1>1 DEF Inv, Order, EventsSound, InOrder, UpToNow, FromHeard, Quiet, Asks
  <1>6. Counted'
    BY <1>1, TypeFacts DEF Inv, Counted
  <1>7. NotificationsSound'
    <2>1. ASSUME NEW n \in Notifications, Begun(n)
          PROVE  Begun(n)' /\ HasRunLeft(n)'
      BY <2>1, <1>1, <1>3 DEF Begun, HasRunLeft, IsOpen, Notifications
    <2>2. ASSUME NEW i \in DOMAIN due', NEW n, n = due'[i]
          PROVE  Begun(n)' /\ HasRunLeft(n)'
      BY <2>1, <2>2, <1>1, TypeFacts DEF Inv, NotificationsSound
    <2> QED  BY <2>1, <2>2, <1>1, TypeFacts DEF Inv, NotificationsSound, StretchesApart
  <1>8. RunsLeft'
    <2>1. ASSUME NEW i \in DOMAIN events, events[i].says = "attention"
          PROVE  <<events[i].id, events[i].dialog>> \in Dialogs
      <3>1. events[i] \in Events
        BY ElementOfSeq DEF Inv, TypeOK
      <3>2. events[i].id \in Ids /\ events[i].dialog \in Nat
        BY <3>1, NumbersAreNat DEF Events
      <3>3. events[i].dialog # 0 /\ events[i].dialog <= dialog[events[i].id]
        BY <2>1 DEF Inv, Order, EventsSound, Asks
      <3> QED  BY <3>2, <3>3, TypeFacts
    <2>2. ASSUME NEW id \in waiting
          PROVE  <<id, dialog[id]>> \in Dialogs
      <3>1. id \in Ids /\ dialog[id] # 0
        BY DEF Inv, TypeOK, Counted
      <3> QED  BY <3>1, TypeFacts
    <2> QED  BY <2>1, <2>2, <1>1, <1>2 DEF Inv, RunsLeft, Asks
  <1>9. OncePerDialog' /\ HeardIsAnnounced'
    BY <1>1, <1>2, <1>3 DEF OncePerDialog, HeardIsAnnounced
  <1> QED  BY <1>4, <1>5, <1>6, <1>7, <1>8, <1>9 DEF Inv

LEMMA DelayOverKeeps ==
  ASSUME Inv, NEW n \in sleeping, DelayOver(n)
  PROVE  Inv'
  <1>1. /\ sleeping' = sleeping \ {n} /\ due' = Append(due, n)
        /\ UNCHANGED <<delayed, waiting, dialog, repeats, events, lagged, in_attention,
                       last_stretch, heard, lags, runs>>
    BY DEF DelayOver, harness, channel, tracker, history
  <1>2. /\ n \in Notifications /\ due \in Seq(Notifications)
        /\ Len(due) \in Nat /\ DOMAIN due = 1 .. Len(due)
    BY DEF Inv, TypeOK
  <1>3. /\ due' \in Seq(Notifications) /\ DOMAIN due' = 1 .. Len(due) + 1
        /\ \A i \in DOMAIN due : i \in DOMAIN due' /\ due'[i] = due[i]
        /\ Len(due) + 1 \in DOMAIN due' /\ due'[Len(due) + 1] = n
    BY <1>1, <1>2, AppendProperties
  <1>4. ASSUME NEW i \in DOMAIN due'
        PROVE  (i \in DOMAIN due /\ due'[i] = due[i]) \/ (i = Len(due) + 1 /\ due'[i] = n)
    <2>1. i \in 1 .. Len(due) \/ i = Len(due) + 1
      BY <1>2, <1>3
    <2> QED  BY <2>1, <1>2, <1>3
  <1>5. TypeOK'
    BY <1>1, <1>3 DEF Inv, TypeOK
  <1>6. Order' /\ Counted' /\ RunsLeft' /\ OncePerDialog'
    BY <1>1 DEF Inv, Order, EventsSound, InOrder, UpToNow, FromHeard, Quiet, Asks,
                Counted, RunsLeft, OncePerDialog
  <1>7. NotificationsSound'
    <2>1. ASSUME NEW m, Begun(m), HasRunLeft(m)
          PROVE  Begun(m)' /\ HasRunLeft(m)'
      BY <2>1, <1>1 DEF Begun, HasRunLeft, IsOpen
    <2>2. ASSUME NEW i \in DOMAIN due', NEW m, m = due'[i]
          PROVE  Begun(m)' /\ HasRunLeft(m)'
      BY <2>1, <2>2, <1>4 DEF Inv, NotificationsSound
    <2>3. \A m \in sleeping : m # n => m.stretch # n.stretch
      BY DEF Inv, NotificationsSound, StretchesApart
    <2>4. \A i \in DOMAIN due : n.stretch # due[i].stretch
      BY DEF Inv, NotificationsSound, StretchesApart
    <2>5. \A i, j \in DOMAIN due' : due'[i].stretch = due'[j].stretch => i = j
      BY <1>4, <2>4 DEF Inv, NotificationsSound, StretchesApart
    <2>6. \A m \in sleeping', i \in DOMAIN due' : m.stretch # due'[i].stretch
      BY <1>1, <1>4, <2>3 DEF Inv, NotificationsSound, StretchesApart
    <2>7. StretchesApart'
      BY <1>1, <2>5, <2>6 DEF Inv, NotificationsSound, StretchesApart
    <2>8. \A m \in sleeping' : Begun(m)' /\ HasRunLeft(m)'
      BY <1>1, <2>1 DEF Inv, NotificationsSound
    <2> QED  BY <2>2, <2>7, <2>8 DEF NotificationsSound
  <1>8. HeardIsAnnounced'
    <2> SUFFICES ASSUME NEW id \in Ids, heard[id] # 0
                 PROVE  runs[<<id, heard[id]>>] > 0 \/ Waits(id)'
      BY <1>1 DEF HeardIsAnnounced
    <2>1. runs[<<id, heard[id]>>] > 0 \/ Waits(id)
      BY DEF Inv, HeardIsAnnounced
    <2>2. ASSUME NEW m \in sleeping, m.id = id, in_attention[id] = m.stretch
          PROVE  Waits(id)'
      <3>1. CASE m = n
        BY <2>2, <3>1, <1>1, <1>3 DEF Waits, IsOpen
      <3>2. CASE m # n
        BY <2>2, <3>2, <1>1 DEF Waits, IsOpen
      <3> QED  BY <3>1, <3>2
    <2>3. ASSUME NEW i \in DOMAIN due, due[i].id = id, in_attention[id] = due[i].stretch
          PROVE  Waits(id)'
      BY <2>3, <1>1, <1>3 DEF Waits, IsOpen
    <2> QED  BY <2>1, <2>2, <2>3 DEF Waits, IsOpen
  <1> QED  BY <1>5, <1>6, <1>7, <1>8 DEF Inv

LEMMA DueKeeps ==
  ASSUME Inv, Due
  PROVE  Inv' /\ (\A k \in Dialogs : runs'[k] > runs[k] => heard'[k[1]] = k[2])
  <1> DEFINE n == due[1]
             l == <<n.id, n.dialog>>
  <1>1. /\ due # <<>> /\ due' = Tail(due)
        /\ UNCHANGED <<delayed, waiting, dialog, repeats, events, lagged, in_attention,
                       last_stretch, sleeping, heard, lags>>
    BY DEF Due, harness, channel, tracker
  <1>2. /\ due \in Seq(Notifications) /\ runs \in [Dialogs -> Nat]
        /\ Len(due) \in Nat \ {0} /\ DOMAIN due = 1 .. Len(due)
    BY <1>1, EmptySeq DEF Inv, TypeOK
  <1>3. /\ due' \in Seq(Notifications) /\ DOMAIN due' = 1 .. Len(due) - 1
        /\ \A i \in 1 .. Len(due) - 1 : due'[i] = due[i + 1]
    <2>1. /\ Tail(due) \in Seq(Notifications) /\ Len(Tail(due)) = Len(due) - 1
          /\ \A i \in 1 .. Len(Tail(due)) : Tail(due)[i] = due[i + 1]
      BY <1>1, <1>2, HeadTailProperties
    <2> QED  BY <1>1, <2>1
  <1>4. \A i \in DOMAIN due' : i + 1 \in DOMAIN due /\ due'[i] = due[i + 1] /\ i + 1 # 1
    BY <1>2, <1>3
  <1>5. n \in Notifications /\ 1 \in DOMAIN due /\ Head(due) = n
    BY <1>2, ElementOfSeq
  <1>6. /\ Begun(n) /\ HasRunLeft(n)
        /\ n.id \in Ids /\ n.dialog \in Nat /\ n.stretch \in Nat /\ l \in Dialogs
    <2>1. Begun(n) /\ HasRunLeft(n)
      BY <1>5 DEF Inv, NotificationsSound
    <2>2. n.id \in Ids /\ n.dialog \in Nat /\ n.stretch \in Nat
      BY <1>5, NumbersAreNat DEF Notifications
    <2>3. 1 <= n.dialog /\ n.dialog <= dialog[n.id]
      BY <2>1, <2>2, TypeFacts DEF Begun
    <2> QED  BY <2>1, <2>2, <2>3, TypeFacts
  <1>7. \/ UNCHANGED runs /\ ~IsOpen(n)
        \/ /\ IsOpen(n) /\ runs' = [runs EXCEPT ![l] = @ + 1]
           /\ heard[n.id] = n.dialog /\ runs[l] <= lags
    BY <1>5, <1>6 DEF Due, Run, HasRunLeft
  <1> HIDE DEF n, l
  <1>8. \A k \in Dialogs : \/ runs'[k] = runs[k]
                          \/ /\ k = l /\ runs'[k] = runs[k] + 1 /\ runs[k] <= lags
                             /\ IsOpen(n) /\ heard[n.id] = n.dialog
    BY <1>2, <1>6, <1>7
  <1>9. TypeOK'
    <2>1. runs' \in [Dialogs -> Nat]
      BY <1>2, <1>6, <1>7
    <2> QED  BY <1>1, <1>3, <2>1 DEF Inv, TypeOK
  <1>10. Order' /\ Counted'
    BY <1>1 DEF Inv, Order, EventsSound, InOrder, UpToNow, FromHeard, Quiet, Asks, Counted
  <1>11. OncePerDialog'
    BY <1>1, <1>8, TypeFacts DEF Inv, OncePerDialog
  <1>12. \A id \in Ids, d \in Nat : heard[id] # d => <<id, d>> # l \/ UNCHANGED runs
    BY <1>6, <1>7 DEF l
  <1>13. RunsLeft'
    <2>1. \A k \in Dialogs : dialog[k[1]] < k[2] => runs'[k] = 0
      <3>1. dialog[l[1]] >= l[2]
        BY <1>6, TypeFacts DEF l, Begun
      <3> QED  BY <3>1, <1>6, <1>8, TypeFacts DEF Inv, RunsLeft
    <2>2. ASSUME NEW i \in DOMAIN events, events[i].says = "attention",
                 heard[events[i].id] # events[i].dialog, ~lagged
          PROVE  runs'[<<events[i].id, events[i].dialog>>] <= lags
      <3>1. events[i] \in Events
        BY ElementOfSeq DEF Inv, TypeOK
      <3>2. events[i].id \in Ids /\ events[i].dialog \in Nat
        BY <3>1, NumbersAreNat DEF Events
      <3>3. events[i].dialog # 0 /\ events[i].dialog <= dialog[events[i].id]
        BY <2>2 DEF Inv, Order, EventsSound, Asks
      <3>4. <<events[i].id, events[i].dialog>> \in Dialogs
        BY <3>2, <3>3, TypeFacts
      <3>5. runs[<<events[i].id, events[i].dialog>>] <= lags
        BY <2>2 DEF Inv, RunsLeft, Asks
      <3> QED  BY <2>2, <3>2, <3>4, <3>5, <1>8, <1>12
    <2>3. ASSUME NEW id \in waiting, heard[id] # dialog[id], ~lagged
          PROVE  runs'[<<id, dialog[id]>>] <= lags
      <3>1. id \in Ids /\ dialog[id] # 0
        BY DEF Inv, TypeOK, Counted
      <3>2. <<id, dialog[id]>> \in Dialogs /\ dialog[id] \in Nat
        BY <3>1, TypeFacts
      <3>3. runs[<<id, dialog[id]>>] <= lags
        BY <2>3 DEF Inv, RunsLeft
      <3> QED  BY <2>3, <3>1, <3>2, <3>3, <1>8, <1>12
    <2> QED  BY <1>1, <2>1, <2>2, <2>3 DEF RunsLeft, Asks
  <1>14. ASSUME NEW m \in Notifications, Begun(m), HasRunLeft(m), m.stretch # n.stretch
         PROVE  Begun(m)' /\ HasRunLeft(m)'
    <2>1. m.id \in Ids /\ m.dialog \in Nat /\ m.stretch \in Nat
      BY NumbersAreNat DEF Notifications
    <2>2. <<m.id, m.dialog>> \in Dialogs
      BY <2>1, <1>14, TypeFacts DEF Begun
    <2>3. CASE IsOpen(m)
      <3>1. ~(IsOpen(n) /\ m.id = n.id)
        BY <1>14, <2>3 DEF IsOpen
      <3>2. runs'[<<m.id, m.dialog>>] = runs[<<m.id, m.dialog>>]
        BY <3>1, <2>2, <1>8 DEF l
      <3> QED  BY <3>2, <1>1, <1>14, <2>3 DEF Begun, HasRunLeft, IsOpen
    <2>4. CASE ~IsOpen(m)
      BY <2>4, <1>1, <1>14 DEF Begun, HasRunLeft, IsOpen
    <2> QED  BY <2>3, <2>4
  <1>15. NotificationsSound'
    <2>1. \A m \in sleeping : Begun(m)' /\ HasRunLeft(m)'
      <3>1. \A m \in sleeping : m.stretch # n.stretch
        BY <1>5 DEF Inv, NotificationsSound, StretchesApart, n
      <3> QED  BY <3>1, <1>14, TypeFacts DEF Inv, NotificationsSound
    <2>2. ASSUME NEW i \in DOMAIN due', NEW m, m = due'[i]
          PROVE  Begun(m)' /\ HasRunLeft(m)'
      <3>1. m = due[i + 1] /\ i + 1 \in DOMAIN due /\ i + 1 # 1
        BY <2>2, <1>4
      <3>2. m.stretch # n.stretch
        BY <3>1, <1>5 DEF Inv, NotificationsSound, StretchesApart, n
      <3> QED  BY <3>1, <3>2, <1>14, TypeFacts DEF Inv, NotificationsSound
    <2>3. \A i, j \in DOMAIN due' : due'[i].stretch = due'[j].stretch => i = j
      <3>1. \A i, j \in DOMAIN due' : i + 1 = j + 1 => i = j
        BY <1>3
      <3> QED  BY <3>1, <1>4 DEF Inv, NotificationsSound, StretchesApart
    <2>4. StretchesApart'
      BY <1>1, <1>4, <2>3 DEF Inv, NotificationsSound, StretchesApart
    <2> QED  BY <1>1, <2>1, <2>2, <2>4 DEF NotificationsSound
  <1>16. HeardIsAnnounced'
    <2> SUFFICES ASSUME NEW id \in Ids, heard[id] # 0
                 PROVE  runs'[<<id, heard[id]>>] > 0 \/ Waits(id)'
      BY <1>1 DEF HeardIsAnnounced
    <2>0. <<id, heard[id]>> \in Dialogs
      BY TypeFacts
    <2>1. runs[<<id, heard[id]>>] > 0 \/ Waits(id)
      BY DEF Inv, HeardIsAnnounced
    <2>2. runs[<<id, heard[id]>>] > 0 => runs'[<<id, heard[id]>>] > 0
      BY <1>8, <2>0, TypeFacts
    <2>3. ASSUME NEW m \in sleeping, m.id = id, in_attention[id] = m.stretch
          PROVE  Waits(id)'
      BY <2>3, <1>1 DEF Waits, IsOpen
    <2>4. ASSUME NEW i \in DOMAIN due, due[i].id = id, in_attention[id] = due[i].stretch
          PROVE  runs'[<<id, heard[id]>>] > 0 \/ Waits(id)'
      <3>1. CASE i = 1
        <4>1. IsOpen(n) /\ n.id = id
          BY <2>4, <3>1 DEF IsOpen, n
        <4>2. runs' = [runs EXCEPT ![l] = @ + 1] /\ l = <<id, heard[id]>>
          BY <4>1, <1>7 DEF l
        <4> QED  BY <4>2, <2>0, <1>2, TypeFacts
      <3>2. CASE i # 1
        <4>1. i - 1 \in DOMAIN due' /\ due'[i - 1] = due[i]
          <5>1. i - 1 \in 1 .. Len(due) - 1 /\ (i - 1) + 1 = i
            BY <3>2, <1>2
          <5> QED  BY <5>1, <1>3
        <4> QED  BY <2>4, <4>1, <1>1 DEF Waits, IsOpen
      <3> QED  BY <3>1, <3>2
    <2> QED  BY <2>1, <2>2, <2>3, <2>4 DEF Waits, IsOpen
  <1>17. \A k \in Dialogs : runs'[k] > runs[k] => heard'[k[1]] = k[2]
    <2>1. heard[n.id] = n.dialog => heard[l[1]] = l[2]
      BY DEF l
    <2> QED  BY <2>1, <1>1, <1>8, TypeFacts
  <1> QED  BY <1>9, <1>10, <1>11, <1>13, <1>15, <1>16, <1>17 DEF Inv

-----------------------------------------------------------------------------
(* The theorems *)

LEMMA InitInv ==
  ASSUME Init
  PROVE  Inv
  <1>1. MaxDialogs \in [Ids -> Nat] /\ MaxRepeats \in Nat /\ EventBuffer \in Nat
    BY NotifierAssumption
  <1>2. \A id \in Ids : 0 \in Numbers
    BY <1>1 DEF Numbers
  <1>3. TypeOK
    <2>1. delayed \in BOOLEAN /\ lagged \in BOOLEAN
      BY Zenon DEF Init
    <2>2. /\ waiting \subseteq Ids /\ sleeping \subseteq Notifications
          /\ dialog \in [Ids -> Numbers] /\ heard \in [Ids -> Numbers]
      BY <1>2 DEF Init
    <2>3. /\ last_stretch \in Nat /\ in_attention \in [Ids -> 0 .. last_stretch]
          /\ lags \in Nat /\ runs \in [Dialogs -> Nat] /\ repeats \in 0 .. MaxRepeats
      BY <1>1 DEF Init
    <2>4. /\ events \in Seq(Events) /\ Len(events) <= EventBuffer
          /\ due \in Seq(Notifications)
      BY <1>1 DEF Init
    <2> QED  BY <2>1, <2>2, <2>3, <2>4, Zenon DEF TypeOK
  <1>4. Order
    BY DEF Init, Order, EventsSound, InOrder, UpToNow, FromHeard
  <1>5. Counted
    <2>1. \A id \in Ids : dialog[id] = 0 /\ heard[id] = 0 /\ in_attention[id] = 0
      BY DEF Init
    <2>2. \A id \in Ids : id \notin waiting
      BY DEF Init
    <2>3. ASSUME NEW id \in Ids
          PROVE  /\ dialog[id] <= MaxDialogs[id] /\ heard[id] <= dialog[id]
                 /\ heard[id] # 0 <=> in_attention[id] # 0
      <3>1. MaxDialogs[id] \in Nat /\ dialog[id] = 0 /\ heard[id] = 0 /\ in_attention[id] = 0
        BY <1>1, <2>1
      <3>2. 0 <= MaxDialogs[id]
        BY <3>1
      <3>3. dialog[id] <= MaxDialogs[id] /\ heard[id] <= dialog[id]
        BY <3>1, <3>2
      <3> QED  BY <3>1, <3>3
    <2> QED  BY <2>2, <2>3, Zenon DEF Counted
  <1>6. NotificationsSound
    BY DEF Init, NotificationsSound, StretchesApart
  <1>7. RunsLeft /\ OncePerDialog /\ HeardIsAnnounced
    BY DEF Init, RunsLeft, OncePerDialog, HeardIsAnnounced
  <1> QED  BY <1>3, <1>4, <1>5, <1>6, <1>7 DEF Inv

\* What a step may do to the counts of runs.
Announces == \A k \in Dialogs : runs'[k] > runs[k] => heard'[k[1]] = k[2]

LEMMA NextInv ==
  ASSUME Inv, [Next]_vars
  PROVE  Inv' /\ (Announces \/ UNCHANGED vars)
  <1>1. ASSUME \/ \E id \in Ids : DialogOpens(id) \/ Repeat(id)
               \/ \E id \in Ids, says \in Says : DialogCloses(id, says)
        PROVE  Inv' /\ Announces
    <2>1. PICK event \in Events : RegistryStep(event)
      BY <1>1, RegistrySteps
    <2>2. runs' = runs
      BY <2>1 DEF RegistryStep, Publish, history
    <2> QED  BY <2>1, <2>2, RegistryKeeps, TypeFacts DEF Announces
  <1>2. ASSUME Observe
        PROVE  Inv' /\ Announces
    <2>1. Inv'
      BY <1>2, ObserveKeeps
    <2>2. Announces
      <3>1. \/ runs' = runs
            \/ /\ runs' = [runs EXCEPT ![<<Head(events).id, Head(events).dialog>>] = @ + 1]
               /\ heard' = [heard EXCEPT ![Head(events).id] = Head(events).dialog]
        BY <1>2 DEF Observe, Notify, Run
      <3>2. heard \in [Ids -> Numbers] /\ runs \in [Dialogs -> Nat]
        BY DEF Inv, TypeOK
      <3> QED  BY <3>1, <3>2, TypeFacts DEF Announces
    <2> QED  BY <2>1, <2>2
  <1>3. ASSUME Lagged
        PROVE  Inv' /\ Announces
    <2>1. Inv' /\ runs' = runs
      BY <1>3, LaggedKeeps DEF Lagged
    <2> QED  BY <2>1, TypeFacts DEF Announces
  <1>4. ASSUME Due
        PROVE  Inv' /\ Announces
    BY <1>4, DueKeeps DEF Announces
  <1>5. ASSUME NEW n \in sleeping, DelayOver(n)
        PROVE  Inv' /\ Announces
    <2>1. Inv' /\ runs' = runs
      BY <1>5, DelayOverKeeps DEF DelayOver, history
    <2> QED  BY <2>1, TypeFacts DEF Announces
  <1>6. ASSUME UNCHANGED vars
        PROVE  Inv'
    BY <1>6 DEF vars, harness, channel, tracker, history, Inv, TypeOK, Counted, Order,
                EventsSound, InOrder, UpToNow, FromHeard, Quiet, Asks, NotificationsSound,
                Begun, HasRunLeft, IsOpen, StretchesApart, RunsLeft, OncePerDialog,
                HeardIsAnnounced, Waits
  <1> QED  BY <1>1, <1>2, <1>3, <1>4, <1>5, <1>6 DEF Next

\* NotifierInvariant: the order of the events and the state of the tracker agree at
\* every moment, whatever the sessions do and whatever the channel loses (notify.rs).
THEOREM NotifierInvariant == Spec => []Inv
  <1>1. Init => Inv
    BY InitInv
  <1>2. Inv /\ [Next]_vars => Inv'
    BY NextInv
  <1> QED  BY <1>1, <1>2, PTL DEF Spec

\* NotifierAnnouncesOnce: a dialog that was heard of is announced, and no more than
\* once but for the events lost (AttentionTracker::observe, spawn_notifier).
THEOREM NotifierAnnouncesOnce == Spec => []AnnouncedOnce
  <1>1. Inv => AnnouncedOnce
    BY DEF Inv, AnnouncedOnce
  <1> QED  BY <1>1, NotifierInvariant, PTL

\* NotifierRunsWhileOpen: the command runs only for the dialog that is open by the
\* events read so far (AttentionTracker::is_open, checked when a delay is over).
THEOREM NotifierRunsWhileOpen == Spec => RunsWhileOpen
  <1>1. Inv /\ [Next]_vars =>
          [\A k \in Dialogs : runs'[k] > runs[k] => heard'[k[1]] = k[2]]_vars
    BY NextInv DEF Announces
  <1> QED  BY <1>1, NotifierInvariant, PTL DEF Spec, RunsWhileOpen

================================================================================
