------------------------- MODULE SubscriberStreamProofs -------------------------
(***************************************************************************)
(* For any sessions, any size of the channel and of the socket: while a    *)
(* subscription runs and has not lagged, what the client is still to read  *)
(* ends with what the registry holds.  The inductive invariant follows an  *)
(* event on its way, from the actor's outbox through the receiver and the  *)
(* socket to the client: the last of them that tells of a session tells    *)
(* the truth, and if none does, the snapshot, or the list that the client  *)
(* shows, is true already.                                                 *)
(***************************************************************************)
EXTENDS SubscriberStream, SequenceTheorems, TLAPS

\* What a message says of a session that it tells of.
Said(message, id) ==
  IF message.kind = "list" THEN message.sessions[id] ELSE message.view

Untold(q, id) == \A i \in DOMAIN q : ~Tells(q[i], id)

\* The last message of q that tells of id says that it is view.
LastSays(q, id, view) ==
  \E i \in DOMAIN q :
    /\ Tells(q[i], id) /\ Said(q[i], id) = view
    /\ \A j \in DOMAIN q : i < j => ~Tells(q[j], id)

\* Only a subscription has a receiver.
NoReceiver == ~Attached => events = <<>>

\* What the actor has published, or is about to, ends with what it holds.
PublishedTrue ==
  \A id \in Ids :
    IF Untold(outbox, id)
    THEN Untold(events, id) \/ LastSays(events, id, sessions[id])
    ELSE LastSays(outbox, id, sessions[id])

\* No event about id is on its way from the registry.
Settled(id) == Untold(outbox, id) /\ Untold(events, id)

\* A snapshot in hand is true of the sessions that no later event tells of.
SnapshotTrue ==
  handler = "listed" /\ ~lagged =>
    \A id \in Ids : Settled(id) => snapshot[id] = sessions[id]

\* So is what has been written to the client, or what it shows.
WrittenTrue ==
  handler = "forwarding" /\ client = "connected" /\ ~lagged =>
    \A id \in Ids :
      Settled(id) => IF Untold(wire, id) THEN list[id] = sessions[id]
                                         ELSE LastSays(wire, id, sessions[id])

Inv == TypeOK /\ NoReceiver /\ PublishedTrue /\ SnapshotTrue /\ WrittenTrue

-----------------------------------------------------------------------------
(* What a sequence of messages tells *)

LEMMA EmptyTells ==
  ASSUME NEW id
  PROVE  Untold(<<>>, id)
  BY DEF Untold

LEMMA SingleTells ==
  ASSUME NEW m, NEW id
  PROVE  /\ Tells(m, id) => ~Untold(<<m>>, id) /\ LastSays(<<m>>, id, Said(m, id))
         /\ ~Tells(m, id) => Untold(<<m>>, id)
  <1>1. DOMAIN <<m>> = {1} /\ <<m>>[1] = m
    OBVIOUS
  <1> QED  BY <1>1, SMT DEF Untold, LastSays

LEMMA AppendTells ==
  ASSUME NEW S, NEW q \in Seq(S), NEW m \in S, NEW id
  PROVE  /\ Untold(Append(q, m), id) <=> Untold(q, id) /\ ~Tells(m, id)
         /\ Tells(m, id) => LastSays(Append(q, m), id, Said(m, id))
         /\ \A view : ~Tells(m, id) /\ LastSays(q, id, view) => LastSays(Append(q, m), id, view)
  <1> DEFINE more == Append(q, m)
  <1>1. /\ more \in Seq(S) /\ Len(more) = Len(q) + 1
        /\ \A i \in 1 .. Len(q) : more[i] = q[i]
        /\ more[Len(q) + 1] = m
    BY AppendProperties
  <1>2. /\ Len(q) \in Nat /\ DOMAIN q = 1 .. Len(q) /\ DOMAIN more = 1 .. Len(q) + 1
    BY <1>1
  <1> HIDE DEF more
  <1>3. Untold(more, id) <=> Untold(q, id) /\ ~Tells(m, id)
    BY <1>1, <1>2 DEF Untold
  <1>4. Tells(m, id) => LastSays(more, id, Said(m, id))
    BY <1>1, <1>2 DEF LastSays
  <1>5. ASSUME NEW view, ~Tells(m, id), LastSays(q, id, view)
        PROVE  LastSays(more, id, view)
    BY <1>1, <1>2, <1>5 DEF LastSays
  <1> QED  BY <1>3, <1>4, <1>5 DEF more

LEMMA TailTells ==
  ASSUME NEW S, NEW q \in Seq(S), q # <<>>, NEW id
  PROVE  /\ Untold(q, id) <=> ~Tells(Head(q), id) /\ Untold(Tail(q), id)
         /\ \A view : LastSays(q, id, view) =>
              IF Untold(Tail(q), id) THEN Tells(Head(q), id) /\ Said(Head(q), id) = view
                                     ELSE LastSays(Tail(q), id, view)
  <1> DEFINE rest == Tail(q)
  <1>1. /\ rest \in Seq(S) /\ Len(rest) = Len(q) - 1
        /\ \A i \in 1 .. Len(rest) : rest[i] = q[i + 1]
    BY HeadTailProperties
  <1>2. /\ Len(q) \in Nat \ {0} /\ DOMAIN q = 1 .. Len(q) /\ DOMAIN rest = 1 .. Len(q) - 1
        /\ Head(q) = q[1]
    BY <1>1, EmptySeq
  <1> HIDE DEF rest
  <1>3. ASSUME NEW i \in DOMAIN q, i # 1
        PROVE  i - 1 \in DOMAIN rest /\ rest[i - 1] = q[i]
    <2>1. i - 1 \in 1 .. Len(rest) /\ (i - 1) + 1 = i
      BY <1>1, <1>2, <1>3
    <2> QED  BY <2>1, <1>1, <1>2
  <1>4. ASSUME NEW i \in DOMAIN rest
        PROVE  i + 1 \in DOMAIN q /\ rest[i] = q[i + 1] /\ i + 1 # 1
    BY <1>1, <1>2, <1>4
  <1>5. Untold(q, id) <=> ~Tells(Head(q), id) /\ Untold(rest, id)
    <2>1. 1 \in DOMAIN q
      BY <1>2
    <2> QED  BY <2>1, <1>2, <1>3, <1>4 DEF Untold
  <1>6. ASSUME NEW view, LastSays(q, id, view), Untold(rest, id)
        PROVE  Tells(Head(q), id) /\ Said(Head(q), id) = view
    BY <1>2, <1>3, <1>6 DEF LastSays, Untold
  <1>7. ASSUME NEW view, LastSays(q, id, view), ~Untold(rest, id)
        PROVE  LastSays(rest, id, view)
    <2>1. PICK i \in DOMAIN q : /\ Tells(q[i], id) /\ Said(q[i], id) = view
                              /\ \A j \in DOMAIN q : i < j => ~Tells(q[j], id)
      BY <1>7 DEF LastSays
    <2>2. PICK k \in DOMAIN rest : Tells(rest[k], id)
      BY <1>7 DEF Untold
    <2>3. i # 1
      BY <2>1, <2>2, <1>2, <1>4
    <2>4. i - 1 \in DOMAIN rest /\ rest[i - 1] = q[i]
      BY <2>3, <1>3
    <2>5. ASSUME NEW j \in DOMAIN rest, i - 1 < j
          PROVE  ~Tells(rest[j], id)
      <3>1. i < j + 1 /\ j + 1 \in DOMAIN q /\ rest[j] = q[j + 1]
        BY <2>5, <1>2, <1>4
      <3> QED  BY <3>1, <2>1
    <2> QED  BY <2>1, <2>4, <2>5 DEF LastSays
  <1> QED  BY <1>5, <1>6, <1>7 DEF rest

LEMMA ConcatTells ==
  ASSUME NEW S, NEW p \in Seq(S), NEW q \in Seq(S), NEW id
  PROVE  /\ p \o q \in Seq(S)
         /\ Untold(p, id) /\ Untold(q, id) => Untold(p \o q, id)
         /\ \A view : LastSays(q, id, view) => LastSays(p \o q, id, view)
         /\ \A view : LastSays(p, id, view) /\ Untold(q, id) => LastSays(p \o q, id, view)
  <1> DEFINE both == p \o q
  <1>1. /\ both \in Seq(S) /\ Len(both) = Len(p) + Len(q)
        /\ \A i \in 1 .. Len(p) + Len(q) :
             both[i] = IF i <= Len(p) THEN p[i] ELSE q[i - Len(p)]
    BY ConcatProperties
  <1>2. /\ Len(p) \in Nat /\ DOMAIN p = 1 .. Len(p)
        /\ Len(q) \in Nat /\ DOMAIN q = 1 .. Len(q)
        /\ DOMAIN both = 1 .. Len(p) + Len(q)
    BY <1>1
  <1> HIDE DEF both
  <1>3. ASSUME NEW i \in DOMAIN both
        PROVE  \/ i \in DOMAIN p /\ both[i] = p[i]
               \/ i > Len(p) /\ i - Len(p) \in DOMAIN q /\ both[i] = q[i - Len(p)]
    BY <1>1, <1>2, <1>3
  <1>4. ASSUME NEW i \in DOMAIN p
        PROVE  i \in DOMAIN both /\ both[i] = p[i]
    BY <1>1, <1>2, <1>4
  <1>5. ASSUME NEW i \in DOMAIN q
        PROVE  Len(p) + i \in DOMAIN both /\ both[Len(p) + i] = q[i]
    <2>1. Len(p) + i \in 1 .. Len(p) + Len(q) /\ ~(Len(p) + i <= Len(p)) /\ (Len(p) + i) - Len(p) = i
      BY <1>2, <1>5
    <2> QED  BY <2>1, <1>1, <1>2
  <1>6. Untold(p, id) /\ Untold(q, id) => Untold(both, id)
    BY <1>3 DEF Untold
  <1>7. ASSUME NEW view, LastSays(q, id, view)
        PROVE  LastSays(both, id, view)
    <2>1. PICK i \in DOMAIN q : /\ Tells(q[i], id) /\ Said(q[i], id) = view
                              /\ \A j \in DOMAIN q : i < j => ~Tells(q[j], id)
      BY <1>7 DEF LastSays
    <2>2. ASSUME NEW j \in DOMAIN both, Len(p) + i < j
          PROVE  ~Tells(both[j], id)
      <3>1. j > Len(p) /\ j - Len(p) \in DOMAIN q /\ both[j] = q[j - Len(p)] /\ i < j - Len(p)
        BY <2>2, <1>2, <1>3
      <3> QED  BY <3>1, <2>1
    <2> QED  BY <2>1, <2>2, <1>5 DEF LastSays
  <1>8. ASSUME NEW view, LastSays(p, id, view), Untold(q, id)
        PROVE  LastSays(both, id, view)
    <2>1. PICK i \in DOMAIN p : /\ Tells(p[i], id) /\ Said(p[i], id) = view
                              /\ \A j \in DOMAIN p : i < j => ~Tells(p[j], id)
      BY <1>8 DEF LastSays
    <2>2. ASSUME NEW j \in DOMAIN both, i < j
          PROVE  ~Tells(both[j], id)
      BY <2>1, <2>2, <1>3, <1>8 DEF Untold
    <2> QED  BY <2>1, <2>2, <1>4 DEF LastSays
  <1> QED  BY <1>1, <1>6, <1>7, <1>8 DEF both

\* What the client will show of id is what the last message ahead says of it.
LEMMA LastWordTells ==
  ASSUME NEW id \in Ids, list \in Lists, Ahead \in Seq(Messages)
  PROVE  /\ Untold(Ahead, id) => LastWord(id) = list[id]
         /\ \A view : LastSays(Ahead, id, view) => LastWord(id) = view
  <1> DEFINE telling == {i \in DOMAIN Ahead : Tells(Ahead[i], id)}
             last == CHOOSE i \in telling : \A j \in telling : j <= i
  <1>1. LastWord(id) = IF telling = {} THEN list[id] ELSE Applied(list, Ahead[last])[id]
    BY DEF LastWord
  <1>2. Untold(Ahead, id) => telling = {}
    BY DEF Untold
  <1>3. ASSUME NEW view, LastSays(Ahead, id, view)
        PROVE  LastWord(id) = view
    <2>1. PICK i \in DOMAIN Ahead : /\ Tells(Ahead[i], id) /\ Said(Ahead[i], id) = view
                                  /\ \A j \in DOMAIN Ahead : i < j => ~Tells(Ahead[j], id)
      BY <1>3 DEF LastSays
    <2>2. DOMAIN Ahead \subseteq Nat
      OBVIOUS
    <2>3. i \in telling /\ \A j \in telling : j <= i
      BY <2>1, <2>2
    <2>4. last = i
      <3>1. last \in telling /\ \A j \in telling : j <= last
        BY <2>3
      <3> QED  BY <2>2, <2>3, <3>1
    <2>5. Ahead[i] \in Messages
      BY ElementOfSeq
    <2>6. Applied(list, Ahead[i])[id] = Said(Ahead[i], id)
      <3>1. CASE Ahead[i].kind = "list"
        BY <3>1 DEF Applied, Said
      <3>2. CASE Ahead[i].kind # "list"
        BY <3>2, <2>1 DEF Applied, Said, Tells, Lists
      <3> QED  BY <3>1, <3>2
    <2> HIDE DEF telling, last
    <2> QED  BY <1>1, <2>1, <2>3, <2>4, <2>6
  <1> HIDE DEF telling, last
  <1> QED  BY <1>1, <1>2, <1>3

LEMMA InvNothingLost ==
  ASSUME Inv
  PROVE  NothingLost
  <1> SUFFICES ASSUME handler = "forwarding", client = "connected", ~lagged, NEW id \in Ids
               PROVE  LastWord(id) = sessions[id]
    BY DEF NothingLost
  <1>1. /\ list \in Lists /\ wire \in Seq(Messages)
        /\ events \in Seq(Messages) /\ outbox \in Seq(Messages)
    <2>1. Events \subseteq Messages
      BY DEF Messages
    <2> QED  BY <2>1 DEF Inv, TypeOK
  <1>2. wire \o events \in Seq(Messages) /\ Ahead \in Seq(Messages)
    BY <1>1, ConcatProperties DEF Ahead
  <1>3. IF Untold(outbox, id)
        THEN Untold(events, id) \/ LastSays(events, id, sessions[id])
        ELSE LastSays(outbox, id, sessions[id])
    BY DEF Inv, PublishedTrue
  <1>4. Settled(id) => IF Untold(wire, id) THEN list[id] = sessions[id]
                                           ELSE LastSays(wire, id, sessions[id])
    BY DEF Inv, WrittenTrue
  <1>5. CASE ~Untold(outbox, id)
    <2>1. LastSays(Ahead, id, sessions[id])
      BY <1>1, <1>2, <1>3, <1>5, ConcatTells DEF Ahead
    <2> QED  BY <2>1, <1>1, <1>2, LastWordTells
  <1>6. CASE Untold(outbox, id) /\ ~Untold(events, id)
    <2>1. LastSays(wire \o events, id, sessions[id])
      BY <1>1, <1>3, <1>6, ConcatTells
    <2>2. LastSays(Ahead, id, sessions[id])
      BY <2>1, <1>1, <1>2, <1>6, ConcatTells DEF Ahead
    <2> QED  BY <2>2, <1>1, <1>2, LastWordTells
  <1>7. CASE Settled(id) /\ ~Untold(wire, id)
    <2>1. LastSays(wire \o events, id, sessions[id])
      BY <1>1, <1>4, <1>7, ConcatTells DEF Settled
    <2>2. LastSays(Ahead, id, sessions[id])
      BY <2>1, <1>1, <1>2, <1>7, ConcatTells DEF Ahead, Settled
    <2> QED  BY <2>2, <1>1, <1>2, LastWordTells
  <1>8. CASE Settled(id) /\ Untold(wire, id)
    <2>1. Untold(wire \o events, id)
      BY <1>1, <1>8, ConcatTells DEF Settled
    <2>2. Untold(Ahead, id)
      BY <2>1, <1>1, <1>2, <1>8, ConcatTells DEF Ahead, Settled
    <2> QED  BY <2>2, <1>1, <1>2, <1>4, <1>8, LastWordTells
  <1> QED  BY <1>5, <1>6, <1>7, <1>8 DEF Settled

-----------------------------------------------------------------------------
(* The registry's side *)

\* A command that changes what is held publishes what it changed.
Publishes(held, es) ==
  \A id \in Ids : IF Untold(es, id) THEN held[id] = sessions[id] ELSE LastSays(es, id, held[id])

LEMMA CommandKeeps ==
  ASSUME Inv, NEW held \in Lists, NEW es \in Seq(Events), Command(held, es),
         Publishes(held, es)
  PROVE  Inv'
  <1>1. /\ outbox = <<>> /\ sessions' = held /\ outbox' = es
        /\ commands' = commands + 1 /\ commands < MaxCommands
        /\ UNCHANGED <<handler, snapshot, events, lagged, cancelled, client, list, wire,
                       breaks, requests>>
    BY DEF Command, server, tui
  <1>2. \A id : Untold(outbox, id)
    BY <1>1, EmptyTells
  <1>3. TypeOK'
    <2>1. commands' \in 0 .. MaxCommands
      BY <1>1, StreamAssumption DEF Inv, TypeOK
    <2> QED  BY <2>1, <1>1 DEF Inv, TypeOK
  <1>4. PublishedTrue'
    BY <1>1, <1>2 DEF Inv, PublishedTrue, Publishes
  <1>5. SnapshotTrue' /\ WrittenTrue'
    BY <1>1, <1>2 DEF Inv, SnapshotTrue, WrittenTrue, Settled, Publishes
  <1>6. NoReceiver'
    BY <1>1 DEF Inv, NoReceiver, Attached
  <1> QED  BY <1>3, <1>4, <1>5, <1>6 DEF Inv

LEMMA CommandsKeep ==
  ASSUME Inv,
         \/ \E id \in Ids, view \in Views : Update(id, view)
         \/ \E id \in Ids : Remove(id)
         \/ \E old, new \in Ids : Rename(old, new)
  PROVE  Inv'
  <1>1. sessions \in [Ids -> Views \cup {NoView}]
    BY DEF Inv, TypeOK, Lists
  <1>2. ASSUME NEW id \in Ids, NEW view \in Views \cup {NoView},
               Command([sessions EXCEPT ![id] = view], <<Event(id, view)>>)
        PROVE  Inv'
    <2> DEFINE e == Event(id, view)
    <2>1. e \in Events /\ [sessions EXCEPT ![id] = view] \in Lists /\ <<e>> \in Seq(Events)
      BY <1>1 DEF Event, Events, Lists
    <2>2. \A x : (Tells(e, x) <=> x = id) /\ Said(e, x) = view
      BY DEF Event, Tells, Said
    <2>3. Publishes([sessions EXCEPT ![id] = view], <<e>>)
      BY <1>1, <2>2, SingleTells DEF Publishes
    <2> QED  BY <1>2, <2>1, <2>3, CommandKeeps
  <1>3. ASSUME NEW old \in Ids, NEW new \in Ids, Rename(old, new)
        PROVE  Inv'
    <2> DEFINE held == [sessions EXCEPT ![old] = NoView, ![new] = sessions[old]]
               gone == Event(old, NoView)
               come == Event(new, sessions[old])
    <2>1. old # new /\ Command(held, <<gone, come>>)
      BY <1>3 DEF Rename
    <2>2. gone \in Events /\ come \in Events /\ held \in Lists
      BY <1>1 DEF Event, Events, Lists
    <2>3. <<gone, come>> = Append(<<gone>>, come) /\ <<gone>> \in Seq(Events)
      BY <2>2
    <2>4. \A x : /\ Tells(gone, x) <=> x = old
                 /\ Said(gone, x) = NoView
                 /\ Tells(come, x) <=> x = new
                 /\ Said(come, x) = sessions[old]
      BY DEF Event, Tells, Said
    <2>5. /\ held[old] = NoView /\ held[new] = sessions[old]
          /\ \A x \in Ids : x # old /\ x # new => held[x] = sessions[x]
      BY <1>1, <2>1
    <2> HIDE DEF held, gone, come
    <2>6. Append(<<gone>>, come) \in Seq(Events)
      BY <2>2, <2>3, AppendProperties
    <2>7. Publishes(held, Append(<<gone>>, come))
      <3> SUFFICES ASSUME NEW x \in Ids
                   PROVE  IF Untold(Append(<<gone>>, come), x) THEN held[x] = sessions[x]
                          ELSE LastSays(Append(<<gone>>, come), x, held[x])
        BY DEF Publishes
      <3>1. /\ Untold(Append(<<gone>>, come), x) <=> Untold(<<gone>>, x) /\ ~Tells(come, x)
            /\ Tells(come, x) => LastSays(Append(<<gone>>, come), x, Said(come, x))
            /\ \A view : ~Tells(come, x) /\ LastSays(<<gone>>, x, view)
                           => LastSays(Append(<<gone>>, come), x, view)
        BY <2>2, <2>3, AppendTells
      <3>2. /\ Tells(gone, x) => ~Untold(<<gone>>, x) /\ LastSays(<<gone>>, x, Said(gone, x))
            /\ ~Tells(gone, x) => Untold(<<gone>>, x)
        BY SingleTells
      <3> QED  BY <2>1, <2>4, <2>5, <3>1, <3>2
    <2> QED  BY <2>1, <2>2, <2>3, <2>6, <2>7, CommandKeeps
  <1> QED  BY <1>2, <1>3 DEF Update, Remove

LEMMA PublishKeeps ==
  ASSUME Inv, Publish
  PROVE  Inv'
  <1> DEFINE e == Head(outbox)
             all == Append(events, e)
  <1>1. /\ outbox # <<>> /\ outbox' = Tail(outbox)
        /\ \/ ~Attached /\ events' = events /\ lagged' = lagged
           \/ Len(events) < EventBuffer /\ events' = all /\ lagged' = lagged
           \/ ~(Len(events) < EventBuffer) /\ events' = Tail(all) /\ lagged' = TRUE
        /\ UNCHANGED <<sessions, commands, handler, snapshot, cancelled, client, list, wire,
                       breaks, requests>>
    BY DEF Publish, tui
  <1>2. /\ outbox \in Seq(Events) /\ events \in Seq(Events)
        /\ Len(events) \in Nat /\ Len(events) <= EventBuffer /\ EventBuffer \in Nat \ {0}
    BY StreamAssumption DEF Inv, TypeOK
  <1>3. e \in Events /\ Tail(outbox) \in Seq(Events)
    BY <1>1, <1>2, HeadTailProperties
  <1>4. /\ all \in Seq(Events) /\ all # <<>> /\ Len(all) = Len(events) + 1
        /\ Tail(all) \in Seq(Events) /\ Len(Tail(all)) = Len(events)
    <2>1. all \in Seq(Events) /\ all # <<>> /\ Len(all) = Len(events) + 1
      BY <1>2, <1>3, AppendProperties
    <2>2. Tail(all) \in Seq(Events) /\ Len(Tail(all)) = Len(all) - 1
      BY <2>1, HeadTailProperties
    <2> QED  BY <1>2, <2>1, <2>2
  <1>5. TypeOK'
    <2>1. events' \in Seq(Events) /\ Len(events') <= EventBuffer /\ outbox' \in Seq(Events)
      <3>1. \/ events' = events
            \/ Len(events) < EventBuffer /\ events' = all
            \/ events' = Tail(all)
        BY <1>1
      <3> HIDE DEF all, e
      <3>2. outbox' \in Seq(Events)
        BY <1>1, <1>3
      <3>3. events' \in Seq(Events)
        BY <3>1, <1>2, <1>4
      <3>4. Len(events') <= EventBuffer
        <4>1. CASE events' = events
          BY <4>1, <1>2
        <4>2. CASE Len(events) < EventBuffer /\ events' = all
          BY <4>2, <1>2, <1>4
        <4>3. CASE events' = Tail(all)
          BY <4>3, <1>2, <1>4
        <4> QED  BY <3>1, <4>1, <4>2, <4>3
      <3> QED  BY <3>2, <3>3, <3>4
    <2>2. lagged' \in BOOLEAN
      BY <1>1, Zenon DEF Inv, TypeOK
    <2>3. /\ sessions' \in Lists /\ snapshot' \in Lists /\ list' \in Lists
          /\ wire' \in Seq(Messages) /\ Len(wire') <= SocketBuffer
          /\ cancelled' \in BOOLEAN /\ handler' \in Stages /\ client' \in {"away", "connected"}
          /\ commands' \in 0..MaxCommands /\ breaks' \in 0..MaxBreaks
          /\ requests' \in 0..MaxRequests
      BY <1>1 DEF Inv, TypeOK
    <2> QED  BY <2>1, <2>2, <2>3, Zenon DEF TypeOK
  <1> HIDE DEF e, all
  <1>6. ASSUME NEW id \in Ids
        PROVE  /\ Untold(outbox, id) <=> ~Tells(e, id) /\ Untold(outbox', id)
               /\ ~Untold(outbox, id) =>
                    IF Untold(outbox', id) THEN Tells(e, id) /\ Said(e, id) = sessions[id]
                                           ELSE LastSays(outbox', id, sessions[id])
    <2>1. ~Untold(outbox, id) => LastSays(outbox, id, sessions[id])
      BY DEF Inv, PublishedTrue
    <2> QED  BY <2>1, <1>1, <1>2, TailTells DEF e
  <1>7. ASSUME NEW id \in Ids, Untold(outbox', id)
        PROVE  /\ Untold(all, id) <=> Untold(events, id) /\ ~Tells(e, id)
               /\ Untold(all, id) \/ LastSays(all, id, sessions[id])
    <2>1. /\ Untold(all, id) <=> Untold(events, id) /\ ~Tells(e, id)
          /\ Tells(e, id) => LastSays(all, id, Said(e, id))
          /\ ~Tells(e, id) /\ LastSays(events, id, sessions[id]) => LastSays(all, id, sessions[id])
      BY <1>2, <1>3, AppendTells DEF all
    <2>2. Untold(outbox, id) => Untold(events, id) \/ LastSays(events, id, sessions[id])
      BY DEF Inv, PublishedTrue
    <2> QED  BY <2>1, <2>2, <1>6, <1>7
  <1>8. ASSUME NEW id \in Ids, Untold(outbox', id)
        PROVE  Untold(events', id) \/ LastSays(events', id, sessions[id])
    <2>1. CASE ~Attached /\ events' = events
      BY <2>1, EmptyTells DEF Inv, NoReceiver
    <2>2. CASE events' = all
      BY <2>2, <1>7, <1>8
    <2>3. CASE events' = Tail(all)
      <3>1. /\ Untold(all, id) <=> ~Tells(Head(all), id) /\ Untold(Tail(all), id)
            /\ LastSays(all, id, sessions[id]) =>
                 Untold(Tail(all), id) \/ LastSays(Tail(all), id, sessions[id])
        BY <1>4, TailTells
      <3> QED  BY <2>3, <3>1, <1>7, <1>8
    <2> QED  BY <2>1, <2>2, <2>3, <1>1
  <1>9. PublishedTrue'
    BY <1>1, <1>6, <1>8 DEF PublishedTrue
  <1>10. ASSUME Attached, ~lagged', NEW id \in Ids
         PROVE  (Untold(outbox', id) /\ Untold(events', id)) <=> Settled(id)
    BY <1>1, <1>6, <1>7, <1>10 DEF Settled
  <1>11. SnapshotTrue'
    <2> SUFFICES ASSUME handler = "listed", ~lagged', NEW id \in Ids,
                        Untold(outbox', id), Untold(events', id)
                 PROVE  snapshot[id] = sessions[id]
      BY <1>1 DEF SnapshotTrue, Settled
    <2>1. Settled(id)
      BY <1>10 DEF Attached
    <2>2. ~lagged
      BY <1>1 DEF Attached
    <2> QED  BY <2>1, <2>2 DEF Inv, SnapshotTrue
  <1>12. WrittenTrue'
    <2> SUFFICES ASSUME handler = "forwarding", client = "connected", ~lagged', NEW id \in Ids,
                        Untold(outbox', id), Untold(events', id)
                 PROVE  IF Untold(wire, id) THEN list[id] = sessions[id]
                                            ELSE LastSays(wire, id, sessions[id])
      BY <1>1 DEF WrittenTrue, Settled
    <2>1. Settled(id)
      BY <1>10 DEF Attached
    <2>2. ~lagged
      BY <1>1 DEF Attached
    <2> QED  BY <2>1, <2>2 DEF Inv, WrittenTrue
  <1>13. NoReceiver'
    <2>1. ~Attached => events' = events
      BY <1>1, Zenon DEF Publish
    <2> QED  BY <2>1, <1>1 DEF Inv, NoReceiver, Attached
  <1> QED  BY <1>5, <1>9, <1>11, <1>12, <1>13 DEF Inv

-----------------------------------------------------------------------------
(* The handler and its forwarder *)

\* A subscription begins, or a connection ends: the receiver starts empty.
LEMMA ReceiverKeeps ==
  ASSUME Inv, Receiver, handler' \in Stages \ {"listed", "forwarding"},
         cancelled' \in BOOLEAN, client' \in {"away", "connected"},
         breaks' \in 0 .. MaxBreaks, requests' \in 0 .. MaxRequests,
         wire' = wire \/ wire' = <<>>,
         \/ UNCHANGED <<sessions, outbox>>
         \/ sessions' = Empty /\ outbox' = <<>>,
         UNCHANGED <<snapshot, list, commands>>
  PROVE  Inv'
  <1>1. events' = <<>> /\ lagged' = FALSE
    BY DEF Receiver
  <1>2. \A id : Untold(events', id)
    BY <1>1, EmptyTells
  <1>3. TypeOK'
    <2>1. sessions' \in Lists /\ outbox' \in Seq(Events)
      <3>1. sessions \in Lists /\ outbox \in Seq(Events)
        BY DEF Inv, TypeOK
      <3>2. Empty \in Lists /\ <<>> \in Seq(Events)
        BY DEF Empty, Lists
      <3> QED  BY <3>1, <3>2
    <2>2. wire' \in Seq(Messages) /\ Len(wire') <= SocketBuffer
      <3>1. wire \in Seq(Messages) /\ Len(wire) <= SocketBuffer
        BY DEF Inv, TypeOK
      <3>2. <<>> \in Seq(Messages) /\ Len(<<>>) <= SocketBuffer
        BY StreamAssumption
      <3> QED  BY <3>1, <3>2
    <2>3. events' \in Seq(Events) /\ Len(events') <= EventBuffer
      BY <1>1, StreamAssumption
    <2>4. lagged' \in BOOLEAN
      BY <1>1, Zenon
    <2>5. /\ snapshot' \in Lists /\ list' \in Lists /\ commands' \in 0..MaxCommands
          /\ handler' \in Stages
      BY DEF Inv, TypeOK
    <2> QED  BY <2>1, <2>2, <2>3, <2>4, <2>5, Zenon DEF TypeOK
  <1>4. PublishedTrue'
    <2>1. CASE UNCHANGED <<sessions, outbox>>
      BY <2>1, <1>2 DEF Inv, PublishedTrue
    <2>2. CASE sessions' = Empty /\ outbox' = <<>>
      BY <2>2, <1>2, EmptyTells DEF PublishedTrue
    <2> QED  BY <2>1, <2>2
  <1>5. NoReceiver' /\ SnapshotTrue' /\ WrittenTrue'
    BY <1>1 DEF NoReceiver, SnapshotTrue, WrittenTrue
  <1> QED  BY <1>3, <1>4, <1>5 DEF Inv

LEMMA TakeSnapshotKeeps ==
  ASSUME Inv, TakeSnapshot
  PROVE  Inv'
  <1>1. /\ handler = "attached" /\ handler' = "listed" /\ snapshot' = sessions /\ outbox = <<>>
        /\ UNCHANGED <<events, lagged, cancelled, sessions, outbox, commands, client, list, wire,
                       breaks, requests>>
    BY DEF TakeSnapshot, registry, tui
  <1>2. TypeOK'
    BY <1>1 DEF Inv, TypeOK, Stages
  <1> QED  BY <1>1, <1>2 DEF Inv, NoReceiver, Attached, PublishedTrue, SnapshotTrue, WrittenTrue

LEMMA WriteType ==
  ASSUME TypeOK, NEW message \in Messages, Write(message)
  PROVE  /\ wire' = Append(wire, message)
         /\ wire' \in Seq(Messages) /\ Len(wire') <= SocketBuffer
  <1>1. /\ wire \in Seq(Messages) /\ Len(wire) < SocketBuffer /\ wire' = Append(wire, message)
        /\ Len(wire) \in Nat /\ SocketBuffer \in Nat
    BY StreamAssumption DEF TypeOK, Write
  <1>2. /\ Append(wire, message) \in Seq(Messages)
        /\ Len(Append(wire, message)) = Len(wire) + 1
    BY <1>1, AppendProperties
  <1> QED  BY <1>1, <1>2

LEMMA SendListKeeps ==
  ASSUME Inv, SendList
  PROVE  Inv'
  <1> DEFINE message == SessionList(snapshot)
  <1>1. /\ handler = "listed" /\ handler' = "forwarding" /\ Write(message)
        /\ UNCHANGED <<snapshot, events, lagged, cancelled, sessions, outbox, commands,
                       client, list, breaks, requests>>
    BY DEF SendList, registry, tui
  <1>2. message \in Messages
    BY DEF Inv, TypeOK, SessionList, Messages
  <1>3. \A id : Tells(message, id) /\ Said(message, id) = snapshot[id]
    BY DEF SessionList, Tells, Said
  <1> HIDE DEF message
  <1>4. /\ wire' = Append(wire, message)
        /\ wire' \in Seq(Messages) /\ Len(wire') <= SocketBuffer
    BY <1>1, <1>2, WriteType DEF Inv
  <1>5. TypeOK'
    BY <1>1, <1>4 DEF Inv, TypeOK, Stages
  <1>6. \A id : ~Untold(wire', id) /\ LastSays(wire', id, snapshot[id])
    <2>1. wire \in Seq(Messages)
      BY DEF Inv, TypeOK
    <2> QED  BY <2>1, <1>2, <1>3, <1>4, AppendTells
  <1>7. WrittenTrue'
    BY <1>1, <1>6 DEF Inv, SnapshotTrue, WrittenTrue, Settled
  <1> QED  BY <1>1, <1>5, <1>7 DEF Inv, NoReceiver, Attached, PublishedTrue, SnapshotTrue

LEMMA ForwardKeeps ==
  ASSUME Inv, Forward
  PROVE  Inv'
  <1> DEFINE e == Head(events)
  <1>1. /\ handler = "forwarding" /\ ~lagged /\ events # <<>>
        /\ Write(e) /\ events' = Tail(events)
        /\ UNCHANGED <<handler, snapshot, lagged, cancelled, sessions, outbox, commands,
                       client, list, breaks, requests>>
    BY DEF Forward, registry, tui
  <1>2. /\ events \in Seq(Events) /\ wire \in Seq(Messages) /\ Len(events) <= EventBuffer
        /\ Len(events) \in Nat /\ EventBuffer \in Nat
    BY StreamAssumption DEF Inv, TypeOK
  <1>3. /\ e \in Messages /\ Tail(events) \in Seq(Events)
        /\ Len(Tail(events)) = Len(events) - 1
    BY <1>1, <1>2, HeadTailProperties DEF Messages
  <1> HIDE DEF e
  <1>4. /\ wire' = Append(wire, e)
        /\ wire' \in Seq(Messages) /\ Len(wire') <= SocketBuffer
    BY <1>1, <1>3, WriteType DEF Inv
  <1>5. TypeOK'
    <2>1. events' \in Seq(Events) /\ Len(events') <= EventBuffer
      BY <1>1, <1>2, <1>3
    <2> QED  BY <2>1, <1>1, <1>4 DEF Inv, TypeOK
  <1>6. ASSUME NEW id \in Ids
        PROVE  /\ Untold(events, id) <=> ~Tells(e, id) /\ Untold(events', id)
               /\ LastSays(events, id, sessions[id]) =>
                    IF Untold(events', id) THEN Tells(e, id) /\ Said(e, id) = sessions[id]
                                           ELSE LastSays(events', id, sessions[id])
    BY <1>1, <1>2, TailTells DEF e
  <1>7. PublishedTrue'
    BY <1>1, <1>6 DEF Inv, PublishedTrue
  <1>8. ASSUME NEW id \in Ids, client = "connected", Untold(outbox, id), Untold(events', id)
        PROVE  IF Untold(wire', id) THEN list[id] = sessions[id]
                                    ELSE LastSays(wire', id, sessions[id])
    <2>1. /\ Untold(wire', id) <=> Untold(wire, id) /\ ~Tells(e, id)
          /\ Tells(e, id) => LastSays(wire', id, Said(e, id))
          /\ ~Tells(e, id) /\ LastSays(wire, id, sessions[id]) => LastSays(wire', id, sessions[id])
      BY <1>2, <1>3, <1>4, AppendTells
    <2>2. Untold(events, id) \/ LastSays(events, id, sessions[id])
      BY <1>8 DEF Inv, PublishedTrue
    <2>3. Settled(id) => IF Untold(wire, id) THEN list[id] = sessions[id]
                                             ELSE LastSays(wire, id, sessions[id])
      BY <1>1, <1>8 DEF Inv, WrittenTrue
    <2> QED  BY <2>1, <2>2, <2>3, <1>6, <1>8 DEF Settled
  <1>9. WrittenTrue'
    BY <1>1, <1>8 DEF WrittenTrue, Settled
  <1> QED  BY <1>1, <1>5, <1>7, <1>9 DEF Inv, NoReceiver, Attached, SnapshotTrue

-----------------------------------------------------------------------------
(* The client *)

LEMMA ReceiveKeeps ==
  ASSUME Inv, Receive
  PROVE  Inv'
  <1> DEFINE m == Head(wire)
  <1>1. /\ wire # <<>> /\ list' = Applied(list, m) /\ wire' = Tail(wire)
        /\ UNCHANGED <<client, sessions, outbox, commands, handler, snapshot, events, lagged,
                       cancelled, breaks, requests>>
    BY DEF Receive, registry, server
  <1>2. /\ wire \in Seq(Messages) /\ Len(wire) \in Nat /\ Len(wire) <= SocketBuffer
        /\ list \in [Ids -> Views \cup {NoView}] /\ SocketBuffer \in Nat
    BY StreamAssumption DEF Inv, TypeOK, Lists
  <1>3. /\ m \in Messages /\ Tail(wire) \in Seq(Messages)
        /\ Len(Tail(wire)) = Len(wire) - 1
    BY <1>1, <1>2, HeadTailProperties
  <1> HIDE DEF m
  <1>4. list' \in [Ids -> Views \cup {NoView}]
    <2>1. CASE m \in Events
      BY <2>1, <1>1, <1>2 DEF Applied, Events
    <2>2. CASE m \in [kind : {"list"}, sessions : Lists]
      BY <2>2, <1>1 DEF Applied, Lists
    <2> QED  BY <1>3, <2>1, <2>2 DEF Messages
  <1>5. TypeOK'
    <2>1. wire' \in Seq(Messages) /\ Len(wire') <= SocketBuffer /\ list' \in Lists
      BY <1>1, <1>2, <1>3, <1>4 DEF Lists
    <2> QED  BY <2>1, <1>1 DEF Inv, TypeOK
  <1>6. ASSUME NEW id \in Ids
        PROVE  list'[id] = IF Tells(m, id) THEN Said(m, id) ELSE list[id]
    BY <1>1, <1>2 DEF Applied, Tells, Said
  <1>7. ASSUME NEW id \in Ids
        PROVE  /\ Untold(wire, id) <=> ~Tells(m, id) /\ Untold(wire', id)
               /\ LastSays(wire, id, sessions[id]) =>
                    IF Untold(wire', id) THEN Tells(m, id) /\ Said(m, id) = sessions[id]
                                         ELSE LastSays(wire', id, sessions[id])
    BY <1>1, <1>2, TailTells DEF m
  <1>8. WrittenTrue'
    <2> SUFFICES ASSUME handler = "forwarding", client = "connected", ~lagged,
                        NEW id \in Ids, Settled(id)
                 PROVE  IF Untold(wire', id) THEN list'[id] = sessions[id]
                                             ELSE LastSays(wire', id, sessions[id])
      BY <1>1 DEF WrittenTrue, Settled
    <2>1. IF Untold(wire, id) THEN list[id] = sessions[id] ELSE LastSays(wire, id, sessions[id])
      BY DEF Inv, WrittenTrue
    <2> QED  BY <2>1, <1>6, <1>7
  <1> QED  BY <1>1, <1>5, <1>8 DEF Inv, NoReceiver, Attached, PublishedTrue, SnapshotTrue, Settled

-----------------------------------------------------------------------------
(* The theorems *)

LEMMA InitInv ==
  ASSUME Init
  PROVE  Inv
  <1>1. Empty \in Lists
    BY DEF Empty, Lists
  <1>2. TypeOK
    <2>1. lagged \in BOOLEAN /\ cancelled \in BOOLEAN
      BY Zenon DEF Init
    <2>2. /\ outbox \in Seq(Events) /\ events \in Seq(Events) /\ wire \in Seq(Messages)
          /\ Len(events) <= EventBuffer /\ Len(wire) <= SocketBuffer
          /\ commands \in 0..MaxCommands /\ breaks \in 0..MaxBreaks /\ requests \in 0..MaxRequests
      BY StreamAssumption DEF Init
    <2>3. /\ sessions \in Lists /\ snapshot \in Lists /\ list \in Lists
          /\ handler \in Stages /\ client \in {"away", "connected"}
      BY <1>1 DEF Init, Stages
    <2> QED  BY <2>1, <2>2, <2>3, Zenon DEF TypeOK
  <1>3. PublishedTrue
    BY EmptyTells DEF Init, PublishedTrue
  <1> QED  BY <1>2, <1>3 DEF Init, Inv, NoReceiver, SnapshotTrue, WrittenTrue

LEMMA NextInv ==
  ASSUME Inv, [Next]_vars
  PROVE  Inv'
  <1>0. /\ breaks \in 0 .. MaxBreaks /\ requests \in 0 .. MaxRequests
        /\ MaxBreaks \in Nat /\ MaxRequests \in Nat
        /\ cancelled \in BOOLEAN /\ client \in {"away", "connected"} /\ handler \in Stages
    BY StreamAssumption DEF Inv, TypeOK
  <1>1. CASE \/ \E id \in Ids, view \in Views : Update(id, view)
             \/ \E id \in Ids : Remove(id)
             \/ \E old, new \in Ids : Rename(old, new)
    BY <1>1, CommandsKeep
  <1>2. CASE Publish
    BY <1>2, PublishKeeps
  <1>3. CASE Subscribe \/ Resubscribe \/ Unsubscribe
    <2>1. /\ Receiver /\ handler' \in {"attached", "open"}
          /\ breaks' = breaks /\ requests' \in 0 .. MaxRequests
          /\ UNCHANGED <<snapshot, cancelled, sessions, outbox, commands, client, list, wire>>
      BY <1>0, <1>3 DEF Subscribe, Resubscribe, Unsubscribe, registry, tui
    <2> QED  BY <1>0, <2>1, ReceiverKeeps DEF Stages
  <1>4. CASE TakeSnapshot
    BY <1>4, TakeSnapshotKeeps
  <1>5. CASE SendList
    BY <1>5, SendListKeeps
  <1>6. CASE Forward
    BY <1>6, ForwardKeeps
  <1>7. CASE ForwarderLags \/ ForwarderTimesOut
    <2>1. /\ cancelled' = TRUE /\ breaks' \in 0 .. MaxBreaks
          /\ UNCHANGED <<handler, snapshot, events, lagged, sessions, outbox, commands,
                         client, list, wire, requests>>
      BY <1>0, <1>7 DEF ForwarderLags, ForwarderTimesOut, registry, tui
    <2>2. cancelled' \in BOOLEAN
      BY <2>1, Zenon
    <2>3. TypeOK'
      BY <2>1, <2>2 DEF Inv, TypeOK
    <2> QED  BY <2>1, <2>3 DEF Inv, NoReceiver, Attached, PublishedTrue, SnapshotTrue,
                               WrittenTrue, Settled
  <1>8. CASE HandlerStops \/ HandlerFails \/ DaemonRestarts \/ Leave
    <2>1. /\ handler' = "closed" /\ cancelled' = FALSE /\ Receiver
          /\ breaks' \in 0 .. MaxBreaks /\ requests' = requests
          /\ client' = client \/ client' = "away"
          /\ wire' = wire \/ wire' = <<>>
          /\ \/ UNCHANGED <<sessions, outbox>>
             \/ sessions' = Empty /\ outbox' = <<>>
          /\ UNCHANGED <<snapshot, list, commands>>
      BY <1>0, <1>8 DEF HandlerStops, HandlerFails, DaemonRestarts, Leave, Close, registry, tui
    <2>2. cancelled' \in BOOLEAN
      BY <2>1, Zenon
    <2> QED  BY <1>0, <2>1, <2>2, ReceiverKeeps DEF Stages
  <1>9. CASE Connect
    <2>1. /\ handler = "closed" /\ handler' = "open" /\ client' = "connected"
          /\ UNCHANGED <<snapshot, events, lagged, cancelled, sessions, outbox, commands,
                         list, wire, breaks, requests>>
      BY <1>9 DEF Connect, registry
    <2>2. TypeOK'
      BY <2>1 DEF Inv, TypeOK, Stages
    <2> QED  BY <2>1, <2>2 DEF Inv, NoReceiver, Attached, PublishedTrue, SnapshotTrue, WrittenTrue
  <1>10. CASE Receive
    BY <1>10, ReceiveKeeps
  <1>11. CASE Eof
    <2>1. /\ handler = "closed" /\ client' = "away"
          /\ UNCHANGED <<handler, snapshot, events, lagged, cancelled, sessions, outbox, commands,
                         list, wire, breaks, requests>>
      BY <1>11 DEF Eof, registry, server
    <2>2. TypeOK'
      BY <2>1 DEF Inv, TypeOK
    <2> QED  BY <2>1, <2>2 DEF Inv, NoReceiver, Attached, PublishedTrue, SnapshotTrue, WrittenTrue
  <1>12. CASE UNCHANGED vars
    BY <1>12 DEF vars, registry, server, tui, Inv, TypeOK, NoReceiver, Attached, PublishedTrue,
                 SnapshotTrue, WrittenTrue, Settled
  <1> QED  BY <1>1, <1>2, <1>3, <1>4, <1>5, <1>6, <1>7, <1>8, <1>9, <1>10, <1>11, <1>12 DEF Next

\* StreamInvariant: at every stage of the handler, what is on its way to the client ends
\* with what the registry holds (subscription.rs, RegistryActor::publish).
THEOREM StreamInvariant == Spec => []Inv
  <1>1. Init => Inv
    BY InitInv
  <1>2. Inv /\ [Next]_vars => Inv'
    BY NextInv
  <1> QED  BY <1>1, <1>2, PTL DEF Spec

\* StreamLosesNothing: no event falls between the receiver and the snapshot, and no older
\* one is applied after a newer, unless the receiver has lagged (handle_subscribe).
THEOREM StreamLosesNothing == Spec => []StreamSound
  <1>1. Inv => StreamSound
    BY InvNothingLost DEF Inv, StreamSound
  <1> QED  BY <1>1, StreamInvariant, PTL

================================================================================
