---------------------------- MODULE ServerProofs ----------------------------
(***************************************************************************)
(* Proofs about Server: its subscriptions implement Places, and so never   *)
(* hold more than the cap's number of places.  Each action but the         *)
(* shutdown's changes one connection, so two lemmas about such a change    *)
(* serve them all.                                                         *)
(***************************************************************************)
EXTENDS Server, FiniteSetTheorems, TLAPS

\* What holds of a connection: while its list is written, and while it has a
\* forwarder, it holds a place or is cancelled; a forwarder runs in few states; and a
\* server on its way out has cancelled whatever is not closed.
ConnSound(conn, holds, up) ==
  /\ conn.at = "subscribing" => holds \/ conn.cancel
  /\ conn.fwd => conn.at \in {"ready", "asking", "subscribing", "ending"} /\ (holds \/ conn.cancel)
  /\ up \in {"stopping", "draining"} => conn.at = "closed" \/ conn.cancel

Sound == \A c \in Conns : ConnSound(Conn(c), c \in world.entries, world.up)

Inv == TypeOK /\ Sound

--------------------------------------------------------------------------
(* Changes of one connection *)

LEMMA SetAllEffect ==
  ASSUME TypeOK, NEW c \in Conns, NEW conn \in ConnStates, NEW entries \in SUBSET Conns,
         SetAll(c, conn, entries)
  PROVE  /\ world'.conns = [world.conns EXCEPT ![c] = conn]
         /\ world'.entries = entries /\ world'.up = world.up
         /\ world' \in [up : {"up", "stopping", "draining", "down"}, paused : BOOLEAN,
                        conns : [Conns -> ConnStates], entries : SUBSET Conns, stops : Nat]
BY DEF TypeOK, SetAll

LEMMA SetConnIsSetAll ==
  ASSUME TypeOK, NEW c \in Conns, NEW conn \in ConnStates, SetConn(c, conn)
  PROVE  SetAll(c, conn, world.entries)
BY DEF TypeOK, SetAll, SetConn

\* A change that takes no other connection's place, and whose result is sound, keeps
\* the invariant.
LEMMA SetAllInv ==
  ASSUME Inv, NEW c \in Conns, NEW conn \in ConnStates, NEW entries \in SUBSET Conns,
         SetAll(c, conn, entries), entries \ {c} = world.entries \ {c},
         ConnSound(conn, c \in entries, world.up),
         job' \in [at : {"waiting", "connected"}, delay : Nat, told : {"none", "refused"}]
  PROVE  Inv'
<1>1. /\ world'.conns = [world.conns EXCEPT ![c] = conn]
      /\ world'.entries = entries /\ world'.up = world.up
      /\ TypeOK'
  BY SetAllEffect DEF Inv, TypeOK
<1>2. ASSUME NEW d \in Conns PROVE ConnSound(world'.conns[d], d \in world'.entries, world'.up)
  <2>1. CASE d = c
    BY <1>1, <2>1 DEF Inv, TypeOK
  <2>2. CASE d # c
    <3>1. world'.conns[d] = world.conns[d] /\ (d \in world'.entries <=> d \in world.entries)
      BY <1>1, <2>2 DEF Inv, TypeOK
    <3>2. ConnSound(world.conns[d], d \in world.entries, world.up)
      BY DEF Inv, Sound, Conn
    <3>3. QED BY <1>1, <3>1, <3>2 DEF ConnSound
  <2>3. QED BY <2>1, <2>2
<1>3. QED BY <1>1, <1>2 DEF Inv, Sound, Conn

\* Who is served after a change of one connection.
LEMMA ServedAfter ==
  ASSUME TypeOK, NEW c \in Conns, NEW conn \in ConnStates, NEW entries \in SUBSET Conns,
         SetAll(c, conn, entries)
  PROVE  Served' = IF conn.fwd /\ ~ conn.cancel THEN Served \cup {c} ELSE Served \ {c}
<1>1. world'.conns = [world.conns EXCEPT ![c] = conn] BY SetAllEffect
<1>2. world.conns \in [Conns -> ConnStates] BY DEF TypeOK
<1>3. \A d \in Conns : world'.conns[d] = IF d = c THEN conn ELSE world.conns[d] BY <1>1, <1>2
<1>4. Served' = {d \in Conns : world'.conns[d].fwd /\ ~ world'.conns[d].cancel} BY DEF Served, Conn
<1>5. Served = {d \in Conns : world.conns[d].fwd /\ ~ world.conns[d].cancel} BY DEF Served, Conn
<1>6. QED BY <1>3, <1>4, <1>5

\* A change that leaves the places alone and serves only who holds one is one of
\* Places' steps.
LEMMA SetConnRefines ==
  ASSUME TypeOK, NEW c \in Conns, NEW conn \in ConnStates, SetConn(c, conn),
         conn.fwd /\ ~ conn.cancel => c \in world.entries \/ c \in Served
  PROVE  [Cap!Next]_(Cap!vars)
<1>1. SetAll(c, conn, world.entries) BY SetConnIsSetAll
<1>2. world.entries \in SUBSET Conns /\ world'.entries = world.entries
  <2>1. world.entries \in SUBSET Conns BY DEF TypeOK
  <2>2. QED BY <1>1, <2>1, SetAllEffect
<1>3. Served' = IF conn.fwd /\ ~ conn.cancel THEN Served \cup {c} ELSE Served \ {c}
  BY <1>1, <1>2, ServedAfter
<1>4. CASE conn.fwd /\ ~ conn.cancel /\ c \notin Served
  BY <1>2, <1>3, <1>4 DEF Cap!Next, Cap!Serve
<1>5. CASE conn.fwd /\ ~ conn.cancel /\ c \in Served
  BY <1>2, <1>3, <1>5 DEF Cap!vars
<1>6. CASE ~ (conn.fwd /\ ~ conn.cancel)
  BY <1>2, <1>3, <1>6 DEF Cap!Next, Cap!Rest
<1>7. QED BY <1>4, <1>5, <1>6

\* Places' cardinality is that of FiniteSets.
LEMMA SameCardinality ==
  ASSUME NEW S
  PROVE  Cap!Cardinality(S) = Cardinality(S)
BY Zenon DEF Cardinality, Cap!Cardinality

\* So is one that enters or leaves a place and leaves the forwarding alone, if who
\* leaves is not served.
LEMMA SetAllRefines ==
  ASSUME TypeOK, NEW c \in Conns, NEW conn \in ConnStates, NEW entries \in SUBSET Conns,
         SetAll(c, conn, entries), conn.fwd = Conn(c).fwd, conn.cancel = Conn(c).cancel,
         \/ entries = world.entries \cup {c} /\ Admitted(c)
         \/ entries = world.entries \ {c} /\ c \notin Served
  PROVE  [Cap!Next]_(Cap!vars)
<1>1. world'.entries = entries BY SetAllEffect
<1>2. Served' = Served
  <2>1. Served' = IF conn.fwd /\ ~ conn.cancel THEN Served \cup {c} ELSE Served \ {c}
    BY ServedAfter
  <2>2. c \in Served <=> conn.fwd /\ ~ conn.cancel BY DEF Served
  <2>3. QED BY <2>1, <2>2
<1>3. CASE c \in world.entries /\ entries = world.entries \cup {c}
  BY <1>1, <1>2, <1>3 DEF Cap!vars
<1>4. CASE c \notin world.entries /\ entries = world.entries \cup {c} /\ Admitted(c)
  BY <1>1, <1>2, <1>4, SameCardinality DEF Cap!Next, Cap!Enter, Admitted, SubscriberKey
<1>5. CASE entries = world.entries \ {c} /\ c \notin Served
  <2>1. world.entries \cap {c} \in SUBSET world.entries /\ Served \cap (world.entries \cap {c}) = {}
    BY <1>5
  <2>2. world'.entries = world.entries \ (world.entries \cap {c}) BY <1>1, <1>5
  <2>3. QED BY <1>2, <2>1, <2>2 DEF Cap!Next, Cap!Leave
<1>6. QED BY <1>3, <1>4, <1>5

--------------------------------------------------------------------------
(* The actions on one connection *)

Good == Inv' /\ [Cap!Next]_(Cap!vars)

JobTypes == [at : {"waiting", "connected"}, delay : Nat, told : {"none", "refused"}]

\* Both lemmas at once, for the two ways an action changes a connection.
LEMMA SetConnGood ==
  ASSUME Inv, NEW c \in Conns, NEW conn \in ConnStates, SetConn(c, conn), job' \in JobTypes,
         ConnSound(conn, c \in world.entries, world.up),
         conn.fwd /\ ~ conn.cancel => c \in world.entries
  PROVE  Good
<1>1. SetAll(c, conn, world.entries) /\ world.entries \in SUBSET Conns
  BY SetConnIsSetAll DEF Inv, TypeOK
<1>2. Inv' BY <1>1, SetAllInv DEF JobTypes
<1>3. [Cap!Next]_(Cap!vars) BY SetConnRefines DEF Inv
<1>4. QED BY <1>2, <1>3 DEF Good

LEMMA SetAllGood ==
  ASSUME Inv, NEW c \in Conns, NEW conn \in ConnStates, NEW entries \in SUBSET Conns,
         SetAll(c, conn, entries), UNCHANGED job, conn.fwd = Conn(c).fwd, conn.cancel = Conn(c).cancel,
         ConnSound(conn, c \in entries, world.up),
         \/ entries = world.entries \cup {c} /\ Admitted(c)
         \/ entries = world.entries \ {c} /\ c \notin Served
  PROVE  Good
<1>1. entries \ {c} = world.entries \ {c} OBVIOUS
<1>2. job' \in JobTypes BY DEF Inv, TypeOK, JobTypes
<1>3. Inv' BY <1>1, <1>2, SetAllInv DEF JobTypes
<1>4. [Cap!Next]_(Cap!vars) BY SetAllRefines DEF Inv
<1>5. QED BY <1>3, <1>4 DEF Good

\* What the actions read of a connection.
LEMMA ConnFacts ==
  ASSUME Inv, NEW c \in Conns
  PROVE  /\ Conn(c) \in ConnStates
         /\ ConnSound(Conn(c), c \in world.entries, world.up)
         /\ Closed \in ConnStates
         /\ job \in JobTypes
BY DEF Inv, TypeOK, Sound, Conn, ConnStates, Closed, JobTypes

LEMMA ConnectsGood ==
  ASSUME Inv, NEW c \in Conns, Connects(c), job' \in JobTypes
  PROVE  Good
<1> DEFINE conn == [Closed EXCEPT !.at = "queued", !.open = TRUE]
<1>1. conn \in ConnStates /\ ~ conn.fwd /\ conn.at = "queued" BY DEF ConnStates, Closed
<1>2. SetConn(c, conn) /\ world.up = "up" BY DEF Connects
<1>3. ConnSound(conn, c \in world.entries, world.up) BY <1>1, <1>2 DEF ConnSound
<1> HIDE DEF conn
<1>4. QED BY <1>1, <1>2, <1>3, SetConnGood

\* Actions that change nothing a forwarder depends on, or stop it.
LEMMA QuietGood ==
  ASSUME Inv, NEW c \in Conns, NEW conn \in ConnStates, SetConn(c, conn), job' \in JobTypes,
         conn.fwd => Conn(c).fwd /\ conn.at \in {"ready", "asking", "subscribing", "ending"},
         Conn(c).cancel => conn.cancel,
         conn.at \notin {"subscribing", "closed"}, Conn(c).at # "closed"
  PROVE  Good
<1>1. ConnSound(Conn(c), c \in world.entries, world.up) BY ConnFacts
<1>2. ConnSound(conn, c \in world.entries, world.up) BY <1>1 DEF ConnSound
<1>3. conn.fwd /\ ~ conn.cancel => c \in world.entries BY <1>1 DEF ConnSound
<1>4. QED BY <1>2, <1>3, SetConnGood

LEMMA HandlerQuiet ==
  ASSUME Inv, NEW c \in Conns,
         \/ Accept(c) \/ HandleHandshake(c) \/ ReadsSubscribe(c) \/ Unsubscribe(c)
         \/ HandlerEnds(c) \/ HandlerDrops(c)
  PROVE  Good
<1> USE DEF ConnStates
<1>1. /\ Conn(c) \in ConnStates /\ job \in JobTypes
      /\ ConnSound(Conn(c), c \in world.entries, world.up)
  BY ConnFacts
<1>2. CASE Accept(c)
  <2> DEFINE conn == [Conn(c) EXCEPT !.at = "handshake"]
  <2>1. /\ conn \in ConnStates /\ conn.fwd = Conn(c).fwd /\ conn.cancel = Conn(c).cancel
        /\ conn.at = "handshake"
    BY <1>1
  <2>2. SetConn(c, conn) /\ job' \in JobTypes /\ ~ Conn(c).fwd /\ Conn(c).at = "queued"
    BY <1>1, <1>2 DEF Accept, ConnSound
  <2> HIDE DEF conn
  <2>3. QED BY <2>1, <2>2, QuietGood
<1>3. CASE HandleHandshake(c)
  <2>1. PICK major, id : id \in Ids /\
          SetConn(c, IF IsCompatibleWith(major)
                     THEN [Conn(c) EXCEPT !.at = "ready", !.id = id]
                     ELSE [Conn(c) EXCEPT !.at = "ending", !.told = "refused"])
    BY <1>3 DEF HandleHandshake
  <2> DEFINE conn == IF IsCompatibleWith(major)
                     THEN [Conn(c) EXCEPT !.at = "ready", !.id = id]
                     ELSE [Conn(c) EXCEPT !.at = "ending", !.told = "refused"]
  <2>2. /\ conn \in ConnStates /\ conn.fwd = Conn(c).fwd /\ conn.cancel = Conn(c).cancel
        /\ conn.at \in {"ready", "ending"}
    BY <1>1, <2>1
  <2>3. SetConn(c, conn) /\ job' \in JobTypes /\ Conn(c).at = "handshake"
    BY <1>1, <1>3, <2>1 DEF HandleHandshake
  <2> HIDE DEF conn
  <2>4. QED BY <2>2, <2>3, QuietGood
<1>4. CASE ReadsSubscribe(c)
  <2> DEFINE conn == [Conn(c) EXCEPT !.at = "asking"]
  <2>1. /\ conn \in ConnStates /\ conn.fwd = Conn(c).fwd /\ conn.cancel = Conn(c).cancel
        /\ conn.at = "asking"
    BY <1>1
  <2>2. SetConn(c, conn) /\ job' \in JobTypes /\ Conn(c).at = "ready"
    BY <1>1, <1>4 DEF ReadsSubscribe, Reads
  <2> HIDE DEF conn
  <2>3. QED BY <2>1, <2>2, QuietGood
<1>5. CASE Unsubscribe(c)
  <2> DEFINE conn == [Conn(c) EXCEPT !.at = "unsubscribing", !.fwd = FALSE]
  <2>1. conn \in ConnStates /\ ~ conn.fwd /\ conn.cancel = Conn(c).cancel /\ conn.at = "unsubscribing"
    BY <1>1
  <2>2. SetConn(c, conn) /\ job' \in JobTypes /\ Conn(c).at = "ready"
    BY <1>1, <1>5 DEF Unsubscribe, Reads
  <2> HIDE DEF conn
  <2>3. QED BY <2>1, <2>2, QuietGood
<1>6. CASE HandlerEnds(c)
  <2> DEFINE conn == [Conn(c) EXCEPT !.at = "ending"]
  <2>1. /\ conn \in ConnStates /\ conn.fwd = Conn(c).fwd /\ conn.cancel = Conn(c).cancel
        /\ conn.at = "ending"
    BY <1>1
  <2>2. SetConn(c, conn) /\ job' \in JobTypes /\ Conn(c).at # "closed"
    BY <1>1, <1>6 DEF HandlerEnds
  <2> HIDE DEF conn
  <2>3. QED BY <2>1, <2>2, QuietGood
<1>7. CASE HandlerDrops(c)
  <2> DEFINE conn == [Conn(c) EXCEPT !.at = "leaving", !.fwd = FALSE]
  <2>1. conn \in ConnStates /\ ~ conn.fwd /\ conn.cancel = Conn(c).cancel /\ conn.at = "leaving"
    BY <1>1
  <2>2. SetConn(c, conn) /\ job' \in JobTypes /\ Conn(c).at = "ending"
    BY <1>1, <1>7 DEF HandlerDrops
  <2> HIDE DEF conn
  <2>3. QED BY <2>1, <2>2, QuietGood
<1>8. QED BY <1>2, <1>3, <1>4, <1>5, <1>6, <1>7

\* Subscribing and leaving the place again.
LEMMA SubscribeGood ==
  ASSUME Inv, NEW c \in Conns, Subscribe(c)
  PROVE  Good
<1> USE DEF ConnStates
<1>1. /\ Conn(c) \in ConnStates /\ job' \in JobTypes /\ Conn(c).at = "asking"
      /\ ConnSound(Conn(c), c \in world.entries, world.up)
  BY ConnFacts DEF Subscribe
<1>2. CASE Admitted(c)
  <2> DEFINE conn == [Conn(c) EXCEPT !.at = "subscribing", !.sub = TRUE]
             entries == world.entries \cup {c}
  <2>1. /\ conn \in ConnStates /\ conn.fwd = Conn(c).fwd /\ conn.cancel = Conn(c).cancel
        /\ conn.at = "subscribing"
    BY <1>1
  <2>2. entries \in SUBSET Conns BY DEF Inv, TypeOK
  <2>3. SetAll(c, conn, entries) /\ UNCHANGED job BY <1>2 DEF Subscribe, SubscriberKey
  <2>4. ConnSound(conn, c \in entries, world.up) BY <1>1, <2>1 DEF ConnSound
  <2>5. entries = world.entries \cup {c} OBVIOUS
  <2> HIDE DEF conn, entries
  <2>6. QED BY <1>2, <2>1, <2>2, <2>3, <2>4, <2>5, SetAllGood
<1>3. CASE ~ Admitted(c)
  <2> DEFINE conn == [Conn(c) EXCEPT !.at = "ready", !.told = "refused"]
  <2>1. /\ conn \in ConnStates /\ conn.fwd = Conn(c).fwd /\ conn.cancel = Conn(c).cancel
        /\ conn.at = "ready"
    BY <1>1
  <2>2. SetConn(c, conn) BY <1>3 DEF Subscribe
  <2> HIDE DEF conn
  <2>3. QED BY <1>1, <2>1, <2>2, QuietGood
<1>4. QED BY <1>2, <1>3

LEMMA SubscribeRunsGood ==
  ASSUME Inv, NEW c \in Conns, SubscribeRuns(c)
  PROVE  Good
<1> USE DEF ConnStates
<1>1. /\ Conn(c) \in ConnStates /\ job' \in JobTypes /\ Conn(c).at = "subscribing"
      /\ ConnSound(Conn(c), c \in world.entries, world.up)
  BY ConnFacts DEF SubscribeRuns
<1>2. CASE SetConn(c, [Conn(c) EXCEPT !.at = "ready", !.told = "list", !.fwd = ~ Conn(c).cancel])
  <2> DEFINE conn == [Conn(c) EXCEPT !.at = "ready", !.told = "list", !.fwd = ~ Conn(c).cancel]
  <2>1. conn \in ConnStates /\ conn.cancel = Conn(c).cancel /\ conn.at = "ready" BY <1>1
  <2>2. conn.fwd <=> ~ conn.cancel BY <1>1
  <2>3. SetConn(c, conn) BY <1>2
  <2> HIDE DEF conn
  <2>4. ~ conn.cancel => c \in world.entries BY <1>1, <2>1 DEF ConnSound
  <2>5. ConnSound(conn, c \in world.entries, world.up) BY <1>1, <2>1, <2>2, <2>4 DEF ConnSound
  <2>6. QED BY <1>1, <2>1, <2>3, <2>4, <2>5, SetConnGood
<1>3. CASE SetConn(c, [Conn(c) EXCEPT !.at = "ending", !.fwd = FALSE])
  <2> DEFINE conn == [Conn(c) EXCEPT !.at = "ending", !.fwd = FALSE]
  <2>1. conn \in ConnStates /\ conn.cancel = Conn(c).cancel /\ conn.at = "ending" /\ ~ conn.fwd
    BY <1>1
  <2>2. SetConn(c, conn) BY <1>3
  <2> HIDE DEF conn
  <2>3. QED BY <1>1, <2>1, <2>2, QuietGood
<1>4. QED BY <1>2, <1>3 DEF SubscribeRuns

LEMMA LeavesGood ==
  ASSUME Inv, NEW c \in Conns, UnsubscribeRuns(c) \/ HandlerLeaves(c)
  PROVE  Good
<1> USE DEF ConnStates
<1>1. /\ Conn(c) \in ConnStates /\ Conn(c).at \in {"unsubscribing", "leaving"} /\ UNCHANGED job
      /\ ConnSound(Conn(c), c \in world.entries, world.up)
  BY ConnFacts DEF UnsubscribeRuns, HandlerLeaves
<1>2. ~ Conn(c).fwd /\ c \notin Served BY <1>1 DEF ConnSound, Served
<1> DEFINE entries == world.entries \ {c}
<1>3. entries \in SUBSET Conns BY DEF Inv, TypeOK
<1>4. PICK conn : /\ conn \in ConnStates /\ SetAll(c, conn, entries)
                  /\ conn.fwd = Conn(c).fwd /\ conn.cancel = Conn(c).cancel
                  /\ conn.at \in {"ready", "closed"}
  <2>1. CASE UnsubscribeRuns(c)
    <3> DEFINE ready == [Conn(c) EXCEPT !.at = "ready", !.sub = FALSE]
    <3>1. SetAll(c, ready, entries) BY <2>1 DEF UnsubscribeRuns, SubscriberKey
    <3>2. ready \in ConnStates /\ ready.fwd = Conn(c).fwd /\ ready.cancel = Conn(c).cancel /\ ready.at = "ready"
      BY <1>1
    <3>3. QED BY <3>1, <3>2
  <2>2. CASE HandlerLeaves(c)
    <3> DEFINE shut == [Conn(c) EXCEPT !.at = "closed", !.open = FALSE]
    <3>1. SetAll(c, shut, entries) BY <2>2 DEF HandlerLeaves, SubscriberKey
    <3>2. shut \in ConnStates /\ shut.fwd = Conn(c).fwd /\ shut.cancel = Conn(c).cancel /\ shut.at = "closed"
      BY <1>1
    <3>3. QED BY <3>1, <3>2
  <2>3. QED BY <2>1, <2>2
<1>5. ConnSound(conn, c \in entries, world.up) BY <1>1, <1>2, <1>4 DEF ConnSound
<1>6. QED BY <1>1, <1>2, <1>3, <1>4, <1>5, SetAllGood

\* The forwarder's failure, and ends closed from outside.
LEMMA BreaksGood ==
  ASSUME Inv, NEW c \in Conns, ForwarderFails(c) \/ OtherCloses(c) \/ (c = Tui /\ TuiRefused)
  PROVE  Good
<1> USE DEF ConnStates
<1>1. /\ Conn(c) \in ConnStates /\ job \in JobTypes
      /\ ConnSound(Conn(c), c \in world.entries, world.up)
  BY ConnFacts
<1>2. CASE ForwarderFails(c)
  <2> DEFINE conn == [Conn(c) EXCEPT !.fwd = FALSE, !.cancel = TRUE]
  <2>1. /\ conn \in ConnStates /\ ~ conn.fwd /\ conn.cancel /\ conn.at = Conn(c).at
    BY <1>1
  <2>2. SetConn(c, conn) /\ job' \in JobTypes BY <1>1, <1>2 DEF ForwarderFails
  <2> HIDE DEF conn
  <2>3. ConnSound(conn, c \in world.entries, world.up) BY <2>1 DEF ConnSound
  <2>4. QED BY <2>1, <2>2, <2>3, SetConnGood
<1>3. CASE OtherCloses(c) \/ (c = Tui /\ TuiRefused)
  <2> DEFINE conn == [Conn(c) EXCEPT !.open = FALSE]
  <2>1. /\ conn \in ConnStates /\ conn.fwd = Conn(c).fwd /\ conn.cancel = Conn(c).cancel
        /\ conn.at = Conn(c).at
    BY <1>1
  <2>2. SetConn(c, conn) /\ job' \in JobTypes
    BY <1>1, <1>3 DEF OtherCloses, TuiRefused, JobTypes
  <2> HIDE DEF conn
  <2>3. ConnSound(conn, c \in world.entries, world.up) BY <1>1, <2>1 DEF ConnSound
  <2>4. conn.fwd /\ ~ conn.cancel => c \in world.entries BY <1>1, <2>1 DEF ConnSound
  <2>5. QED BY <2>1, <2>2, <2>3, <2>4, SetConnGood
<1>4. QED BY <1>2, <1>3

--------------------------------------------------------------------------
(* Shutdown and restart, and the TUI's steps *)

\* Nobody is served while every connection is closed or cancelled.
LEMMA NobodyServed ==
  ASSUME Inv, world.up \in {"stopping", "draining"}
  PROVE  Served = {}
<1>1. ASSUME NEW c \in Conns PROVE ~ (Conn(c).fwd /\ ~ Conn(c).cancel)
  BY ConnFacts DEF ConnSound
<1>2. QED BY <1>1 DEF Served

LEMMA StopGood ==
  ASSUME Inv, Stop
  PROVE  Good
<1> DEFINE conns == [c \in Conns |-> Cancelled(world.conns[c])]
<1>1. /\ world' = [world EXCEPT !.up = "stopping", !.stops = @ + 1, !.paused = FALSE, !.conns = conns]
      /\ UNCHANGED job
  BY DEF Stop
<1>2. conns \in [Conns -> ConnStates]
  <2>1. world.conns \in [Conns -> ConnStates] BY DEF Inv, TypeOK
  <2>2. \A k \in ConnStates : [k EXCEPT !.cancel = TRUE] \in ConnStates BY DEF ConnStates
  <2>3. QED BY <2>1, <2>2 DEF Cancelled
<1>3. \A c \in Conns : /\ conns[c].at = world.conns[c].at /\ conns[c].fwd = world.conns[c].fwd
                       /\ conns[c].cancel \/ (conns[c] = world.conns[c] /\ conns[c].at = "closed")
  BY DEF Inv, TypeOK, ConnStates, Cancelled
<1> HIDE DEF conns
<1>4. /\ TypeOK' /\ world'.conns = conns /\ world'.up = "stopping" /\ world'.entries = world.entries
  <2>1. world \in [up : {"up", "stopping", "draining", "down"}, paused : BOOLEAN,
                  conns : [Conns -> ConnStates], entries : SUBSET Conns, stops : Nat]
    BY DEF Inv, TypeOK
  <2>2. world.stops + 1 \in Nat BY <2>1
  <2>3. /\ world' \in [up : {"up", "stopping", "draining", "down"}, paused : BOOLEAN,
                       conns : [Conns -> ConnStates], entries : SUBSET Conns, stops : Nat]
        /\ world'.conns = conns /\ world'.up = "stopping" /\ world'.entries = world.entries
    BY <1>1, <1>2, <2>1, <2>2
  <2>4. QED BY <1>1, <2>3 DEF Inv, TypeOK
<1>5. ASSUME NEW c \in Conns
      PROVE  ConnSound(world'.conns[c], c \in world'.entries, world'.up)
  <2>1. ConnSound(world.conns[c], c \in world.entries, world.up) BY DEF Inv, Sound, Conn
  <2>2. QED BY <1>3, <1>4, <2>1 DEF ConnSound
<1>6. Served' \in SUBSET Served BY <1>3, <1>4 DEF Served, Conn
<1>7. [Cap!Next]_(Cap!vars) BY <1>4, <1>6 DEF Cap!Next, Cap!Rest
<1>8. QED BY <1>4, <1>5, <1>7 DEF Good, Inv, Sound, Conn

LEMMA CleanupGood ==
  ASSUME Inv, Cleanup
  PROVE  Good
<1>1. /\ TypeOK' /\ world'.conns = world.conns /\ world'.up = "draining" /\ world'.entries = {}
      /\ world.up = "stopping" /\ world.entries \in SUBSET world.entries
  BY DEF Cleanup, Inv, TypeOK
<1>2. ASSUME NEW c \in Conns
      PROVE  ConnSound(world'.conns[c], c \in world'.entries, world'.up)
  <2>1. ConnSound(world.conns[c], c \in world.entries, world.up) BY DEF Inv, Sound, Conn
  <2>2. QED BY <1>1, <2>1 DEF ConnSound
<1>3. Served = {} /\ Served' = Served BY <1>1, NobodyServed DEF Served, Conn
<1>4. world'.entries = world.entries \ world.entries /\ Served \cap world.entries = {} BY <1>1, <1>3
<1>5. [Cap!Next]_(Cap!vars) BY <1>1, <1>3, <1>4 DEF Cap!Next, Cap!Leave
<1>6. QED BY <1>1, <1>2, <1>5 DEF Good, Inv, Sound, Conn

LEMMA DrainGood ==
  ASSUME Inv, DrainConnections
  PROVE  Good
<1> DEFINE conns == [c \in Conns |-> IF Conn(c).at = "closed" THEN Conn(c) ELSE Aborted(Conn(c))]
<1>1. /\ world' = [world EXCEPT !.up = "down", !.entries = {}, !.conns = conns]
      /\ world.up = "draining" /\ UNCHANGED job
  BY DEF DrainConnections
<1>2. conns \in [Conns -> ConnStates] BY DEF Inv, TypeOK, ConnStates, Aborted, Closed, Conn
<1>3. \A c \in Conns : conns[c].at = "closed" /\ ~ conns[c].fwd
  <2>1. TAKE c \in Conns
  <2>2. ConnSound(world.conns[c], c \in world.entries, world.up) BY DEF Inv, Sound, Conn
  <2>3. QED BY <2>2 DEF ConnSound, Aborted, Closed, Conn
<1> HIDE DEF conns
<1>4. TypeOK' /\ world'.conns = conns /\ world'.up = "down" /\ world'.entries = {}
  BY <1>1, <1>2 DEF Inv, TypeOK
<1>5. \A c \in Conns : ConnSound(world'.conns[c], c \in world'.entries, world'.up)
  BY <1>3, <1>4 DEF ConnSound
<1>6. Served = {} /\ Served' = {} BY <1>1, <1>3, <1>4, NobodyServed DEF Served, Conn
<1>7. world'.entries = world.entries \ world.entries /\ Served \cap world.entries = {}
      /\ world.entries \in SUBSET world.entries
  BY <1>4, <1>6
<1>8. [Cap!Next]_(Cap!vars) BY <1>6, <1>7 DEF Cap!Next, Cap!Leave
<1>9. QED BY <1>4, <1>5, <1>8 DEF Good, Inv, Sound, Conn

LEMMA RestartGood ==
  ASSUME Inv, Restart
  PROVE  Good
<1>1. Closed \in ConnStates /\ ~ Closed.fwd /\ Closed.at = "closed" BY DEF ConnStates, Closed
<1>2. /\ TypeOK' /\ world'.conns = [c \in Conns |-> Closed] /\ world'.up = "up"
      /\ world'.entries = world.entries
  BY <1>1 DEF Restart, Inv, TypeOK
<1>3. \A c \in Conns : ConnSound(world'.conns[c], c \in world'.entries, world'.up)
  BY <1>1, <1>2 DEF ConnSound
<1>4. Served' = {} BY <1>1, <1>2 DEF Served, Conn
<1>5. [Cap!Next]_(Cap!vars) BY <1>2, <1>4 DEF Cap!Next, Cap!Rest
<1>6. QED BY <1>2, <1>3, <1>5 DEF Good, Inv, Sound, Conn

\* Steps that leave connections and places alone.
LEMMA IdleGood ==
  ASSUME Inv, TypeOK', world'.conns = world.conns, world'.entries = world.entries, world'.up = world.up
  PROVE  Good
BY DEF Good, Inv, Sound, Served, Conn, Cap!vars

LEMMA PauseGood ==
  ASSUME Inv, AcceptFails \/ AcceptResumes \/ TuiDisconnected \/ UNCHANGED vars
  PROVE  Good
<1>1. CASE AcceptFails \/ AcceptResumes
  BY <1>1, IdleGood DEF AcceptFails, AcceptResumes, Inv, TypeOK
<1>2. CASE TuiDisconnected
  <2>1. job \in [at : {"waiting", "connected"}, delay : Nat, told : {"none", "refused"}]
    BY DEF Inv, TypeOK
  <2>2. PICK long : job' = [job EXCEPT !.at = "waiting", !.delay = IF long THEN 0 ELSE Grown(@), !.told = "none"]
    BY <1>2 DEF TuiDisconnected, AfterEnd
  <2>3. Grown(job.delay) \in Nat BY <2>1 DEF Grown
  <2>4. job' \in [at : {"waiting", "connected"}, delay : Nat, told : {"none", "refused"}]
    BY <2>1, <2>2, <2>3
  <2>5. world' = world BY <1>2 DEF TuiDisconnected
  <2>6. QED BY <2>4, <2>5, IdleGood DEF Inv, TypeOK
<1>3. CASE UNCHANGED vars
  BY <1>3, IdleGood DEF vars, Inv, TypeOK
<1>4. QED BY <1>1, <1>2, <1>3

LEMMA TuiConnectsGood ==
  ASSUME Inv, OtherConnects \/ TuiConnects
  PROVE  Good
<1>1. job \in JobTypes BY DEF Inv, TypeOK, JobTypes
<1>2. CASE OtherConnects
  <2>1. PICK c \in Others : Connects(c) BY <1>2 DEF OtherConnects
  <2>2. c \in Conns /\ job' \in JobTypes BY <1>1, <1>2 DEF OtherConnects, Conns
  <2>3. QED BY <2>1, <2>2, ConnectsGood
<1>3. CASE TuiConnects
  <2>1. Tui \in Conns BY DEF Conns
  <2>2. Connects(Tui) /\ job' \in JobTypes BY <1>1, <1>3 DEF TuiConnects, JobTypes
  <2>3. QED BY <2>1, <2>2, ConnectsGood
<1>4. QED BY <1>2, <1>3

--------------------------------------------------------------------------
(* The specification *)

LEMMA InitGood == Init => Inv /\ Cap!Init
<1> SUFFICES ASSUME Init PROVE Inv /\ Cap!Init OBVIOUS
<1>1. Closed \in ConnStates /\ ~ Closed.fwd /\ Closed.at = "closed" BY DEF ConnStates, Closed
<1>2. TypeOK BY <1>1 DEF Init, TypeOK
<1>3. \A c \in Conns : Conn(c) = Closed BY DEF Init, Conn
<1>4. world.up = "up" /\ world.entries = {} BY DEF Init
<1>5. Sound BY <1>1, <1>3, <1>4 DEF Sound, ConnSound
<1>6. Served = {} BY <1>1, <1>3 DEF Served
<1>7. QED BY <1>2, <1>4, <1>5, <1>6 DEF Inv, Cap!Init

LEMMA NextGood == Inv /\ [Next]_vars => Good
<1> SUFFICES ASSUME Inv, [Next]_vars PROVE Good OBVIOUS
<1>1. CASE OtherConnects \/ TuiConnects BY <1>1, TuiConnectsGood
<1>2. CASE AcceptFails \/ AcceptResumes \/ TuiDisconnected \/ UNCHANGED vars BY <1>2, PauseGood
<1>3. CASE Stop BY <1>3, StopGood
<1>4. CASE Cleanup BY <1>4, CleanupGood
<1>5. CASE DrainConnections BY <1>5, DrainGood
<1>6. CASE Restart BY <1>6, RestartGood
<1>7. CASE TuiRefused
  <2>1. Tui \in Conns BY DEF Conns
  <2>2. QED BY <1>7, <2>1, BreaksGood
<1>8. ASSUME NEW c \in Conns,
             \/ Accept(c) \/ HandleHandshake(c) \/ ReadsSubscribe(c) \/ Subscribe(c) \/ SubscribeRuns(c)
             \/ Unsubscribe(c) \/ UnsubscribeRuns(c) \/ ForwarderFails(c) \/ HandlerEnds(c)
             \/ HandlerDrops(c) \/ HandlerLeaves(c) \/ OtherCloses(c)
      PROVE  Good
  BY <1>8, HandlerQuiet, SubscribeGood, SubscribeRunsGood, LeavesGood, BreaksGood
<1>9. QED BY <1>1, <1>2, <1>3, <1>4, <1>5, <1>6, <1>7, <1>8 DEF Next

\* Inv: types, and what forwarders and places have to do with each other, in every
\* reachable state.
THEOREM Invariance == Spec => []Inv
<1>1. Init => Inv BY InitGood
<1>2. Inv /\ [Next]_vars => Inv' BY NextGood DEF Good
<1>3. QED BY <1>1, <1>2, PTL DEF Spec

\* PlacesKept: for any clients, any cap and any number of restarts, subscriptions
\* implement Places: who is forwarded events holds one of a fixed number of places,
\* also across failed writes, aborted handlers and reconnects.
THEOREM SubscriptionsImplementPlaces == Spec => PlacesKept
<1>1. Init => Cap!Init BY InitGood
<1>2. Inv /\ [Next]_vars => [Cap!Next]_(Cap!vars) BY NextGood DEF Good
<1>3. QED BY <1>1, <1>2, Invariance, PTL DEF Spec, PlacesKept, Cap!Spec

\* The cap itself, from what Places allows: no more than MAX_TUI_CLIENTS entries.
PlacesLimited == IsFiniteSet(world.entries) /\ Cardinality(world.entries) <= MaxClients

THEOREM CapRespected ==
  ASSUME MaxClients \in Nat
  PROVE  Spec => []PlacesLimited
<1>1. Init => PlacesLimited BY FS_EmptySet DEF Init, PlacesLimited
<1>2. ASSUME PlacesLimited, [Cap!Next]_(Cap!vars) PROVE PlacesLimited'
  <2>1. CASE Cap!Enter
    <3>1. PICK c \in Conns \ world.entries : world.entries' = world.entries \cup {c}
      BY <2>1 DEF Cap!Enter
    <3>2. Cardinality(world.entries) < MaxClients BY <2>1, SameCardinality DEF Cap!Enter
    <3>3. /\ IsFiniteSet(world.entries \cup {c})
          /\ Cardinality(world.entries \cup {c}) = Cardinality(world.entries) + 1
      BY <1>2, <3>1, FS_AddElement DEF PlacesLimited
    <3>4. Cardinality(world.entries) \in Nat BY <1>2, FS_CardinalityType DEF PlacesLimited
    <3>5. Cardinality(world.entries) + 1 <= MaxClients BY <3>2, <3>4
    <3>6. QED BY <3>1, <3>3, <3>5 DEF PlacesLimited
  <2>2. CASE Cap!Leave
    <3>1. PICK gone \in SUBSET world.entries : world.entries' = world.entries \ gone
      BY <2>2 DEF Cap!Leave
    <3>2. /\ IsFiniteSet(world.entries \ gone)
          /\ Cardinality(world.entries \ gone) <= Cardinality(world.entries)
      BY <1>2, FS_Subset, FS_CardinalityType DEF PlacesLimited
    <3>3. Cardinality(world.entries) \in Nat /\ Cardinality(world.entries \ gone) \in Nat
      BY <1>2, <3>2, FS_CardinalityType DEF PlacesLimited
    <3>4. QED BY <1>2, <3>1, <3>2, <3>3 DEF PlacesLimited
  <2>3. CASE Cap!Serve \/ Cap!Rest \/ UNCHANGED Cap!vars
    <3>1. world.entries' = world.entries BY <2>3 DEF Cap!Serve, Cap!Rest, Cap!vars
    <3>2. QED BY <1>2, <3>1 DEF PlacesLimited
  <2>4. QED BY <1>2, <2>1, <2>2, <2>3 DEF Cap!Next
<1>3. Inv /\ [Next]_vars => [Cap!Next]_(Cap!vars) BY NextGood DEF Good
<1>4. PlacesLimited /\ Inv /\ [Next]_vars => PlacesLimited' BY <1>2, <1>3
<1>5. QED BY <1>1, <1>4, Invariance, PTL DEF Spec
=============================================================================
