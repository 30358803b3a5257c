----------------------------- MODULE TerminalProofs ----------------------------
(***************************************************************************)
(* For every choice of the bounds: what MCParts checks of the commands     *)
(* that work on tmux panes, of the TUI's screen and of the beads beside    *)
(* it.  Each part has an invariant over its own variables and a lemma per  *)
(* action; the last section puts them together.                            *)
(***************************************************************************)
EXTENDS MCParts, FunctionTheorems, FiniteSetTheorems, SequenceTheorems, TLAPS

-----------------------------------------------------------------------------
(* Induction over the naturals, by counting *)

\* A set of naturals that is closed under successor holds them all: one that
\* missed m would have a finite part that maps one to one on the part without 0.
LEMMA SetInduction ==
  ASSUME NEW S, 0 \in S, \A n \in Nat : n \in S => n + 1 \in S
  PROVE  Nat \subseteq S
<1> SUFFICES ASSUME NEW m \in Nat, m \notin S
             PROVE  FALSE
  OBVIOUS
<1> DEFINE D == {x \in 0 .. m : \A y \in 0 .. x : y \in S}
           E == D \ {0}
           f == [x \in D |-> x + 1]
<1>1. 0 \in D
  OBVIOUS
<1>2. \A x \in D : x + 1 \in E
  <2> SUFFICES ASSUME NEW x \in D  PROVE x + 1 \in E
    OBVIOUS
  <2>1. x \in Nat /\ x \in 0 .. x /\ x \in S /\ x + 1 \in S
    OBVIOUS
  <2>2. x # m /\ x + 1 \in 0 .. m
    BY <2>1
  <2>3. \A y \in 0 .. x + 1 : y \in 0 .. x \/ y = x + 1
    BY <2>1
  <2> QED
    BY <2>1, <2>2, <2>3
<1>3. \A y \in E : y - 1 \in D /\ (y - 1) + 1 = y
  OBVIOUS
<1>4. \A x \in D : f[x] = x + 1 /\ x \in Int
  OBVIOUS
<1> HIDE DEF D, E, f
<1>5. f \in [D -> E]
  BY <1>2 DEF f
<1>6. f \in Bijection(D, E)
  <2>1. f \in Injection(D, E)
    BY <1>4, <1>5, Fun_IsInj
  <2>2. f \in Surjection(D, E)
    BY <1>3, <1>4, <1>5, Fun_IsSurj
  <2> QED
    BY <2>1, <2>2 DEF Bijection
<1>7. IsFiniteSet(D)
  <2>1. IsFiniteSet(0 .. m)
    BY FS_Interval, SMT
  <2>2. D \in SUBSET (0 .. m)
    BY DEF D
  <2> QED
    BY <2>1, <2>2, FS_Subset
<1>8. Cardinality(D) \in Nat /\ Cardinality(E) = Cardinality(D) - 1
  BY <1>1, <1>7, FS_RemoveElement, FS_CardinalityType DEF E
<1>9. Cardinality(E) = Cardinality(D)
  BY <1>6, <1>7, FS_Bijection DEF ExistsBijection
<1> QED
  BY <1>8, <1>9

\* A set of positions has a last one.
LEMMA LastOne ==
  ASSUME NEW n \in Nat, NEW T \in SUBSET (1 .. n), T # {}
  PROVE  \E i \in T : \A j \in T : j <= i
<1> DEFINE S == {k \in Nat : (\E j \in T : j <= k) => \E i \in T : i <= k /\ \A j \in T : j <= k => j <= i}
<1>1. 0 \in S
  BY SMT
<1>2. ASSUME NEW k \in Nat, k \in S  PROVE k + 1 \in S
  <2>1. CASE k + 1 \in T
    BY <2>1
  <2>2. CASE k + 1 \notin T
    <3>1. \A j \in T : j <= k + 1 <=> j <= k
      BY <2>2
    <3> QED
      BY <1>2, <3>1
  <2> QED
    BY <2>1, <2>2
<1>3. n \in S
  <2> HIDE DEF S
  <2> QED
    BY <1>1, <1>2, SetInduction
<1>4. \A j \in T : j <= n
  OBVIOUS
<1>5. \E j \in T : j <= n
  BY <1>4
<1> QED
  BY <1>3, <1>4, <1>5

\* The two halves of a concatenation.
LEMMA Concat ==
  ASSUME NEW S, NEW s \in Seq(S), NEW t \in Seq(S)
  PROVE  /\ s \o t \in Seq(S) /\ Len(s \o t) = Len(s) + Len(t)
         /\ \A i \in 1 .. Len(s) : (s \o t)[i] = s[i]
         /\ \A i \in 1 .. Len(t) : (s \o t)[Len(s) + i] = t[i]
<1>1. Len(s) \in Nat /\ Len(t) \in Nat
  BY LenProperties
<1>2. /\ s \o t \in Seq(S) /\ Len(s \o t) = Len(s) + Len(t)
      /\ \A i \in 1 .. Len(s) + Len(t) : (s \o t)[i] = IF i <= Len(s) THEN s[i] ELSE t[i - Len(s)]
  BY ConcatProperties
<1> DEFINE m == Len(s)
           n == Len(t)
           c == s \o t
<1>3. m \in Nat /\ n \in Nat /\ \A i \in 1 .. m + n : c[i] = IF i <= m THEN s[i] ELSE t[i - m]
  BY <1>1, <1>2
<1> HIDE DEF m, n, c
<1>4. \A i \in 1 .. m : c[i] = s[i]
  BY <1>3
<1>5. \A i \in 1 .. n : c[m + i] = t[i]
  <2> SUFFICES ASSUME NEW i \in 1 .. n  PROVE c[m + i] = t[i]
    OBVIOUS
  <2>1. m + i \in 1 .. m + n /\ ~ m + i <= m /\ (m + i) - m = i
    BY <1>3
  <2> QED
    BY <1>3, <2>1
<1> QED
  BY <1>2, <1>4, <1>5 DEF m, n, c

\* The head of a sequence, and the rest.
LEMMA HeadTail ==
  ASSUME NEW S, NEW s \in Seq(S), s # <<>>
  PROVE  /\ Len(s) \in Nat /\ Len(s) > 0 /\ Head(s) = s[1] /\ s[1] \in S
         /\ Tail(s) \in Seq(S) /\ Len(Tail(s)) = Len(s) - 1
         /\ \A i \in 1 .. Len(Tail(s)) : i + 1 \in 1 .. Len(s) /\ Tail(s)[i] = s[i + 1]
         /\ \A i \in 2 .. Len(s) : i - 1 \in 1 .. Len(Tail(s)) /\ Tail(s)[i - 1] = s[i]
         /\ Tail(s) = <<>> <=> Len(s) = 1
<1>1. Len(s) \in Nat /\ Len(s) > 0
  BY EmptySeq
<1>2. Head(s) = s[1] /\ s[1] \in S
  BY <1>1, HeadTailProperties
<1>3. /\ Tail(s) \in Seq(S) /\ Len(Tail(s)) = Len(s) - 1
      /\ \A i \in 1 .. Len(Tail(s)) : Tail(s)[i] = s[i + 1]
  BY HeadTailProperties
<1> DEFINE n == Len(s)
           t == Tail(s)
           m == Len(t)
<1>4. n \in Nat /\ n > 0 /\ m = n - 1 /\ \A i \in 1 .. m : t[i] = s[i + 1]
  BY <1>1, <1>3
<1>5. t = <<>> <=> m = 0
  BY <1>3, EmptySeq
<1> HIDE DEF n, t, m
<1>6. /\ \A i \in 1 .. m : i + 1 \in 1 .. n /\ t[i] = s[i + 1]
      /\ t = <<>> <=> n = 1
  BY <1>4, <1>5
<1>7. \A i \in 2 .. n : i - 1 \in 1 .. m /\ t[i - 1] = s[i]
  <2> SUFFICES ASSUME NEW i \in 2 .. n  PROVE i - 1 \in 1 .. m /\ t[i - 1] = s[i]
    OBVIOUS
  <2>1. i - 1 \in 1 .. m /\ (i - 1) + 1 = i
    BY <1>4
  <2> QED
    BY <1>4, <2>1
<1> QED
  BY <1>1, <1>2, <1>3, <1>6, <1>7 DEF n, t, m

-----------------------------------------------------------------------------
(* PaneCommands.  Its variables are v1 (world) and v2 (job).                 *)

PaneStates ==
  [dialog : Nat, options : Nat, cursor : Nat, marked : BOOLEAN, above : Seq(Nat), row : Nat, copy : BOOLEAN, draft : {"empty", "mine", "text"},
   alive : BOOLEAN, bracket : BOOLEAN, buffer : BOOLEAN, picked : Nat,
   sent : {"none", "empty", "mine", "text"}]
CommandStates ==
  [at : {"none", "state", "refuse", "load", "paste", "delete", "capture", "move", "key", "end"},
   what : {"none", "send", "reply", "accept", "reject", "interrupt", "kill", "failed", "Down", "Up"},
   child : BOOLEAN, option : Nat, lines : {"one", "many"},
   row : Nat, copy : BOOLEAN, bracket : BOOLEAN, current : Nat, moves : Nat, fails : Nat,
   changes : Nat, calm : BOOLEAN, lost : BOOLEAN]

SendTypes ==
  /\ v1 \in PaneStates /\ v1.cursor <= v1.options
  /\ v2 \in CommandStates

\* A dialog that is open has been counted.
DialogCounted == v1.cursor > 0 => v1.dialog > 0

\* Only `send` pastes, and past its refusals it has read a row without attention.
Sending == v2.at \in {"state", "refuse", "load", "paste"} => v2.what = "send"
SendWasFree == v2.what = "send" /\ v2.at \in {"load", "paste", "key"} => v2.row = 0

\* On its way, an untouched reply has its cursor `moves` keys from the option, if the
\* dialog has that option.
MovesLeft ==
  /\ v2.at = "move" => v2.what \in {"Down", "Up"}
  /\ v2.at \in {"move", "key"} /\ v2.what \in {"Down", "Up"} =>
       /\ v2.at = "move" => v2.moves > 0
       /\ v2.at = "key" => v2.moves = 0
       /\ v2.calm /\ ~ v1.copy /\ v2.option \in 1 .. v1.options =>
            /\ v1.cursor > 0
            /\ v2.what = "Down" => v1.cursor + v2.moves = v2.option
            /\ v2.what = "Up" => v1.cursor = v2.option + v2.moves

\* The buffer is there only while a paste is under way.
BufferHeld == v1.buffer => v2.at \in {"paste", "delete"} \/ v2.lost

SendInv == SendTypes /\ DialogCounted /\ Sending /\ SendWasFree /\ MovesLeft /\ BufferHeld

\* At first no command runs, no dialog is open and tmux holds no buffer.
LEMMA SendInit == Send!Init => SendInv
<1> SUFFICES ASSUME Send!Init  PROVE SendInv
  OBVIOUS
<1>1. /\ v1.cursor = 0 /\ ~ v1.buffer
      /\ v2.at = "none" /\ v2.what = "none"
  BY DEF Send!Init
<1>2. <<>> \in Seq(Nat)
  OBVIOUS
<1>3. SendTypes
  BY <1>2 DEF Send!Init, SendTypes, PaneStates, CommandStates
<1> QED
  BY <1>1, <1>3 DEF SendInv, DialogCounted, Sending, SendWasFree, MovesLeft, BufferHeld

\* A change of the pane that is no key leaves the buffer alone and ends the calm.
LEMMA SendChange ==
  ASSUME SendInv, NEW w \in PaneStates, Send!Change(w),
         w.cursor <= w.options, w.cursor > 0 => w.dialog > 0, w.buffer = v1.buffer
  PROVE  SendInv'
<1>1. v1' = w /\ v2' = [v2 EXCEPT !.changes = @ + 1, !.calm = FALSE]
  BY DEF Send!Change
<1>2. v2 \in CommandStates
  BY DEF SendInv, SendTypes
<1>3. v2.changes + 1 \in Nat
  BY <1>2 DEF CommandStates
<1>4. /\ v2'.at = v2.at /\ v2'.what = v2.what /\ v2'.row = v2.row
      /\ v2'.moves = v2.moves /\ v2'.calm = FALSE /\ v2'.lost = v2.lost
  BY <1>1, <1>2 DEF CommandStates
<1>5. v2' \in CommandStates
  BY <1>1, <1>2, <1>3 DEF CommandStates
<1> QED
  BY <1>1, <1>4, <1>5 DEF SendInv, SendTypes, DialogCounted, Sending, SendWasFree, MovesLeft, BufferHeld

\* What the agent, its user and the daemon do.
LEMMA SendWorldInv ==
  ASSUME SendInv,
         \/ Send!DialogOpens \/ Send!DialogCloses \/ Send!RowFollows
         \/ Send!UserMoves \/ Send!PaneScrolls
         \/ Send!UserTypes \/ Send!CopyMode \/ Send!ProgramChanges
  PROVE  SendInv'
<1>0. v1 \in PaneStates /\ v1.cursor <= v1.options /\ (v1.cursor > 0 => v1.dialog > 0)
  BY DEF SendInv, SendTypes, DialogCounted
<1>1. CASE Send!DialogOpens
  <2>1. PICK options \in 1 .. MaxOptions, marked \in BOOLEAN :
          Send!Change([v1 EXCEPT !.dialog = @ + 1, !.options = options, !.cursor = 1, !.marked = marked])
    BY <1>1 DEF Send!DialogOpens
  <2> DEFINE w == [v1 EXCEPT !.dialog = @ + 1, !.options = options, !.cursor = 1, !.marked = marked]
  <2>2. v1.dialog + 1 \in Nat /\ v1.dialog + 1 > 0 /\ options \in Nat /\ 1 <= options
    BY <1>0, PartsAssumption DEF PaneStates
  <2>3. w \in PaneStates /\ w.cursor = 1 /\ w.options = options /\ w.dialog > 0 /\ w.buffer = v1.buffer
    BY <1>0, <2>2 DEF PaneStates
  <2>4. Send!Change(w)
    BY <2>1
  <2> HIDE DEF w
  <2> QED
    BY <2>2, <2>3, <2>4, SendChange
<1>2. CASE Send!DialogCloses
  <2>1. PICK row \in {0, v1.row} : Send!Change([v1 EXCEPT !.cursor = 0, !.row = row])
    BY <1>2 DEF Send!DialogCloses
  <2> DEFINE w == [v1 EXCEPT !.cursor = 0, !.row = row]
  <2>2. row \in Nat
    BY <1>0, <2>1 DEF PaneStates
  <2>3. w \in PaneStates /\ w.cursor = 0 /\ w.options = v1.options /\ w.buffer = v1.buffer
    BY <1>0, <2>2 DEF PaneStates
  <2>4. 0 <= v1.options
    BY <1>0 DEF PaneStates
  <2> HIDE DEF w
  <2>5. Send!Change(w)
    BY <2>1 DEF w
  <2> QED
    BY <2>3, <2>4, <2>5, SendChange
<1>3. CASE Send!RowFollows
  <2>1. v1' = [v1 EXCEPT !.row = v1.dialog] /\ v2' = v2
    BY <1>3 DEF Send!RowFollows
  <2>2. /\ v1' \in PaneStates /\ v1'.cursor = v1.cursor /\ v1'.dialog = v1.dialog
        /\ v1'.options = v1.options /\ v1'.buffer = v1.buffer /\ v1'.copy = v1.copy
    BY <1>0, <2>1 DEF PaneStates
  <2> QED
    BY <2>1, <2>2 DEF SendInv, SendTypes, DialogCounted, Sending, SendWasFree, MovesLeft, BufferHeld
<1>4. CASE Send!UserTypes
  <2> DEFINE w == [v1 EXCEPT !.draft = "mine"]
  <2>1. /\ w \in PaneStates /\ w.cursor = v1.cursor /\ w.options = v1.options
        /\ w.dialog = v1.dialog /\ w.buffer = v1.buffer
    BY <1>0 DEF PaneStates
  <2>2. Send!Change(w)
    BY <1>4 DEF Send!UserTypes
  <2> QED
    BY <1>0, <2>1, <2>2, SendChange
<1>5. CASE Send!CopyMode
  <2> DEFINE w == [v1 EXCEPT !.copy = ~ @]
  <2>1. /\ w \in PaneStates /\ w.cursor = v1.cursor /\ w.options = v1.options
        /\ w.dialog = v1.dialog /\ w.buffer = v1.buffer
    BY <1>0 DEF PaneStates
  <2>2. Send!Change(w)
    BY <1>5 DEF Send!CopyMode
  <2> QED
    BY <1>0, <2>1, <2>2, SendChange
<1>6. CASE Send!ProgramChanges
  <2> DEFINE w == [v1 EXCEPT !.bracket = ~ @]
  <2>1. /\ w \in PaneStates /\ w.cursor = v1.cursor /\ w.options = v1.options
        /\ w.dialog = v1.dialog /\ w.buffer = v1.buffer
    BY <1>0 DEF PaneStates
  <2>2. Send!Change(w)
    BY <1>6 DEF Send!ProgramChanges
  <2> QED
    BY <1>0, <2>1, <2>2, SendChange
<1>7. CASE Send!UserMoves
  <2>1. PICK n \in 1 .. v1.options : Send!Change([v1 EXCEPT !.cursor = n])
    BY <1>7 DEF Send!UserMoves
  <2> DEFINE w == [v1 EXCEPT !.cursor = n]
  <2>2. n \in Nat /\ n <= v1.options /\ v1.dialog > 0
    BY <1>0, <1>7, <2>1 DEF PaneStates, Send!UserMoves
  <2>3. /\ w \in PaneStates /\ w.cursor = n /\ w.options = v1.options
        /\ w.dialog = v1.dialog /\ w.buffer = v1.buffer
    BY <1>0, <2>2 DEF PaneStates
  <2> HIDE DEF w
  <2>4. Send!Change(w)
    BY <2>1 DEF w
  <2> QED
    BY <2>2, <2>3, <2>4, SendChange
<1>8. CASE Send!PaneScrolls
  <2>1. PICK above \in {<<>>} \cup {<<n>> : n \in 0 .. MaxOptions + 1} :
          Send!Change([v1 EXCEPT !.above = above])
    BY <1>8 DEF Send!PaneScrolls
  <2> DEFINE w == [v1 EXCEPT !.above = above]
  <2>2. above \in Seq(Nat)
    <3>1. \A n \in 0 .. MaxOptions + 1 : n \in Nat
      BY PartsAssumption
    <3>2. <<>> \in Seq(Nat) /\ \A n \in Nat : <<n>> \in Seq(Nat)
      OBVIOUS
    <3> QED
      BY <2>1, <3>1, <3>2
  <2>3. /\ w \in PaneStates /\ w.cursor = v1.cursor /\ w.options = v1.options
        /\ w.dialog = v1.dialog /\ w.buffer = v1.buffer
    BY <1>0, <2>2 DEF PaneStates
  <2> HIDE DEF w
  <2>4. Send!Change(w)
    BY <2>1 DEF w
  <2> QED
    BY <1>0, <2>3, <2>4, SendChange
<1> QED
  BY <1>1, <1>2, <1>3, <1>4, <1>5, <1>6, <1>7, <1>8

\* A step of the command that leaves the dialog and the mode alone.
LEMMA SendStep ==
  ASSUME SendInv, v2' \in CommandStates, v1' \in PaneStates,
         v1'.cursor = v1.cursor, v1'.options = v1.options, v1'.dialog = v1.dialog,
         Sending', SendWasFree', MovesLeft', BufferHeld'
  PROVE  SendInv'
  BY DEF SendInv, SendTypes, DialogCounted

\* A command reads the rows, once, and goes its way.
LEMMA SendFetchInv ==
  ASSUME SendInv, Send!Fetch
  PROVE  SendInv'
<1>0. v1 \in PaneStates /\ v2 \in CommandStates /\ v1' = v1
  BY DEF SendInv, SendTypes, Send!Fetch
<1>1. PICK what \in {"send", "reply", "accept", "reject", "interrupt", "kill"},
           child \in BOOLEAN, option \in 0 .. MaxOptions + 1, lines \in {"one", "many"} :
        v2' = [v2 EXCEPT !.what = what, !.child = child, !.option = option, !.lines = lines,
                         !.row = v1.row, !.at = Send!FirstStep(what)]
  BY DEF Send!Fetch
<1> DEFINE at == Send!FirstStep(what)
<1>2. at \in {"state", "capture", "key"} /\ (what = "send" <=> at = "state")
  BY DEF Send!FirstStep
<1> HIDE DEF at
<1>3. v1.row \in Nat /\ option \in Nat
  BY <1>0, PartsAssumption DEF PaneStates
<1>4. v2' = [v2 EXCEPT !.what = what, !.child = child, !.option = option, !.lines = lines,
                       !.row = v1.row, !.at = at]
  BY <1>1 DEF at
<1>5. v2' \in CommandStates /\ v2'.what = what /\ v2'.at = at /\ v2'.option = option /\ v2'.lost = v2.lost
  BY <1>0, <1>2, <1>3, <1>4 DEF CommandStates
<1>6. v2.at = "none"
  BY DEF Send!Fetch
<1> QED
  BY <1>0, <1>2, <1>5, <1>6, SendStep DEF SendInv, Sending, SendWasFree, MovesLeft, BufferHeld

\* A call ends in the step it was made for, or the command ends with what it did.
LEMMA SendCall ==
  ASSUME SendInv, NEW w \in PaneStates, NEW j \in CommandStates, Send!Call(w, j),
         v2.at \notin {"paste", "delete"}, w.buffer = v1.buffer, w.options = v1.options, w.cursor <= v1.options,
         w.cursor > 0 => w.dialog > 0, j.lost = v2.lost,
         v1.alive /\ v1' = w /\ v2' = j => Sending' /\ SendWasFree' /\ MovesLeft'
  PROVE  SendInv'
<1>0. /\ v1 \in PaneStates /\ v1.cursor <= v1.options /\ (v1.cursor > 0 => v1.dialog > 0)
      /\ v2 \in CommandStates /\ (v1.buffer => v2.lost)
  BY DEF SendInv, SendTypes, DialogCounted, BufferHeld
<1>1. CASE v1.alive /\ v1' = w /\ v2' = j
  <2>1. BufferHeld'
    BY <1>0, <1>1 DEF BufferHeld
  <2> QED
    BY <1>1, <2>1 DEF SendInv, SendTypes, DialogCounted
<1>2. CASE v1' \in {v1, w} /\ v2'.at = "end" /\ v2'.lost = v2.lost /\ v2' \in CommandStates
  BY <1>0, <1>2 DEF SendInv, SendTypes, DialogCounted, Sending, SendWasFree, MovesLeft, BufferHeld
<1>3. v2.fails + 1 \in Nat
  BY <1>0 DEF CommandStates
<1>4. \/ v1.alive /\ v1' = w /\ v2' = j
      \/ v1' \in {v1, w} /\ v2' = [v2 EXCEPT !.at = "end"]
      \/ v1' \in {v1, w} /\ v2' = [v2 EXCEPT !.at = "end", !.fails = v2.fails + 1, !.what = "failed"]
  BY <1>0 DEF Send!Call, Send!Ends, CommandStates
<1>5. v2' = [v2 EXCEPT !.at = "end"] => v2'.at = "end" /\ v2'.lost = v2.lost /\ v2' \in CommandStates
  BY <1>0 DEF CommandStates
<1>6. v2' = [v2 EXCEPT !.at = "end", !.fails = v2.fails + 1, !.what = "failed"]
        => v2'.at = "end" /\ v2'.lost = v2.lost /\ v2' \in CommandStates
  BY <1>0, <1>3 DEF CommandStates
<1> QED
  BY <1>1, <1>2, <1>4, <1>5, <1>6

\* `send` reads the pane's mode and its paste flag, or tmux fails.
LEMMA SendPaneStateInv ==
  ASSUME SendInv, Send!PaneState
  PROVE  SendInv'
<1>0. v1 \in PaneStates /\ v2 \in CommandStates /\ v1.cursor <= v1.options /\ (v1.cursor > 0 => v1.dialog > 0)
  BY DEF SendInv, SendTypes, DialogCounted
<1>1. PICK known \in BOOLEAN :
        Send!Call(v1, [v2 EXCEPT !.at = "refuse", !.copy = v1.copy, !.bracket = v1.bracket \/ ~ known])
  BY DEF Send!PaneState
<1> DEFINE bracket == v1.bracket \/ ~ known
           j == [v2 EXCEPT !.at = "refuse", !.copy = v1.copy, !.bracket = bracket]
<1>2. bracket \in BOOLEAN /\ v1.copy \in BOOLEAN
  BY <1>0 DEF PaneStates
<1>3. Send!Call(v1, j)
  BY <1>1
<1> HIDE DEF bracket
<1>4. j \in CommandStates /\ j.at = "refuse" /\ j.what = v2.what /\ j.lost = v2.lost
  BY <1>0, <1>2 DEF CommandStates
<1>5. v2.at = "state" /\ v2.what = "send"
  BY DEF Send!PaneState, SendInv, Sending
<1> HIDE DEF j
<1> QED
  BY <1>0, <1>3, <1>4, <1>5, SendCall DEF Sending, SendWasFree, MovesLeft

\* `send` refuses, or goes on to the paste.
LEMMA SendRefuseInv ==
  ASSUME SendInv, Send!Refuse
  PROVE  SendInv'
<1>0. v1 \in PaneStates /\ v2 \in CommandStates /\ v2.at = "refuse" /\ v1' = v1
  BY DEF SendInv, SendTypes, Send!Refuse
<1>1. \/ v2' = [v2 EXCEPT !.at = "end"]
      \/ ~ Send!Refused /\ v2' = [v2 EXCEPT !.at = "load"]
  BY <1>0 DEF Send!Refuse, Send!Ends
<1>2. ~ Send!Refused => v2.row = 0
  BY <1>0 DEF Send!Refused, CommandStates
<1>3. /\ v2' \in CommandStates /\ v2'.what = v2.what /\ v2'.row = v2.row /\ v2'.lost = v2.lost
      /\ v2'.at \in {"end", "load"}
  BY <1>0, <1>1 DEF CommandStates
<1>4. v2'.at = "load" => v2.row = 0
  BY <1>0, <1>1, <1>2 DEF CommandStates
<1> QED
  BY <1>0, <1>3, <1>4, SendStep DEF SendInv, Sending, SendWasFree, MovesLeft, BufferHeld

\* The buffer's three calls.
LEMMA SendBufferInv ==
  ASSUME SendInv, Send!LoadBuffer \/ Send!PasteBuffer \/ Send!DeleteBuffer
  PROVE  SendInv'
<1>0. v1 \in PaneStates /\ v2 \in CommandStates /\ v2.fails + 1 \in Nat
  BY DEF SendInv, SendTypes, CommandStates
<1> DEFINE held == [v1 EXCEPT !.buffer = TRUE]
           gone == [v1 EXCEPT !.buffer = FALSE]
           draft == IF v1.cursor = 0 /\ ~ v1.copy THEN "text" ELSE v1.draft
           pasted == [v1 EXCEPT !.buffer = FALSE, !.draft = draft]
<1>1. \A w \in {held, gone, pasted} :
        /\ w \in PaneStates /\ w.cursor = v1.cursor /\ w.options = v1.options /\ w.dialog = v1.dialog /\ w.copy = v1.copy
        /\ w # held => w.buffer = FALSE
  <2>1. draft \in {"empty", "mine", "text"}
    BY <1>0 DEF PaneStates
  <2> HIDE DEF draft
  <2> QED
    BY <1>0, <2>1 DEF PaneStates
<1>2. Send!Pasted = pasted
  BY <1>0 DEF Send!Pasted, PaneStates
<1> DEFINE to(at) == [v2 EXCEPT !.at = at]
           fail(at) == [v2 EXCEPT !.at = at, !.fails = v2.fails + 1, !.what = "failed"]
<1>3. \A at \in {"paste", "key", "end"} :
        /\ to(at) \in CommandStates /\ to(at).at = at /\ to(at).what = v2.what
        /\ to(at).row = v2.row /\ to(at).lost = v2.lost
  BY <1>0 DEF CommandStates
<1>4. fail("delete") \in CommandStates /\ fail("delete").at = "delete" /\ fail("delete").what = "failed"
  BY <1>0 DEF CommandStates
<1> HIDE DEF held, gone, pasted
<1>5. CASE Send!LoadBuffer
  <2>1. /\ v2.at = "load" /\ v1' \in {v1, held}
        /\ v2' = to("paste") \/ v2' = fail("delete")
    BY <1>0, <1>5 DEF Send!LoadBuffer, held
  <2> HIDE DEF to, fail
  <2> QED
    BY <1>0, <1>1, <1>3, <1>4, <2>1, SendStep DEF SendInv, Sending, SendWasFree, MovesLeft, BufferHeld
<1>6. CASE Send!PasteBuffer
  <2>1. /\ v2.at = "paste"
        /\ \/ v1' = pasted /\ v2' = to("key")
           \/ v1' \in {v1, pasted} /\ v2' = fail("delete")
           \/ v1' = v1 /\ v2' = [v2 EXCEPT !.at = "delete", !.what = "failed"]
    BY <1>0, <1>2, <1>6 DEF Send!PasteBuffer
  <2>2. CASE v1' = v1 /\ v2' = [v2 EXCEPT !.at = "delete", !.what = "failed"]
    <3>1. v2' \in CommandStates /\ v2'.at = "delete" /\ v2'.what = "failed"
      BY <1>0, <2>2 DEF CommandStates
    <3> QED
      BY <1>0, <2>2, <3>1, SendStep DEF SendInv, Sending, SendWasFree, MovesLeft, BufferHeld
  <2>3. pasted.buffer = FALSE
    BY <1>0 DEF pasted, PaneStates
  <2>4. v2.what = "send"
    BY <2>1 DEF SendInv, Sending
  <2> HIDE DEF to, fail
  <2> QED
    BY <1>0, <1>1, <1>3, <1>4, <2>1, <2>2, <2>3, <2>4, SendStep DEF SendInv, Sending, SendWasFree, MovesLeft, BufferHeld
<1>7. CASE Send!DeleteBuffer
  <2>1. \/ v1' = gone /\ v2' = to("end")
        \/ v1' = v1 /\ v2' = [v2 EXCEPT !.at = "end", !.fails = v2.fails + 1, !.lost = TRUE]
    BY <1>0, <1>7 DEF Send!DeleteBuffer, Send!Ends, CommandStates, gone
  <2>2. CASE v1' = v1 /\ v2' = [v2 EXCEPT !.at = "end", !.fails = v2.fails + 1, !.lost = TRUE]
    <3>1. v2' \in CommandStates /\ v2'.at = "end" /\ v2'.lost = TRUE
      BY <1>0, <2>2 DEF CommandStates
    <3> QED
      BY <1>0, <2>2, <3>1, SendStep DEF Sending, SendWasFree, MovesLeft, BufferHeld
  <2>3. gone.buffer = FALSE
    BY <1>0 DEF gone, PaneStates
  <2> HIDE DEF to, fail
  <2> QED
    BY <1>0, <1>1, <1>3, <2>1, <2>2, <2>3, SendStep DEF Sending, SendWasFree, MovesLeft, BufferHeld
<1> QED
  BY <1>5, <1>6, <1>7

\* What a key does; only Enter picks an option.
LEMMA SendKey ==
  ASSUME v1 \in PaneStates, v1.cursor <= v1.options,
         NEW key \in {"Enter", "Escape", "C-c", "Down", "Up"}
  PROVE  /\ Send!Key(v1, key) \in PaneStates
         /\ Send!Key(v1, key).buffer = v1.buffer
         /\ Send!Key(v1, key).dialog = v1.dialog
         /\ Send!Key(v1, key).copy = v1.copy
         /\ Send!Key(v1, key).options = v1.options
         /\ Send!Key(v1, key).cursor <= v1.options
         /\ Send!Key(v1, key).cursor > 0 => v1.cursor > 0
         /\ v1.copy => Send!Key(v1, key) = v1
         /\ v1.alive /\ ~ v1.copy /\ v1.cursor > 0 =>
              /\ key = "Down" => Send!Key(v1, key).cursor = Send!Down(v1)
              /\ key = "Up" => Send!Key(v1, key).cursor = Send!Up(v1)
         /\ Send!Key(v1, key).picked # v1.picked => key = "Enter" /\ v1.cursor > 0 /\ ~ v1.copy
<1> DEFINE down == Send!Down(v1)
           up == Send!Up(v1)
<1>1. v1.cursor \in Nat /\ v1.options \in Nat /\ v1.draft \in {"empty", "mine", "text"}
  BY DEF PaneStates
<1>2. /\ down \in Nat /\ down <= v1.options /\ up \in Nat /\ up <= v1.options
  BY <1>1 DEF Send!Down, Send!Up
<1> HIDE DEF down, up
<1>3. \/ Send!Key(v1, key) = v1 /\ (~ v1.copy /\ v1.alive /\ v1.cursor > 0 => key \notin {"Down", "Up"})
      \/ /\ Send!Key(v1, key) = [v1 EXCEPT !.picked = v1.cursor, !.cursor = 0]
         /\ key = "Enter" /\ v1.cursor > 0 /\ ~ v1.copy
      \/ /\ Send!Key(v1, key) = [v1 EXCEPT !.sent = v1.draft, !.draft = "empty"]
         /\ key = "Enter" /\ ~ v1.copy
      \/ Send!Key(v1, key) = [v1 EXCEPT !.cursor = 0] /\ key = "Escape" /\ ~ v1.copy
      \/ Send!Key(v1, key) = [v1 EXCEPT !.cursor = 0, !.draft = "empty"] /\ key = "C-c" /\ ~ v1.copy
      \/ Send!Key(v1, key) = [v1 EXCEPT !.cursor = down] /\ key = "Down" /\ ~ v1.copy /\ v1.cursor > 0
      \/ Send!Key(v1, key) = [v1 EXCEPT !.cursor = up] /\ key = "Up" /\ ~ v1.copy /\ v1.cursor > 0
  <2>1. CASE key = "Enter"
    BY <2>1, <1>1 DEF Send!Key, PaneStates
  <2>2. CASE key = "Escape"
    BY <2>2, <1>1 DEF Send!Key
  <2>3. CASE key = "C-c"
    BY <2>3, <1>1 DEF Send!Key
  <2>4. CASE key = "Down"
    BY <2>4, <1>1 DEF Send!Key, down, PaneStates
  <2>5. CASE key = "Up"
    BY <2>5, <1>1 DEF Send!Key, up, PaneStates
  <2> QED
    BY <2>1, <2>2, <2>3, <2>4, <2>5
<1>4. 0 <= v1.options
  BY <1>1
<1> DEFINE k == Send!Key(v1, key)
<1>5. k \in PaneStates
  <2>1. /\ [v1 EXCEPT !.picked = v1.cursor, !.cursor = 0] \in PaneStates
        /\ [v1 EXCEPT !.sent = v1.draft, !.draft = "empty"] \in PaneStates
        /\ [v1 EXCEPT !.cursor = 0] \in PaneStates
        /\ [v1 EXCEPT !.cursor = 0, !.draft = "empty"] \in PaneStates
    BY <1>1 DEF PaneStates
  <2>2. [v1 EXCEPT !.cursor = down] \in PaneStates /\ [v1 EXCEPT !.cursor = up] \in PaneStates
    BY <1>2 DEF PaneStates
  <2> QED
    BY <1>3, <2>1, <2>2
<1>6. k.buffer = v1.buffer /\ k.options = v1.options /\ k.dialog = v1.dialog /\ k.copy = v1.copy
  BY <1>3 DEF PaneStates
<1>7. \/ k.cursor = v1.cursor /\ k.picked = v1.picked
         /\ (~ v1.copy /\ v1.alive /\ v1.cursor > 0 => key \notin {"Down", "Up"})
      \/ k.cursor = 0 /\ key = "Enter" /\ v1.cursor > 0 /\ ~ v1.copy
      \/ k.cursor = 0 /\ k.picked = v1.picked /\ key \in {"Escape", "C-c"} /\ ~ v1.copy
      \/ k.cursor = down /\ k.picked = v1.picked /\ key = "Down" /\ ~ v1.copy /\ v1.cursor > 0
      \/ k.cursor = up /\ k.picked = v1.picked /\ key = "Up" /\ ~ v1.copy /\ v1.cursor > 0
  BY <1>3 DEF PaneStates
<1>8. v1.copy => k = v1
  BY DEF Send!Key
<1> HIDE DEF k
<1>9. /\ k.cursor <= v1.options /\ (k.cursor > 0 => v1.cursor > 0)
      /\ k.picked # v1.picked => key = "Enter" /\ v1.cursor > 0 /\ ~ v1.copy
      /\ v1.alive /\ ~ v1.copy /\ v1.cursor > 0 =>
           /\ key = "Down" => k.cursor = down
           /\ key = "Up" => k.cursor = up
  BY <1>1, <1>2, <1>4, <1>7
<1> QED
  BY <1>5, <1>6, <1>8, <1>9 DEF k, down, up

\* `reply` captures the pane: the option it shows, and how many arrow keys away the other is.
LEMMA SendCaptureInv ==
  ASSUME SendInv, Send!Capture
  PROVE  SendInv'
<1>0. /\ v1 \in PaneStates /\ v2 \in CommandStates /\ v1.cursor <= v1.options /\ (v1.cursor > 0 => v1.dialog > 0)
      /\ v2.at = "capture"
  BY DEF SendInv, SendTypes, DialogCounted, Send!Capture
<1> DEFINE current == Send!FindSelectedOption
           at == IF v2.option = current THEN "key" ELSE "move"
           calm == v1.cursor > 0 /\ v1.marked /\ v1.above = <<>>
           moves == IF v2.option > current THEN v2.option - current ELSE current - v2.option
           what == IF v2.option > current THEN "Down" ELSE "Up"
           j == [v2 EXCEPT !.at = at, !.current = v1.dialog, !.calm = calm, !.moves = moves, !.what = what]
<1>1. Send!Call(v1, j)
  BY DEF Send!Capture
<1>2. /\ v1.cursor \in Nat /\ v1.dialog \in Nat /\ v2.option \in Nat
      /\ v1.marked \in BOOLEAN /\ v1.above \in Seq(Nat)
  BY <1>0 DEF PaneStates, CommandStates
<1>3. current \in Nat /\ (calm => current = v1.cursor)
  BY <1>2 DEF Send!FindSelectedOption
<1>4. calm \in BOOLEAN /\ at \in {"key", "move"} /\ what \in {"Down", "Up"} /\ moves \in Nat
  BY <1>2, <1>3
<1>5. /\ at = "move" => moves > 0
      /\ at = "key" => moves = 0
      /\ calm =>
           /\ v1.cursor > 0
           /\ what = "Down" => v1.cursor + moves = v2.option
           /\ what = "Up" => v1.cursor = v2.option + moves
  BY <1>2, <1>3
<1> HIDE DEF current, at, calm, moves, what
<1>6. /\ j \in CommandStates /\ j.at = at /\ j.calm = calm /\ j.moves = moves /\ j.what = what
      /\ j.option = v2.option /\ j.lost = v2.lost
  BY <1>0, <1>2, <1>4 DEF CommandStates, SendInv, MovesLeft
<1> HIDE DEF j
<1>7. v1' = v1 /\ v2' = j => Sending' /\ SendWasFree' /\ MovesLeft'
  BY <1>4, <1>5, <1>6 DEF Sending, SendWasFree, MovesLeft
<1> QED
  BY <1>0, <1>1, <1>6, <1>7, SendCall

\* `reply` presses an arrow key: one move fewer is left, and the marked option is one nearer.
LEMMA SendMoveInv ==
  ASSUME SendInv, Send!Move
  PROVE  SendInv'
<1>0. /\ v1 \in PaneStates /\ v2 \in CommandStates /\ v1.cursor <= v1.options /\ (v1.cursor > 0 => v1.dialog > 0)
      /\ v2.at = "move" /\ v2.what \in {"Down", "Up"} /\ v2.moves > 0
  BY DEF SendInv, SendTypes, DialogCounted, MovesLeft, Send!Move
<1> DEFINE at == IF v2.moves = 1 THEN "key" ELSE "move"
           moves == v2.moves - 1
           w == Send!Key(v1, v2.what)
           j == [v2 EXCEPT !.moves = moves, !.at = at]
<1>1. Send!Call(w, j)
  BY DEF Send!Move
<1>2. /\ v1.cursor \in Nat /\ v2.moves \in Nat /\ v2.option \in Nat /\ v1.options \in Nat
      /\ moves \in Nat
  BY <1>0 DEF PaneStates, CommandStates
<1>3. at \in {"key", "move"} /\ (at = "key" <=> moves = 0)
  BY <1>2
<1>4. /\ j \in CommandStates /\ j.at = at /\ j.moves = moves /\ j.what = v2.what /\ j.calm = v2.calm
      /\ j.option = v2.option /\ j.lost = v2.lost
  <2> HIDE DEF at, moves
  <2> QED
    BY <1>0, <1>2, <1>3 DEF CommandStates
<1>5. /\ w \in PaneStates /\ w.buffer = v1.buffer /\ w.dialog = v1.dialog /\ w.copy = v1.copy
      /\ w.options = v1.options /\ w.cursor <= v1.options /\ (w.cursor > 0 => v1.cursor > 0)
      /\ v1.alive /\ ~ v1.copy /\ v1.cursor > 0 =>
           /\ v2.what = "Down" => w.cursor = Send!Down(v1)
           /\ v2.what = "Up" => w.cursor = Send!Up(v1)
  BY <1>0, SendKey
<1> HIDE DEF w, j
<1>6. v1.alive /\ v2.calm /\ ~ v1.copy /\ v2.option \in 1 .. v1.options =>
        /\ w.cursor > 0
        /\ v2.what = "Down" => w.cursor + moves = v2.option
        /\ v2.what = "Up" => w.cursor = v2.option + moves
  <2> SUFFICES ASSUME v1.alive, v2.calm, ~ v1.copy, v2.option \in 1 .. v1.options
               PROVE  /\ w.cursor > 0
                      /\ v2.what = "Down" => w.cursor + moves = v2.option
                      /\ v2.what = "Up" => w.cursor = v2.option + moves
    OBVIOUS
  <2>1. /\ v1.cursor > 0
        /\ v2.what = "Down" => v1.cursor + v2.moves = v2.option
        /\ v2.what = "Up" => v1.cursor = v2.option + v2.moves
    BY <1>0 DEF SendInv, MovesLeft
  <2>2. CASE v2.what = "Down"
    <3>1. Send!Down(v1) = v1.cursor + 1
      BY <1>0, <1>2, <2>1, <2>2 DEF Send!Down
    <3> QED
      BY <1>2, <1>5, <2>1, <2>2, <3>1
  <2>3. CASE v2.what = "Up"
    <3>1. Send!Up(v1) = v1.cursor - 1
      BY <1>0, <1>2, <2>1, <2>3 DEF Send!Up
    <3> QED
      BY <1>0, <1>2, <1>5, <2>1, <2>3, <3>1
  <2> QED
    BY <1>0, <2>2, <2>3
<1>7. v1.alive /\ v1' = w /\ v2' = j => Sending' /\ SendWasFree' /\ MovesLeft'
  <2>1. at = "move" => moves > 0
    BY <1>2, <1>3
  <2> HIDE DEF at, moves
  <2> QED
    BY <1>0, <1>3, <1>4, <1>5, <1>6, <2>1 DEF Sending, SendWasFree, MovesLeft
<1> QED
  BY <1>0, <1>1, <1>4, <1>5, <1>7, SendCall

\* The command's last key, after which it ends.
LEMMA SendLastKeyInv ==
  ASSUME SendInv, Send!LastKey
  PROVE  SendInv'
<1>0. /\ v1 \in PaneStates /\ v2 \in CommandStates /\ v1.cursor <= v1.options /\ (v1.cursor > 0 => v1.dialog > 0)
      /\ v2.at = "key"
  BY DEF SendInv, SendTypes, DialogCounted, Send!LastKey
<1> DEFINE killed == [v1 EXCEPT !.alive = FALSE]
           j == [v2 EXCEPT !.at = "end"]
<1>1. j \in CommandStates /\ j.at = "end" /\ j.lost = v2.lost
  BY <1>0 DEF CommandStates
<1>2. PICK w \in {Send!Key(v1, "C-c"), killed, Send!Key(v1, "Escape"), Send!Key(v1, "Enter")} : Send!Call(w, j)
  <2>1. CASE v2.what = "interrupt"
    BY <2>1 DEF Send!LastKey, Send!Ends
  <2>2. CASE v2.what = "kill"
    BY <2>2 DEF Send!LastKey, Send!Ends
  <2>3. CASE v2.what \notin {"interrupt", "kill"}
    BY <2>3 DEF Send!LastKey, Send!Ends, Send!Pressed
  <2> QED
    BY <2>1, <2>2, <2>3
<1>3. /\ killed \in PaneStates /\ killed.buffer = v1.buffer /\ killed.cursor = v1.cursor
      /\ killed.options = v1.options /\ killed.dialog = v1.dialog
  BY <1>0 DEF PaneStates
<1> HIDE DEF killed, j
<1>4. /\ w \in PaneStates /\ w.buffer = v1.buffer /\ w.dialog = v1.dialog
      /\ w.options = v1.options /\ w.cursor <= v1.options /\ (w.cursor > 0 => v1.cursor > 0)
  BY <1>0, <1>2, <1>3, SendKey
<1>5. v1' = w /\ v2' = j => Sending' /\ SendWasFree' /\ MovesLeft'
  BY <1>1 DEF Sending, SendWasFree, MovesLeft
<1> QED
  BY <1>0, <1>1, <1>2, <1>4, <1>5, SendCall

\* Whatever the command, the agent or its user does, the invariant stays.
LEMMA SendKeepsInv ==
  ASSUME SendInv, [Send!Next]_<<v1, v2>>
  PROVE  SendInv'
<1>1. CASE Send!Next
  BY <1>1, SendWorldInv, SendFetchInv, SendPaneStateInv, SendRefuseInv, SendBufferInv, SendCaptureInv,
     SendMoveInv, SendLastKeyInv DEF Send!Next
<1>2. CASE UNCHANGED <<v1, v2>>
  BY <1>2 DEF SendInv, SendTypes, DialogCounted, Sending, SendWasFree, MovesLeft, BufferHeld
<1> QED
  BY <1>1, <1>2

\* Only the last key picks an option, and only with a dialog open in a pane that is not
\* in copy mode.
LEMMA SendPicks ==
  ASSUME SendInv, Send!Next, v1'.picked # v1.picked
  PROVE  v2.at = "key" /\ v1.cursor > 0 /\ ~ v1.copy
<1>0. v1 \in PaneStates /\ v2 \in CommandStates /\ v1.cursor <= v1.options
  BY DEF SendInv, SendTypes
<1>1. CASE Send!DialogOpens \/ Send!DialogCloses \/ Send!RowFollows
  BY <1>0, <1>1 DEF Send!DialogOpens, Send!DialogCloses, Send!RowFollows, Send!Change, PaneStates
<1>2. CASE Send!UserTypes \/ Send!CopyMode \/ Send!ProgramChanges
  BY <1>0, <1>2 DEF Send!UserTypes, Send!CopyMode, Send!ProgramChanges, Send!Change, PaneStates
<1>3. CASE Send!Fetch \/ Send!PaneState \/ Send!Refuse \/ Send!Capture
  BY <1>0, <1>3 DEF Send!Fetch, Send!PaneState, Send!Refuse, Send!Capture, Send!Call, PaneStates
<1>4. CASE Send!LoadBuffer \/ Send!PasteBuffer \/ Send!DeleteBuffer
  BY <1>0, <1>4 DEF Send!LoadBuffer, Send!PasteBuffer, Send!DeleteBuffer, Send!Pasted, PaneStates
<1>5. CASE Send!Move
  <2>1. v2.what \in {"Down", "Up"}
    BY <1>5 DEF SendInv, MovesLeft, Send!Move
  <2>2. v1' \in {v1, Send!Key(v1, v2.what)}
    BY <1>5 DEF Send!Move, Send!Call
  <2> QED
    BY <1>0, <2>1, <2>2, SendKey
<1>6. CASE Send!LastKey
  <2> DEFINE killed == [v1 EXCEPT !.alive = FALSE]
  <2>1. v1' \in {v1, Send!Key(v1, "C-c"), killed, Send!Key(v1, "Escape"), Send!Key(v1, "Enter")}
    <3>1. CASE v2.what = "interrupt"
      BY <1>6, <3>1 DEF Send!LastKey, Send!Call
    <3>2. CASE v2.what = "kill"
      BY <1>6, <3>2 DEF Send!LastKey, Send!Call
    <3>3. CASE v2.what \notin {"interrupt", "kill"}
      BY <1>6, <3>3 DEF Send!LastKey, Send!Call, Send!Pressed
    <3> QED
      BY <3>1, <3>2, <3>3
  <2>2. killed.picked = v1.picked
    BY <1>0 DEF PaneStates
  <2>3. v2.at = "key"
    BY <1>6 DEF Send!LastKey
  <2> HIDE DEF killed
  <2> QED
    BY <1>0, <2>1, <2>2, <2>3, SendKey
<1>7. CASE Send!UserMoves \/ Send!PaneScrolls
  BY <1>0, <1>7 DEF Send!UserMoves, Send!PaneScrolls, Send!Change, PaneStates
<1> QED
  BY <1>1, <1>2, <1>3, <1>4, <1>5, <1>6, <1>7 DEF Send!Next

\* `send` answers no dialog its list showed, and an untouched `reply` picks its option.
LEMMA SendKeepsWord ==
  ASSUME SendInv, [Send!Next]_<<v1, v2>>
  PROVE  Send!AnswersNoShownDialog /\ Send!PicksOption
<1>1. CASE v1'.picked = v1.picked
  BY <1>1 DEF Send!AnswersNoShownDialog, Send!PicksOption
<1>2. CASE v1'.picked # v1.picked
  <2>1. v2.at = "key" /\ v1.cursor > 0 /\ ~ v1.copy
    BY <1>2, SendPicks
  <2>2. v1.cursor \in Nat /\ v1.dialog \in Nat /\ v1.dialog > 0 /\ v2.option \in Nat
    BY <2>1 DEF SendInv, SendTypes, DialogCounted, PaneStates, CommandStates
  <2>3. Send!AnswersNoShownDialog
    BY <2>1, <2>2 DEF SendInv, SendWasFree, Send!AnswersNoShownDialog
  <2>4. Send!PicksOption
    BY <2>1, <2>2 DEF SendInv, MovesLeft, Send!PicksOption
  <2> QED
    BY <2>3, <2>4
<1> QED
  BY <1>1, <1>2

\* The paste buffer is gone with its command.
LEMMA SendBufferGone ==
  ASSUME SendInv
  PROVE  Send!BufferGone
  BY DEF SendInv, BufferHeld, Send!BufferGone

-----------------------------------------------------------------------------
(* Workspace.  Its variables are v1 (world) and v2 (job).                    *)

Panes == [bar : BOOLEAN, tag : BOOLEAN, runs : BOOLEAN, open : BOOLEAN]
StepNames ==
  {"has", "has-none", "new-session", "list-windows", "list-panes", "split", "title", "tag", "keys",
   "split-shell", "type-agent", "write-scripts", "set-resize-hooks", "bind-keys", "set-window-hook"}
TerminalSteps == [do : StepNames, win : Nat]
InWindow == {"list-panes", "split", "title", "tag", "keys"}

\* What a step of a command comes after: the four of inject_sidebar come in a row, in
\* one window, and a session is made right after it was found missing.
Follows(a, b) ==
  /\ a.do = "split" <=> b.do = "title"
  /\ a.do = "title" <=> b.do = "tag"
  /\ a.do = "tag" <=> b.do = "keys"
  /\ b.do \in {"title", "tag", "keys"} => b.win = a.win
  /\ a.do = "has-none" => b.do = "new-session"
  /\ b.do = "split" => a.do = "new-session"
Chained(todo) ==
  /\ todo \in Seq(TerminalSteps)
  /\ \A i \in 1 .. Len(todo) - 1 : Follows(todo[i], todo[i + 1])
WellOrdered(todo) ==
  /\ Chained(todo)
  /\ todo # <<>> => todo[Len(todo)].do \notin {"has-none", "split", "title", "tag"}

\* A list goes on as it was ordered.
LEMMA OrderedTail ==
  ASSUME NEW todo, WellOrdered(todo), todo # <<>>
  PROVE  /\ WellOrdered(Tail(todo)) /\ Head(todo) \in TerminalSteps
         /\ Tail(todo) # <<>> => Head(Tail(todo)) \in TerminalSteps /\ Follows(Head(todo), Head(Tail(todo)))
         /\ Head(todo).do \in {"has-none", "split", "title", "tag"} => Tail(todo) # <<>>
<1> DEFINE rest == Tail(todo)
           n == Len(todo)
           m == Len(rest)
<1>1. /\ todo \in Seq(TerminalSteps)
      /\ \A i \in 1 .. n - 1 : Follows(todo[i], todo[i + 1])
      /\ todo[n].do \notin {"has-none", "split", "title", "tag"}
  BY Zenon DEF WellOrdered, Chained
<1>2. /\ n \in Nat /\ n > 0 /\ Head(todo) = todo[1] /\ todo[1] \in TerminalSteps
      /\ rest \in Seq(TerminalSteps) /\ m = n - 1
      /\ \A i \in 1 .. m : i + 1 \in 1 .. n /\ rest[i] = todo[i + 1]
      /\ rest = <<>> <=> n = 1
  BY <1>1, HeadTail
<1>3. rest # <<>> => Head(rest) = rest[1] /\ rest[1] \in TerminalSteps
  BY <1>2, HeadTail
<1> HIDE DEF rest, n, m
<1>4. rest # <<>> => 1 \in 1 .. m /\ 1 \in 1 .. n - 1 /\ 1 + 1 = 2 /\ rest[1] = todo[2]
  BY <1>2
<1>5. rest # <<>> => Follows(todo[1], rest[1])
  BY <1>1, <1>4
<1>6. \A i \in 1 .. m - 1 : Follows(rest[i], rest[i + 1])
  <2> SUFFICES ASSUME NEW i \in 1 .. m - 1
               PROVE  Follows(rest[i], rest[i + 1])
    OBVIOUS
  <2>1. i \in 1 .. m /\ i + 1 \in 1 .. m /\ i + 1 \in 1 .. n - 1
    BY <1>2
  <2> QED
    BY <1>1, <1>2, <2>1
<1>7. rest # <<>> => rest[m] = todo[n]
  BY <1>2
<1> QED
  BY <1>1, <1>2, <1>3, <1>5, <1>6, <1>7 DEF WellOrdered, Chained, rest, n, m

\* Two lists one after the other.
LEMMA OrderedConcat ==
  ASSUME NEW s, Chained(s), s # <<>>, NEW t, Chained(t), t # <<>> => Follows(s[Len(s)], t[1]),
         NEW c, c = s \o t
  PROVE  /\ Chained(c) /\ c # <<>> /\ Head(c) = s[1]
         /\ Len(s) \in Nat /\ Len(t) \in Nat /\ Len(c) = Len(s) + Len(t)
         /\ \A i \in 1 .. Len(s) : c[i] = s[i]
         /\ \A i \in 1 .. Len(t) : c[Len(s) + i] = t[i]
         /\ t # <<>> => c[Len(c)] = t[Len(t)]
         /\ t = <<>> => c[Len(c)] = s[Len(s)]
<1> DEFINE m == Len(s)
           n == Len(t)
           k == Len(c)
<1>1. /\ s \in Seq(TerminalSteps) /\ t \in Seq(TerminalSteps)
      /\ \A i \in 1 .. m - 1 : Follows(s[i], s[i + 1])
      /\ \A i \in 1 .. n - 1 : Follows(t[i], t[i + 1])
      /\ t # <<>> => Follows(s[m], t[1])
  BY Zenon DEF Chained
<1>2. m \in Nat /\ n \in Nat /\ m > 0 /\ (t = <<>> <=> n = 0)
  BY <1>1, EmptySeq, LenProperties
<1>3. /\ c \in Seq(TerminalSteps) /\ k = m + n
      /\ \A i \in 1 .. m : c[i] = s[i]
      /\ \A i \in 1 .. n : c[m + i] = t[i]
  BY <1>1, Concat
<1>4. c # <<>> /\ Head(c) = c[1]
  <2>1. k > 0
    BY <1>2, <1>3
  <2> QED
    BY <1>3, <2>1, EmptySeq, HeadTail
<1> HIDE DEF m, n, k
<1>5. \A i \in 1 .. k - 1 : Follows(c[i], c[i + 1])
  <2> SUFFICES ASSUME NEW i \in 1 .. k - 1  PROVE Follows(c[i], c[i + 1])
    OBVIOUS
  <2>1. CASE i < m
    <3>1. i \in 1 .. m - 1 /\ i \in 1 .. m /\ i + 1 \in 1 .. m
      BY <1>2, <1>3, <2>1
    <3> QED
      BY <1>1, <1>3, <3>1
  <2>2. CASE i = m
    <3>1. m \in 1 .. m /\ 1 \in 1 .. n /\ t # <<>>
      BY <1>2, <1>3, <2>2
    <3> QED
      BY <1>1, <1>3, <2>2, <3>1
  <2>3. CASE i > m
    <3>1. PICK j \in 1 .. n - 1 : i = m + j
      <4>1. i - m \in 1 .. n - 1 /\ i = m + (i - m)
        BY <1>2, <1>3, <2>3
      <4> QED
        BY <4>1
    <3>2. j \in 1 .. n /\ j + 1 \in 1 .. n /\ i + 1 = m + (j + 1)
      BY <1>2, <3>1
    <3>3. c[m + j] = t[j] /\ c[m + (j + 1)] = t[j + 1]
      BY <1>3, <3>2
    <3> QED
      BY <1>1, <3>1, <3>2, <3>3
  <2>4. i < m \/ i = m \/ i > m
    BY <1>2, <1>3
  <2> QED
    BY <2>1, <2>2, <2>3, <2>4
<1>6. t # <<>> => c[k] = t[n]
  <2>1. t # <<>> => n \in 1 .. n
    BY <1>2
  <2> QED
    BY <1>3, <2>1
<1>7. t = <<>> => c[k] = s[m]
  <2>1. m \in 1 .. m /\ (t = <<>> => k = m)
    BY <1>2, <1>3
  <2> QED
    BY <1>3, <2>1
<1>8. c[1] = s[1]
  BY <1>2, <1>3
<1> QED
  BY <1>2, <1>3, <1>4, <1>5, <1>6, <1>7, <1>8 DEF Chained, m, n, k

\* inject_sidebar splits the window, and its four steps stay in that window.
LEMMA InjectOrdered ==
  ASSUME NEW w \in Nat, NEW s, s = Windows!Inject(w)
  PROVE  /\ Chained(s) /\ s # <<>> /\ Len(s) = 4 /\ s[1] = Windows!Step("split", w) /\ s[4].do = "keys"
         /\ \A i \in 1 .. 4 : s[i].win = w
<1>1. /\ s \in Seq(TerminalSteps) /\ Len(s) = 4 /\ s # <<>>
      /\ s[1] = [do |-> "split", win |-> w] /\ s[2] = [do |-> "title", win |-> w]
      /\ s[3] = [do |-> "tag", win |-> w] /\ s[4] = [do |-> "keys", win |-> w]
  BY DEF Windows!Inject, Windows!Step, TerminalSteps, StepNames
<1>2. \A i \in 1 .. 4 : i = 1 \/ i = 2 \/ i = 3 \/ i = 4
  OBVIOUS
<1>3. \A i \in 1 .. 4 : s[i].win = w
  BY <1>1, <1>2
<1>4. Follows(s[1], s[1 + 1]) /\ Follows(s[2], s[2 + 1]) /\ Follows(s[3], s[3 + 1])
  BY <1>1 DEF Follows
<1>5. \A i \in 1 .. 3 : Follows(s[i], s[i + 1])
  BY <1>2, <1>4
<1>6. Chained(s)
  BY <1>1, <1>5 DEF Chained
<1> QED
  BY <1>1, <1>3, <1>6 DEF Windows!Step

\* The hooks' steps start with the scripts, and none is about one window.
LEMMA HooksOrdered ==
  ASSUME NEW s, s = Windows!Hooks
  PROVE  /\ Chained(s) /\ s # <<>> /\ Len(s) = 4 /\ s[1].do = "write-scripts" /\ s[4].do = "set-window-hook"
         /\ \A i \in 1 .. 4 : s[i].do \notin InWindow
<1>1. /\ s \in Seq(TerminalSteps) /\ Len(s) = 4 /\ s # <<>>
      /\ s[1].do = "write-scripts" /\ s[2].do = "set-resize-hooks"
      /\ s[3].do = "bind-keys" /\ s[4].do = "set-window-hook"
  BY DEF Windows!Hooks, Windows!Step, TerminalSteps, StepNames
<1>2. \A i \in 1 .. 4 : i = 1 \/ i = 2 \/ i = 3 \/ i = 4
  OBVIOUS
<1>3. \A i \in 1 .. 4 : s[i].do \notin InWindow
  BY <1>1, <1>2 DEF InWindow
<1>4. Follows(s[1], s[1 + 1]) /\ Follows(s[2], s[2 + 1]) /\ Follows(s[3], s[3 + 1])
  BY <1>1 DEF Follows
<1>5. \A i \in 1 .. 3 : Follows(s[i], s[i + 1])
  BY <1>2, <1>4
<1> QED
  BY <1>1, <1>3, <1>5 DEF Chained

\* The four steps of inject_sidebar go in front of what a list has after its first step.
InjectedIn(todo, w, new) ==
  /\ WellOrdered(new) /\ new # <<>> /\ Head(new) = Windows!Step("split", w)
  /\ \A i \in 1 .. Len(new) : new[i].win = w \/ \E j \in 1 .. Len(todo) : new[i] = todo[j]
  /\ \A j \in 2 .. Len(todo) : \E i \in 1 .. Len(new) : new[i] = todo[j]

\* A list that was in order before the injection is in order with it.
LEMMA OrderedInject ==
  ASSUME NEW todo, WellOrdered(todo), todo # <<>>, Head(todo).do = "list-panes", NEW w \in Nat,
         NEW new, new = Windows!Inject(w) \o Tail(todo)
  PROVE  InjectedIn(todo, w, new)
<1> DEFINE rest == Tail(todo)
           s == Windows!Inject(w)
           n == Len(rest)
<1>1. /\ WellOrdered(rest)
      /\ rest # <<>> => Head(rest) \in TerminalSteps /\ Follows(Head(todo), Head(rest))
  BY OrderedTail
<1>2. /\ todo \in Seq(TerminalSteps) /\ rest \in Seq(TerminalSteps) /\ Chained(rest)
      /\ rest # <<>> => rest[n].do \notin {"has-none", "split", "title", "tag"}
  BY <1>1, Zenon DEF WellOrdered, Chained
<1>3. /\ Chained(s) /\ s # <<>> /\ Len(s) = 4 /\ s[1] = Windows!Step("split", w) /\ s[4].do = "keys"
      /\ \A i \in 1 .. 4 : s[i].win = w
  BY InjectOrdered
<1>4. /\ n \in Nat
      /\ \A i \in 1 .. n : i + 1 \in 1 .. Len(todo) /\ rest[i] = todo[i + 1]
      /\ \A i \in 2 .. Len(todo) : i - 1 \in 1 .. n /\ rest[i - 1] = todo[i]
      /\ rest # <<>> => Head(rest) = rest[1]
  BY <1>2, HeadTail, LenProperties
<1> HIDE DEF rest, s, n
<1>5. rest # <<>> => Follows(s[Len(s)], rest[1])
  BY <1>1, <1>3, <1>4 DEF Follows
<1>6. /\ Chained(new) /\ new # <<>> /\ Head(new) = s[1] /\ Len(new) = 4 + n
      /\ \A i \in 1 .. 4 : new[i] = s[i]
      /\ \A i \in 1 .. n : new[4 + i] = rest[i]
      /\ rest # <<>> => new[Len(new)] = rest[n]
      /\ rest = <<>> => new[Len(new)] = s[4]
  <2>1. new = s \o rest
    BY DEF s, rest
  <2>2. /\ Chained(new) /\ new # <<>> /\ Head(new) = s[1]
        /\ Len(s) \in Nat /\ Len(rest) \in Nat /\ Len(new) = Len(s) + Len(rest)
        /\ \A i \in 1 .. Len(s) : new[i] = s[i]
        /\ \A i \in 1 .. Len(rest) : new[Len(s) + i] = rest[i]
        /\ rest # <<>> => new[Len(new)] = rest[Len(rest)]
        /\ rest = <<>> => new[Len(new)] = s[Len(s)]
    <3> DEFINE c == s \o rest
    <3>1. /\ Chained(c) /\ c # <<>> /\ Head(c) = s[1]
          /\ Len(s) \in Nat /\ Len(rest) \in Nat /\ Len(c) = Len(s) + Len(rest)
          /\ \A i \in 1 .. Len(s) : c[i] = s[i]
          /\ \A i \in 1 .. Len(rest) : c[Len(s) + i] = rest[i]
          /\ rest # <<>> => c[Len(c)] = rest[Len(rest)]
          /\ rest = <<>> => c[Len(c)] = s[Len(s)]
      <4>1. Chained(s) /\ s # <<>> /\ Chained(rest)
        BY <1>2, <1>3
      <4>2. CASE rest = <<>>
        <5>1. s \in Seq(TerminalSteps)
          BY <4>1 DEF Chained
        <5>2. c = s
          BY <4>2, <5>1, ConcatEmptySeq
        <5>3. Len(rest) = 0 /\ Head(s) = s[1] /\ Len(s) \in Nat
          BY <4>1, <4>2, <5>1, HeadTail, EmptySeq
        <5> HIDE DEF c
        <5> QED
          BY <4>1, <4>2, <5>2, <5>3
      <4>3. CASE rest # <<>>
        BY <4>1, <4>3, <1>5, OrderedConcat, Zenon
      <4> QED
        BY <4>2, <4>3
    <3> HIDE DEF c
    <3>2. new = c
      BY <2>1 DEF c
    <3> QED
      BY <3>1, <3>2
  <2> QED
    BY <1>3, <2>2 DEF n
<1>7. WellOrdered(new)
  BY <1>2, <1>3, <1>6 DEF WellOrdered
<1>8. \A i \in 1 .. Len(new) : new[i].win = w \/ \E j \in 1 .. Len(todo) : new[i] = todo[j]
  <2> SUFFICES ASSUME NEW i \in 1 .. Len(new)
               PROVE  new[i].win = w \/ \E j \in 1 .. Len(todo) : new[i] = todo[j]
    OBVIOUS
  <2>1. CASE i \in 1 .. 4
    BY <1>3, <1>6, <2>1
  <2>2. CASE i \notin 1 .. 4
    <3>1. PICK j \in 1 .. n : i = 4 + j
      <4>1. i - 4 \in 1 .. n /\ i = 4 + (i - 4)
        BY <1>4, <1>6, <2>2
      <4> QED
        BY <4>1
    <3> QED
      BY <1>4, <1>6, <3>1
  <2> QED
    BY <2>1, <2>2
<1>9. \A j \in 2 .. Len(todo) : \E i \in 1 .. Len(new) : new[i] = todo[j]
  <2> SUFFICES ASSUME NEW j \in 2 .. Len(todo)  PROVE \E i \in 1 .. Len(new) : new[i] = todo[j]
    OBVIOUS
  <2>1. j - 1 \in 1 .. n /\ rest[j - 1] = todo[j]
    BY <1>4
  <2>2. 4 + (j - 1) \in 1 .. Len(new) /\ new[4 + (j - 1)] = rest[j - 1]
    BY <1>4, <1>6, <2>1, SMTT(30)
  <2> QED
    BY <2>1, <2>2
<1> QED
  BY <1>3, <1>6, <1>7, <1>8, <1>9 DEF InjectedIn

\* The lists that the commands begin with.
LEMMA OrderedStart ==
  /\ LET create == <<Windows!Step("has-none", 0), Windows!Step("new-session", 0)>> \o Windows!Inject(1)
                      \o <<Windows!Step("split-shell", 1), Windows!Step("type-agent", 1)>> \o Windows!Hooks
     IN  WellOrdered(create) /\ create # <<>> /\ Head(create).do = "has-none"
         /\ \A i \in 1 .. Len(create) : create[i].do \in InWindow => create[i].win = 1
  /\ LET attach == <<Windows!Step("has", 0), Windows!Step("list-windows", 0)>>
     IN  WellOrdered(attach) /\ attach # <<>> /\ Head(attach).do = "has"
         /\ \A i \in 1 .. Len(attach) : attach[i].do \notin InWindow
<1> DEFINE a == <<Windows!Step("has-none", 0), Windows!Step("new-session", 0)>>
           b == <<Windows!Step("split-shell", 1), Windows!Step("type-agent", 1)>>
           s == Windows!Inject(1)
           h == Windows!Hooks
           at == <<Windows!Step("has", 0), Windows!Step("list-windows", 0)>>
<1>1. /\ a \in Seq(TerminalSteps) /\ Len(a) = 2 /\ a # <<>> /\ a[1].do = "has-none" /\ a[2].do = "new-session"
      /\ b \in Seq(TerminalSteps) /\ Len(b) = 2 /\ b # <<>> /\ b[1].do = "split-shell" /\ b[2].do = "type-agent"
      /\ at \in Seq(TerminalSteps) /\ Len(at) = 2 /\ at # <<>> /\ at[1].do = "has" /\ at[2].do = "list-windows"
      /\ Head(at) = at[1]
  BY DEF Windows!Step, TerminalSteps, StepNames
<1>2. /\ Chained(s) /\ s # <<>> /\ Len(s) = 4 /\ s[1].do = "split" /\ s[4].do = "keys"
      /\ \A i \in 1 .. 4 : s[i].win = 1
      /\ Chained(h) /\ h # <<>> /\ Len(h) = 4 /\ h[1].do = "write-scripts" /\ h[4].do = "set-window-hook"
      /\ \A i \in 1 .. 4 : h[i].do \notin InWindow
  <2>1. /\ Chained(s) /\ s # <<>> /\ Len(s) = 4 /\ s[1] = Windows!Step("split", 1) /\ s[4].do = "keys"
        /\ \A i \in 1 .. 4 : s[i].win = 1
    BY InjectOrdered
  <2>2. Windows!Step("split", 1).do = "split"
    BY DEF Windows!Step
  <2> QED
    BY <2>1, <2>2, HooksOrdered
<1> HIDE DEF a, b, s, h, at
<1>3. \A i \in 1 .. 2 : i = 1 \/ i = 2
  OBVIOUS
<1>4. Follows(a[1], a[1 + 1]) /\ Follows(b[1], b[1 + 1]) /\ Follows(at[1], at[1 + 1])
  BY <1>1 DEF Follows
<1>5. Chained(a) /\ Chained(b) /\ Chained(at)
  BY <1>1, <1>3, <1>4 DEF Chained
<1> DEFINE c1 == a \o s
           c2 == c1 \o b
           c3 == c2 \o h
<1>6. /\ Chained(c1) /\ c1 # <<>> /\ Head(c1) = a[1] /\ c1[1] = a[1] /\ Len(c1) = 6 /\ c1[6] = s[4]
      /\ \A i \in 1 .. 2 : c1[i] = a[i]
      /\ \A i \in 1 .. 4 : c1[2 + i] = s[i]
  <2>1. Follows(a[Len(a)], s[1])
    BY <1>1, <1>2 DEF Follows
  <2>2. /\ Chained(c1) /\ c1 # <<>> /\ Head(c1) = a[1]
        /\ Len(a) \in Nat /\ Len(s) \in Nat /\ Len(c1) = Len(a) + Len(s)
        /\ \A i \in 1 .. Len(a) : c1[i] = a[i]
        /\ \A i \in 1 .. Len(s) : c1[Len(a) + i] = s[i]
        /\ s # <<>> => c1[Len(c1)] = s[Len(s)]
        /\ s = <<>> => c1[Len(c1)] = a[Len(a)]
    BY <1>1, <1>2, <1>5, <2>1, OrderedConcat, Zenon
  <2> HIDE DEF c1
  <2> QED
    BY <1>1, <1>2, <2>2
<1>7. /\ Chained(c2) /\ c2 # <<>> /\ Head(c2) = a[1] /\ c2[1] = a[1] /\ Len(c2) = 8 /\ c2[8] = b[2]
      /\ \A i \in 1 .. 6 : c2[i] = c1[i]
      /\ \A i \in 1 .. 2 : c2[6 + i] = b[i]
  <2> HIDE DEF c1
  <2>1. Follows(c1[Len(c1)], b[1])
    BY <1>1, <1>2, <1>6 DEF Follows
  <2>2. /\ Chained(c2) /\ c2 # <<>> /\ Head(c2) = c1[1]
        /\ Len(c1) \in Nat /\ Len(b) \in Nat /\ Len(c2) = Len(c1) + Len(b)
        /\ \A i \in 1 .. Len(c1) : c2[i] = c1[i]
        /\ \A i \in 1 .. Len(b) : c2[Len(c1) + i] = b[i]
        /\ b # <<>> => c2[Len(c2)] = b[Len(b)]
        /\ b = <<>> => c2[Len(c2)] = c1[Len(c1)]
    BY <1>1, <1>5, <1>6, <2>1, OrderedConcat, Zenon
  <2> HIDE DEF c2
  <2> QED
    BY <1>1, <1>6, <2>2
<1>8. /\ Chained(c3) /\ c3 # <<>> /\ Head(c3) = a[1] /\ Len(c3) = 12 /\ c3[12] = h[4]
      /\ \A i \in 1 .. 8 : c3[i] = c2[i]
      /\ \A i \in 1 .. 4 : c3[8 + i] = h[i]
  <2> HIDE DEF c2
  <2>1. Follows(c2[Len(c2)], h[1])
    BY <1>1, <1>2, <1>7 DEF Follows
  <2>2. /\ Chained(c3) /\ c3 # <<>> /\ Head(c3) = c2[1]
        /\ Len(c2) \in Nat /\ Len(h) \in Nat /\ Len(c3) = Len(c2) + Len(h)
        /\ \A i \in 1 .. Len(c2) : c3[i] = c2[i]
        /\ \A i \in 1 .. Len(h) : c3[Len(c2) + i] = h[i]
        /\ h # <<>> => c3[Len(c3)] = h[Len(h)]
        /\ h = <<>> => c3[Len(c3)] = c2[Len(c2)]
    BY <1>2, <1>7, <2>1, OrderedConcat, Zenon
  <2> HIDE DEF c3
  <2> QED
    BY <1>2, <1>7, <2>2
<1> HIDE DEF c1, c2, c3
<1>9. \A i \in 1 .. 12 : c3[i].do \in InWindow => c3[i].win = 1
  <2> SUFFICES ASSUME NEW i \in 1 .. 12  PROVE c3[i].do \in InWindow => c3[i].win = 1
    OBVIOUS
  <2>1. CASE i \in {1, 2}
    BY <1>1, <1>6, <1>7, <1>8, <2>1 DEF InWindow
  <2>2. CASE i \in {3, 4, 5, 6}
    <3>1. i \in 1 .. 6 /\ i - 2 \in 1 .. 4 /\ i = 2 + (i - 2)
      BY <2>2
    <3>2. c3[i] = s[i - 2]
      BY <1>6, <1>7, <1>8, <3>1
    <3> QED
      BY <1>2, <3>1, <3>2
  <2>3. CASE i \in {7, 8}
    <3>1. i \in 1 .. 8 /\ i - 6 \in 1 .. 2 /\ i = 6 + (i - 6)
      BY <2>3
    <3>2. c3[i] = b[i - 6]
      BY <1>7, <1>8, <3>1
    <3> QED
      BY <1>1, <1>3, <3>1, <3>2 DEF InWindow
  <2>4. CASE i \in {9, 10, 11, 12}
    <3>1. i - 8 \in 1 .. 4 /\ i = 8 + (i - 8)
      BY <2>4
    <3>2. c3[i] = h[i - 8]
      BY <1>8, <3>1
    <3> QED
      BY <1>2, <3>1, <3>2
  <2> QED
    BY <2>1, <2>2, <2>3, <2>4
<1>10. WellOrdered(c3)
  BY <1>2, <1>8 DEF WellOrdered
<1>11. WellOrdered(at) /\ \A i \in 1 .. Len(at) : at[i].do \notin InWindow
  BY <1>1, <1>3, <1>5 DEF WellOrdered, InWindow
<1> QED
  BY <1>1, <1>8, <1>9, <1>10, <1>11 DEF a, b, s, h, at, c1, c2, c3

\* A list of panes to list, one for each window, then the hooks, is in order.
LEMMA OrderedPanes ==
  ASSUME NEW n \in Nat, NEW new,
         new = [i \in 1 .. n |-> Windows!Step("list-panes", i)] \o Windows!Hooks
  PROVE  /\ WellOrdered(new) /\ new # <<>> /\ Head(new).do \in {"list-panes", "write-scripts"}
         /\ \A w \in 1 .. n : \E i \in 1 .. Len(new) : new[i] = Windows!Step("list-panes", w)
         /\ \A i \in 1 .. Len(new) : new[i].do \in InWindow => new[i].win \in 1 .. n
<1> DEFINE p == [i \in 1 .. n |-> Windows!Step("list-panes", i)]
           h == Windows!Hooks
<1>1. p \in Seq(TerminalSteps) /\ Len(p) = n /\ \A i \in 1 .. n : p[i] = [do |-> "list-panes", win |-> i]
  BY DEF Windows!Step, TerminalSteps, StepNames
<1>2. /\ Chained(h) /\ h # <<>> /\ Len(h) = 4 /\ h[1].do = "write-scripts" /\ h[4].do = "set-window-hook"
      /\ \A i \in 1 .. 4 : h[i].do \notin InWindow
      /\ h \in Seq(TerminalSteps) /\ Head(h) = h[1]
  BY HooksOrdered, HeadTail DEF Chained
<1>3. new = p \o h
  OBVIOUS
<1> HIDE DEF p, h
<1>4. Chained(p)
  BY <1>1 DEF Chained, Follows
<1>5. CASE n = 0
  <2>1. p = <<>>
    BY <1>1, <1>5, EmptySeq
  <2>2. new = h
    BY <1>2, <1>3, <2>1, ConcatEmptySeq
  <2>3. WellOrdered(h)
    BY <1>2 DEF WellOrdered
  <2>4. \A w \in 1 .. n : FALSE
    BY <1>5
  <2> QED
    BY <1>2, <2>2, <2>3, <2>4
<1>6. CASE n # 0
  <2>1. p # <<>> /\ Follows(p[Len(p)], h[1])
    BY <1>1, <1>2, <1>6, EmptySeq DEF Follows
  <2>2. /\ Chained(new) /\ new # <<>> /\ Head(new) = p[1] /\ Len(new) = n + 4 /\ new[n + 4] = h[4]
        /\ \A i \in 1 .. n : new[i] = p[i]
        /\ \A i \in 1 .. 4 : new[n + i] = h[i]
    <3>1. /\ Chained(new) /\ new # <<>> /\ Head(new) = p[1]
          /\ Len(p) \in Nat /\ Len(h) \in Nat /\ Len(new) = Len(p) + Len(h)
          /\ \A i \in 1 .. Len(p) : new[i] = p[i]
          /\ \A i \in 1 .. Len(h) : new[Len(p) + i] = h[i]
          /\ h # <<>> => new[Len(new)] = h[Len(h)]
          /\ h = <<>> => new[Len(new)] = p[Len(p)]
      <4> DEFINE c == p \o h
      <4>1. /\ Chained(c) /\ c # <<>> /\ Head(c) = p[1]
            /\ Len(p) \in Nat /\ Len(h) \in Nat /\ Len(c) = Len(p) + Len(h)
            /\ \A i \in 1 .. Len(p) : c[i] = p[i]
            /\ \A i \in 1 .. Len(h) : c[Len(p) + i] = h[i]
            /\ h # <<>> => c[Len(c)] = h[Len(h)]
            /\ h = <<>> => c[Len(c)] = p[Len(p)]
        BY <1>2, <1>4, <2>1, OrderedConcat, Zenon
      <4> HIDE DEF c
      <4>2. new = c
        BY <1>3 DEF c
      <4> QED
        BY <4>1, <4>2
    <3> QED
      BY <1>1, <1>2, <3>1
  <2>3. \A i \in 1 .. n + 4 : new[i].do \in InWindow => new[i].win \in 1 .. n
    <3> SUFFICES ASSUME NEW i \in 1 .. n + 4  PROVE new[i].do \in InWindow => new[i].win \in 1 .. n
      OBVIOUS
    <3>1. CASE i \in 1 .. n
      BY <1>1, <2>2, <3>1
    <3>2. CASE i \notin 1 .. n
      <4>1. i - n \in 1 .. 4 /\ i = n + (i - n)
        BY <3>2
      <4>2. new[i] = h[i - n]
        BY <2>2, <4>1
      <4> QED
        BY <1>2, <4>1, <4>2
    <3> QED
      BY <3>1, <3>2
  <2>4. \A w \in 1 .. n : w \in 1 .. Len(new) /\ new[w] = Windows!Step("list-panes", w)
    BY <1>1, <2>2 DEF Windows!Step
  <2>5. Head(new).do = "list-panes"
    BY <1>1, <1>6, <2>2
  <2> QED
    BY <1>2, <2>2, <2>3, <2>4, <2>5 DEF WellOrdered
<1> QED
  BY <1>5, <1>6

\* What tmux and a command have of it, its windows none without a pane.
Worlds ==
  [wins : Seq(Seq(Panes)), current : Nat, hook : BOOLEAN, cut : SUBSET Nat, closed : SUBSET Nat]
Scripts == [own : Nat, at : {"split", "title", "tag", "keys"}, win : Nat, pane : Nat]
Jobs == [run : {"none", "create", "attach"}, todo : Seq(TerminalSteps), listed : SUBSET Nat, pane : Nat,
         scripts : SUBSET Scripts, runs : Nat, fails : Nat]
WindowTypes ==
  /\ v1 \in Worlds /\ v2 \in Jobs
  /\ \A w \in 1 .. Len(v1.wins) : Len(v1.wins[w]) > 0
  /\ Len(v1.wins) > 0 => v1.current \in 1 .. Len(v1.wins)

\* The steps of a command are in order, and on windows there are, or on the first one
\* of a session to be made.
TodoReady ==
  /\ v2.run = "none" => v2.todo = <<>>
  /\ WellOrdered(v2.todo)
  /\ \A i \in 1 .. Len(v2.todo) : v2.todo[i].do \in InWindow =>
       \/ v2.todo[i].win \in 1 .. Len(v1.wins)
       \/ v2.todo[i].win = 1 /\ Head(v2.todo).do \in {"has-none", "new-session"}

\* The pane a command has split off, when it titles, tags or starts it.
PaneMade ==
  v2.todo # <<>> /\ Head(v2.todo).do \in {"title", "tag", "keys"} =>
    LET w == Head(v2.todo).win
    IN  /\ v2.pane \in 1 .. Len(v1.wins[w]) /\ v1.wins[w][v2.pane].bar
        /\ Head(v2.todo).do = "keys" => v1.wins[w][v2.pane].tag

\* The same of each script, that goes on when its split has failed, and has split another
\* window than its own where that is known.
ScriptHas(s) ==
  /\ s.own \in 1 .. Len(v1.wins)
  /\ s.at = "split" => s.pane = 0
  /\ s.pane > 0 =>
       /\ s.win \in 1 .. Len(v1.wins) /\ s.pane \in 1 .. Len(v1.wins[s.win]) /\ v1.wins[s.win][s.pane].bar
       /\ s.win \notin v1.cut => s.own = s.win
ScriptReady ==
  /\ \A s, t \in v2.scripts : s.own = t.own => s = t
  /\ \A s \in v2.scripts : ScriptHas(s)

\* A pane is missing only where the user closed one.
ClosedKnown ==
  \A w \in 1 .. Len(v1.wins) : w \notin v1.closed =>
    \A i \in 1 .. Len(v1.wins[w]) : v1.wins[w][i].open

\* A tagged pane is a sidebar, or about to be one.
InHand(w, i) ==
  \/ v2.todo # <<>> /\ Head(v2.todo).do = "keys" /\ Head(v2.todo).win = w /\ v2.pane = i
  \/ \E s \in v2.scripts : s.at = "keys" /\ s.win = w /\ s.pane = i
TaggedIsBar ==
  \A w \in 1 .. Len(v1.wins) : w \notin v1.cut \cup v1.closed =>
    \A i \in 1 .. Len(v1.wins[w]) : v1.wins[w][i].tag =>
      v1.wins[w][i].bar /\ (v1.wins[w][i].runs \/ InHand(w, i))

\* A listed window has its sidebar, or the command has not yet been there.
HasSidebar(w) ==
  w \in 1 .. Len(v1.wins) /\ \E i \in 1 .. Len(v1.wins[w]) :
    v1.wins[w][i].bar /\ v1.wins[w][i].open /\ v1.wins[w][i].tag /\ v1.wins[w][i].runs
ToVisit(w) ==
  \/ \E i \in 1 .. Len(v2.todo) : v2.todo[i] = Windows!Step("list-panes", w)
  \/ v2.todo # <<>> /\ Head(v2.todo).do \in {"split", "title", "tag", "keys"} /\ Head(v2.todo).win = w
ListedServed ==
  v2.run # "none" => \A w \in v2.listed :
    w \in v1.cut \cup v1.closed \/ HasSidebar(w) \/ ToVisit(w)

\* A window that no failure has cut short has one sidebar at most, tagged or being made;
\* none, when the command or its script is about to split it, and then the command is
\* alone there.
BarAt(w, i) == v1.wins[w][i].bar /\ v1.wins[w][i].open
NoBar(w) == \A i \in 1 .. Len(v1.wins[w]) : ~ BarAt(w, i)
Making(w, i) ==
  \/ v2.todo # <<>> /\ Head(v2.todo).do \in {"title", "tag"} /\ Head(v2.todo).win = w /\ v2.pane = i
  \/ \E s \in v2.scripts : s.at \in {"title", "tag"} /\ s.win = w /\ s.pane = i
OneBar ==
  \A w \in 1 .. Len(v1.wins) : w \notin v1.cut =>
    \A i, j \in 1 .. Len(v1.wins[w]) : BarAt(w, i) /\ BarAt(w, j) => i = j
BarKnown ==
  \A w \in 1 .. Len(v1.wins) : w \notin v1.cut =>
    \A i \in 1 .. Len(v1.wins[w]) : BarAt(w, i) => v1.wins[w][i].tag \/ Making(w, i)
SplitAlone ==
  v2.todo # <<>> /\ Head(v2.todo).do = "split" =>
    LET w == Head(v2.todo).win
    IN  w \notin v1.cut => NoBar(w) /\ ~ Windows!ScriptIn(w)
ScriptFirst ==
  \A s \in v2.scripts : s.at = "split" /\ s.own \notin v1.cut => NoBar(s.own)

WindowsInv ==
  /\ WindowTypes /\ TodoReady /\ PaneMade /\ ScriptReady
  /\ ClosedKnown /\ TaggedIsBar /\ ListedServed
  /\ OneBar /\ BarKnown /\ SplitAlone /\ ScriptFirst

\* At first no command runs and each window has the panes it was made with.
LEMMA WindowsInit == Windows!Init => WindowsInv
<1> SUFFICES ASSUME Windows!Init  PROVE WindowsInv
  OBVIOUS
<1> DEFINE own == [bar |-> FALSE, tag |-> FALSE, runs |-> FALSE, open |-> TRUE]
<1>1. PICK wins \in {<<>>, <<<<own>>>>} : v1 = [wins |-> wins, current |-> Len(wins), hook |-> FALSE, cut |-> {}, closed |-> {}]
  BY DEF Windows!Init, Windows!Own
<1>2. v2 = [run |-> "none", todo |-> <<>>, listed |-> {}, pane |-> 0,
            scripts |-> {}, runs |-> 0, fails |-> 0]
  BY DEF Windows!Init
<1>3. /\ wins \in Seq(Seq(Panes)) /\ Len(wins) \in {0, 1}
      /\ \A w \in 1 .. Len(wins) : Len(wins[w]) = 1 /\ wins[w][1] = own
  <2>1. own \in Panes
    BY DEF Panes
  <2> HIDE DEF own
  <2>2. <<own>> \in Seq(Panes) /\ Len(<<own>>) = 1 /\ <<own>>[1] = own
    BY <2>1
  <2> DEFINE win == <<own>>
  <2> HIDE DEF win
  <2>3. <<win>> \in Seq(Seq(Panes)) /\ Len(<<win>>) = 1 /\ <<win>>[1] = win
    BY <2>2 DEF win
  <2>4. <<>> \in Seq(Seq(Panes)) /\ Len(<<>>) = 0
    OBVIOUS
  <2>5. CASE wins = <<>>
    BY <2>4, <2>5
  <2>6. CASE wins = <<win>>
    <3>1. \A w \in 1 .. Len(wins) : w = 1
      BY <2>3, <2>6
    <3> QED
      BY <2>2, <2>3, <2>6, <3>1 DEF win
  <2> QED
    BY <2>5, <2>6 DEF own, win
<1>4. /\ v1.wins = wins /\ v1.closed = {} /\ v1.cut = {} /\ v2.todo = <<>> /\ v2.run = "none"
      /\ v2.scripts = {}
  BY <1>1, <1>2
<1>5. WindowTypes
  BY <1>1, <1>2, <1>3 DEF WindowTypes, Worlds, Jobs
<1>6. \A w \in 1 .. Len(wins) : \A i \in 1 .. Len(wins[w]) : wins[w][i] = own
  BY <1>3
<1>7. TodoReady
  BY <1>4 DEF TodoReady, WellOrdered, Chained
<1> HIDE DEF own
<1>8. ClosedKnown /\ TaggedIsBar
  <2>1. own.open /\ ~ own.tag
    BY DEF own
  <2> QED
    BY <1>4, <1>6, <2>1 DEF ClosedKnown, TaggedIsBar
<1>9. OneBar /\ BarKnown
  <2>1. ~ own.bar
    BY DEF own
  <2> QED
    BY <1>4, <1>6, <2>1 DEF OneBar, BarKnown, BarAt
<1> QED
  BY <1>4, <1>5, <1>7, <1>8, <1>9 DEF WindowsInv, PaneMade, ScriptReady, ListedServed, SplitAlone, ScriptFirst

\* What a step may do to the panes: none goes, none loses a mark, and none is closed
\* but by the user.  A new one is open and not yet tagged.
PaneGrows(w, i, p, q) ==
  /\ p.bar => q.bar
  /\ p.tag => q.tag
  /\ p.runs => q.runs
  /\ p.open => q.open \/ w \in v1'.closed
  /\ q.bar /\ q.open => p.bar /\ p.open
  /\ q.tag => p.tag \/ w \in v1'.cut \/ (q.bar /\ InHand(w, i)')
Grow ==
  /\ v1.cut \subseteq v1'.cut /\ v1.closed \subseteq v1'.closed /\ Len(v1.wins) <= Len(v1'.wins)
  /\ \A w \in 1 .. Len(v1.wins) :
       /\ Len(v1.wins[w]) <= Len(v1'.wins[w])
       /\ \A i \in 1 .. Len(v1.wins[w]) : PaneGrows(w, i, v1.wins[w][i], v1'.wins[w][i])
  /\ \A w \in 1 .. Len(v1'.wins) : \A i \in 1 .. Len(v1'.wins[w]) :
       \/ w \in 1 .. Len(v1.wins) /\ i \in 1 .. Len(v1.wins[w])
       \/ v1'.wins[w][i].open /\ ~ v1'.wins[w][i].tag

\* Whether a window has got no sidebar, or just the first one, that is in hand.
Plain(w) ==
  \/ w \in v1'.cut
  \/ \A i \in 1 .. Len(v1'.wins[w]) : v1'.wins[w][i].bar =>
       w \in 1 .. Len(v1.wins) /\ i \in 1 .. Len(v1.wins[w])
AllPlain == \A w \in 1 .. Len(v1'.wins) : Plain(w)
SplitOff(w) ==
  /\ w \in 1 .. Len(v1.wins) /\ (w \notin v1.cut => NoBar(w))
  /\ \E k : Making(w, k)' /\ \A i \in 1 .. Len(v1'.wins[w]) : i \in 1 .. Len(v1.wins[w]) \/ i = k
BarsGrow == \A w \in 1 .. Len(v1'.wins) : Plain(w) \/ SplitOff(w)

\* A window without a sidebar that gets none has none.
LEMMA NoBarStays ==
  ASSUME Grow, NEW w \in 1 .. Len(v1.wins), w \notin v1'.cut, NoBar(w), Plain(w)
  PROVE  NoBar(w)'
<1> SUFFICES ASSUME NEW i \in 1 .. Len(v1'.wins[w]), BarAt(w, i)'
             PROVE  FALSE
  BY DEF NoBar
<1>1. i \in 1 .. Len(v1.wins[w])
  BY DEF Plain, BarAt
<1>2. PaneGrows(w, i, v1.wins[w][i], v1'.wins[w][i])
  BY <1>1 DEF Grow
<1> QED
  BY <1>1, <1>2 DEF PaneGrows, BarAt, NoBar

\* A window that gets none, or its first, has one at most.
LEMMA BarsStay ==
  ASSUME Grow, OneBar, BarKnown, BarsGrow,
         \A w \in 1 .. Len(v1.wins) : \A i \in 1 .. Len(v1.wins[w]) : Making(w, i) =>
           Making(w, i)' \/ w \in v1'.cut \/ v1'.wins[w][i].tag \/ ~ v1'.wins[w][i].open
  PROVE  OneBar' /\ BarKnown'
<1> SUFFICES ASSUME NEW w \in 1 .. Len(v1'.wins), w \notin v1'.cut
             PROVE  /\ \A i, j \in 1 .. Len(v1'.wins[w]) : BarAt(w, i)' /\ BarAt(w, j)' => i = j
                    /\ \A i \in 1 .. Len(v1'.wins[w]) : BarAt(w, i)' => v1'.wins[w][i].tag \/ Making(w, i)'
  BY DEF OneBar, BarKnown
<1>1. w \notin v1.cut
  BY DEF Grow
<1>2. ASSUME w \in 1 .. Len(v1.wins), NEW i \in 1 .. Len(v1.wins[w]), BarAt(w, i)'
      PROVE  BarAt(w, i) /\ (v1.wins[w][i].tag => v1'.wins[w][i].tag)
  <2>1. PaneGrows(w, i, v1.wins[w][i], v1'.wins[w][i])
    BY <1>2 DEF Grow
  <2> QED
    BY <1>2, <2>1 DEF PaneGrows, BarAt
<1>3. CASE Plain(w)
  <2>1. \A i \in 1 .. Len(v1'.wins[w]) : BarAt(w, i)' =>
          w \in 1 .. Len(v1.wins) /\ i \in 1 .. Len(v1.wins[w])
    BY <1>3 DEF Plain, BarAt
  <2>2. \A i, j \in 1 .. Len(v1'.wins[w]) : BarAt(w, i)' /\ BarAt(w, j)' => i = j
    BY <1>1, <1>2, <2>1 DEF OneBar
  <2>3. ASSUME NEW i \in 1 .. Len(v1'.wins[w]), BarAt(w, i)'
        PROVE  v1'.wins[w][i].tag \/ Making(w, i)'
    <3>1. v1.wins[w][i].tag \/ Making(w, i)
      BY <1>1, <1>2, <2>1, <2>3 DEF BarKnown
    <3>2. v1'.wins[w][i].open
      BY <2>3 DEF BarAt
    <3> QED
      BY <1>2, <2>1, <2>3, <3>1, <3>2
  <2> QED
    BY <2>2, <2>3
<1>4. CASE SplitOff(w)
  <2>1. PICK k : Making(w, k)' /\ \A i \in 1 .. Len(v1'.wins[w]) : i \in 1 .. Len(v1.wins[w]) \/ i = k
    BY <1>4 DEF SplitOff
  <2>2. \A i \in 1 .. Len(v1'.wins[w]) : BarAt(w, i)' => i = k
    BY <1>1, <1>2, <1>4, <2>1 DEF SplitOff, NoBar
  <2> QED
    BY <2>1, <2>2
<1> QED
  BY <1>3, <1>4 DEF BarsGrow

\* The command's split, still to come, finds its window as before.
LEMMA SplitStays ==
  ASSUME WindowsInv, Grow, v2'.todo = v2.todo,
         \A w \in 1 .. Len(v1.wins) : w \notin v1'.cut /\ ~ Windows!ScriptIn(w) =>
           Plain(w) /\ ~ Windows!ScriptIn(w)'
  PROVE  SplitAlone'
<1> SUFFICES ASSUME v2.todo # <<>>, Head(v2.todo).do = "split", NEW w, w = Head(v2.todo).win, w \notin v1'.cut
             PROVE  NoBar(w)' /\ ~ Windows!ScriptIn(w)'
  BY DEF SplitAlone
<1>1. w \in 1 .. Len(v1.wins)
  <2>1. v2.todo \in Seq(TerminalSteps)
    BY DEF WindowsInv, WindowTypes, Jobs
  <2>2. Head(v2.todo) = v2.todo[1] /\ 1 \in 1 .. Len(v2.todo)
    BY <2>1, HeadTail
  <2> QED
    BY <2>2 DEF WindowsInv, TodoReady, InWindow
<1>2. w \notin v1.cut
  BY DEF Grow
<1>3. NoBar(w) /\ ~ Windows!ScriptIn(w)
  BY <1>2 DEF WindowsInv, SplitAlone
<1> QED
  BY <1>1, <1>3, NoBarStays

\* And so does the script's.
LEMMA ScriptFirstStays ==
  ASSUME WindowsInv, Grow, v2'.scripts = v2.scripts,
         \A w \in 1 .. Len(v1.wins) : w \notin v1'.cut /\ Windows!ScriptIn(w) => Plain(w)
  PROVE  ScriptFirst'
<1> SUFFICES ASSUME NEW s \in v2.scripts, s.at = "split", s.own \notin v1'.cut
             PROVE  NoBar(s.own)'
  BY DEF ScriptFirst
<1>1. s.own \in 1 .. Len(v1.wins)
  BY DEF WindowsInv, ScriptReady, ScriptHas
<1>2. s.own \notin v1.cut
  BY DEF Grow
<1>3. NoBar(s.own)
  BY <1>2 DEF WindowsInv, ScriptFirst
<1>4. Plain(s.own)
  BY <1>1 DEF Windows!ScriptIn
<1> QED
  BY <1>1, <1>3, <1>4, NoBarStays

\* Such a step keeps the invariant when it keeps the lists, finishes what it had in hand
\* and leaves no listed window without.
LEMMA WindowsStep ==
  ASSUME WindowsInv, WindowTypes', TodoReady', PaneMade', ScriptReady', Grow,
         \A w \in 1 .. Len(v1.wins) : \A i \in 1 .. Len(v1.wins[w]) :
           InHand(w, i) => InHand(w, i)' \/ w \in v1'.cut \cup v1'.closed \/ v1'.wins[w][i].runs,
         BarsGrow, SplitAlone', ScriptFirst',
         \A w \in 1 .. Len(v1.wins) : \A i \in 1 .. Len(v1.wins[w]) : Making(w, i) =>
           Making(w, i)' \/ w \in v1'.cut \/ v1'.wins[w][i].tag \/ ~ v1'.wins[w][i].open,
         v2'.run # "none" => \A w \in v2'.listed :
           \/ w \in v1'.cut \cup v1'.closed \/ ToVisit(w)' \/ HasSidebar(w)'
           \/ v2.run # "none" /\ w \in v2.listed /\ ~ ToVisit(w)
  PROVE  WindowsInv'
<1>1. /\ v1.wins \in Seq(Seq(Panes)) /\ v1'.wins \in Seq(Seq(Panes))
  BY DEF WindowsInv, WindowTypes, Worlds
<1> DEFINE m == Len(v1.wins)
           n == Len(v1'.wins)
<1>2. m \in Nat /\ n \in Nat /\ m <= n
  BY <1>1, LenProperties DEF Grow
<1>3. \A w \in 1 .. m : w \in 1 .. n
  BY <1>2
<1>4. \A w \in 1 .. m : Len(v1.wins[w]) \in Nat /\ Len(v1'.wins[w]) \in Nat /\ Len(v1.wins[w]) <= Len(v1'.wins[w])
  <2> SUFFICES ASSUME NEW w \in 1 .. m
               PROVE  Len(v1.wins[w]) \in Nat /\ Len(v1'.wins[w]) \in Nat
    BY DEF Grow
  <2>1. v1.wins[w] \in Seq(Panes) /\ v1'.wins[w] \in Seq(Panes)
    BY <1>1, <1>3, ElementOfSeq
  <2> QED
    BY <2>1, LenProperties
<1>5. \A w \in 1 .. m : \A i \in 1 .. Len(v1.wins[w]) : i \in 1 .. Len(v1'.wins[w])
  BY <1>4
<1> HIDE DEF m, n
<1>6. ClosedKnown'
  BY <1>3, <1>5 DEF ClosedKnown, Grow, PaneGrows, WindowsInv, m, n
<1>7. TaggedIsBar'
  BY <1>3, <1>5 DEF TaggedIsBar, Grow, PaneGrows, WindowsInv, m, n
<1>8. ASSUME NEW w, HasSidebar(w)
      PROVE  HasSidebar(w)' \/ w \in v1'.closed
  BY <1>3, <1>5, <1>8 DEF HasSidebar, Grow, PaneGrows, m, n
<1>9. ListedServed'
  BY <1>8 DEF ListedServed, Grow, WindowsInv
<1>10. OneBar' /\ BarKnown'
  BY BarsStay DEF WindowsInv
<1> QED
  BY <1>6, <1>7, <1>9, <1>10 DEF WindowsInv

\* Windows that keep their panes have grown, trivially.
LEMMA GrowSame ==
  ASSUME v1'.wins = v1.wins, v1.cut \subseteq v1'.cut, v1.closed \subseteq v1'.closed, WindowTypes
  PROVE  Grow /\ AllPlain
<1>1. v1.wins \in Seq(Seq(Panes)) /\ Len(v1.wins) \in Nat
  BY LenProperties DEF WindowTypes, Worlds
<1>2. \A w \in 1 .. Len(v1.wins) : Len(v1.wins[w]) \in Nat
  <2> SUFFICES ASSUME NEW w \in 1 .. Len(v1.wins)  PROVE Len(v1.wins[w]) \in Nat
    OBVIOUS
  <2>1. v1.wins[w] \in Seq(Panes)
    BY <1>1, ElementOfSeq
  <2> QED
    BY <2>1, LenProperties
<1>3. \A w \in 1 .. Len(v1.wins) : \A i \in 1 .. Len(v1.wins[w]) :
        PaneGrows(w, i, v1.wins[w][i], v1'.wins[w][i])
  <2> SUFFICES ASSUME NEW w \in 1 .. Len(v1.wins), NEW i \in 1 .. Len(v1.wins[w])
               PROVE  PaneGrows(w, i, v1.wins[w][i], v1.wins[w][i])
    OBVIOUS
  <2> QED
    BY DEF PaneGrows
<1>4. \A w \in 1 .. Len(v1.wins) : Len(v1.wins[w]) <= Len(v1'.wins[w])
  BY <1>2
<1>5. Len(v1.wins) <= Len(v1'.wins)
  BY <1>1
<1>6. Grow
  BY <1>3, <1>4, <1>5, Zenon DEF Grow
<1> QED
  BY <1>6 DEF AllPlain, Plain

\* A window gets one pane more.
LEMMA WithPane ==
  ASSUME NEW wins \in Seq(Seq(Panes)), NEW w \in 1 .. Len(wins), NEW p \in Panes,
         NEW new, new = [wins EXCEPT ![w] = Append(@, p)]
  PROVE  /\ new \in Seq(Seq(Panes)) /\ Len(new) = Len(wins)
         /\ \A u \in 1 .. Len(wins) : u # w => new[u] = wins[u]
         /\ Len(wins[w]) \in Nat /\ Len(new[w]) = Len(wins[w]) + 1 /\ new[w][Len(wins[w]) + 1] = p
         /\ \A i \in 1 .. Len(wins[w]) : new[w][i] = wins[w][i]
<1>1. wins[w] \in Seq(Panes)
  BY ElementOfSeq
<1> DEFINE win == Append(wins[w], p)
<1>2. /\ win \in Seq(Panes) /\ Len(wins[w]) \in Nat /\ Len(win) = Len(wins[w]) + 1 /\ win[Len(wins[w]) + 1] = p
      /\ \A i \in 1 .. Len(wins[w]) : win[i] = wins[w][i]
  BY <1>1, AppendProperties, LenProperties
<1>3. new = [wins EXCEPT ![w] = win]
  OBVIOUS
<1> HIDE DEF win
<1>4. /\ new \in Seq(Seq(Panes)) /\ Len(new) = Len(wins)
      /\ \A u \in 1 .. Len(wins) : new[u] = IF u = w THEN win ELSE wins[u]
  <2> DEFINE c == [wins EXCEPT ![w] = win]
  <2>1. win \in Seq(Panes)
    BY <1>2
  <2>2. /\ c \in Seq(Seq(Panes)) /\ Len(c) = Len(wins)
        /\ \A u \in 1 .. Len(wins) : c[u] = IF u = w THEN win ELSE wins[u]
    BY <2>1, ExceptSeq, SMT
  <2> QED
    BY <1>3, <2>2
<1> QED
  BY <1>2, <1>4

\* A pane of a window is changed.
LEMMA WithMark ==
  ASSUME NEW wins \in Seq(Seq(Panes)), NEW w \in 1 .. Len(wins), NEW i \in 1 .. Len(wins[w]), NEW p \in Panes,
         NEW win, win = [wins[w] EXCEPT ![i] = p], NEW new, new = [wins EXCEPT ![w] = win]
  PROVE  /\ new \in Seq(Seq(Panes)) /\ Len(new) = Len(wins)
         /\ \A u \in 1 .. Len(wins) : Len(new[u]) = Len(wins[u])
         /\ \A u \in 1 .. Len(wins) : \A k \in 1 .. Len(wins[u]) : u # w \/ k # i => new[u][k] = wins[u][k]
         /\ new[w][i] = p
<1>1. wins[w] \in Seq(Panes)
  BY ElementOfSeq
<1>2. /\ win \in Seq(Panes) /\ Len(win) = Len(wins[w])
      /\ \A k \in 1 .. Len(wins[w]) : win[k] = IF k = i THEN p ELSE wins[w][k]
  <2> DEFINE c == [wins[w] EXCEPT ![i] = p]
  <2>1. /\ c \in Seq(Panes) /\ Len(c) = Len(wins[w])
        /\ \A k \in 1 .. Len(wins[w]) : c[k] = IF k = i THEN p ELSE wins[w][k]
    BY <1>1, ExceptSeq, SMT
  <2> QED
    BY <2>1
<1>3. /\ new \in Seq(Seq(Panes)) /\ Len(new) = Len(wins)
      /\ \A u \in 1 .. Len(wins) : new[u] = IF u = w THEN win ELSE wins[u]
  <2> DEFINE c == [wins EXCEPT ![w] = win]
  <2>1. /\ c \in Seq(Seq(Panes)) /\ Len(c) = Len(wins)
        /\ \A u \in 1 .. Len(wins) : c[u] = IF u = w THEN win ELSE wins[u]
    BY <1>2, ExceptSeq, SMT
  <2> QED
    BY <2>1
<1> QED
  BY <1>2, <1>3

\* A pane of a window gets a mark.
LEMMA GrowMark ==
  ASSUME WindowTypes, NEW w \in 1 .. Len(v1.wins), NEW i \in 1 .. Len(v1.wins[w]),
         NEW f \in {"bar", "tag", "runs", "open"}, v1'.wins = [v1.wins EXCEPT ![w][i][f] = TRUE],
         v1.cut \subseteq v1'.cut, v1.closed \subseteq v1'.closed,
         f = "tag" => w \in v1'.cut \/ (v1.wins[w][i].bar /\ InHand(w, i)'),
         f = "bar" => v1.wins[w][i].bar, f = "open" => v1.wins[w][i].open
  PROVE  /\ Grow /\ AllPlain /\ v1'.wins \in Seq(Seq(Panes)) /\ Len(v1'.wins) = Len(v1.wins)
         /\ \A u \in 1 .. Len(v1.wins) : Len(v1'.wins[u]) = Len(v1.wins[u])
<1> DEFINE wins == v1.wins
           new == v1'.wins
           p == wins[w][i]
           q == new[w][i]
<1>1. wins \in Seq(Seq(Panes)) /\ Len(wins) \in Nat /\ \A u \in 1 .. Len(wins) : Len(wins[u]) \in Nat
  <2>1. wins \in Seq(Seq(Panes))
    BY DEF WindowTypes, Worlds
  <2>2. \A u \in 1 .. Len(wins) : wins[u] \in Seq(Panes)
    BY <2>1, ElementOfSeq
  <2> QED
    BY <2>1, <2>2, LenProperties
<1>2. /\ new \in Seq(Seq(Panes)) /\ Len(new) = Len(wins)
      /\ \A u \in 1 .. Len(wins) : Len(new[u]) = Len(wins[u])
      /\ \A u \in 1 .. Len(wins) : \A k \in 1 .. Len(wins[u]) : u # w \/ k # i => new[u][k] = wins[u][k]
      /\ q = [p EXCEPT ![f] = TRUE] /\ p \in Panes
  <2> DEFINE r == [p EXCEPT ![f] = TRUE]
             win == [wins[w] EXCEPT ![i] = r]
  <2>1. p \in Panes
    BY <1>1, ElementOfSeq
  <2>2. r \in Panes
    BY <2>1 DEF Panes
  <2>3. new = [wins EXCEPT ![w] = win]
    OBVIOUS
  <2>4. w \in 1 .. Len(wins) /\ i \in 1 .. Len(wins[w]) /\ win = [wins[w] EXCEPT ![i] = r]
    OBVIOUS
  <2> HIDE DEF r, win, wins, new
  <2>5. /\ new \in Seq(Seq(Panes)) /\ Len(new) = Len(wins)
        /\ \A u \in 1 .. Len(wins) : Len(new[u]) = Len(wins[u])
        /\ \A u \in 1 .. Len(wins) : \A k \in 1 .. Len(wins[u]) : u # w \/ k # i => new[u][k] = wins[u][k]
        /\ new[w][i] = r
    BY ONLY <1>1, <2>2, <2>3, <2>4, WithMark, SMT
  <2> QED
    BY <2>1, <2>5 DEF r
<1> HIDE DEF p, q
<1>3. (p.bar => q.bar) /\ (p.tag => q.tag) /\ (p.runs => q.runs) /\ (p.open => q.open)
  BY <1>2 DEF Panes
<1>4. /\ (q.tag => p.tag \/ f = "tag") /\ (f = "tag" => q.bar = p.bar)
      /\ q.bar /\ q.open => p.bar /\ p.open
  <2>1. (f = "bar" => p.bar) /\ (f = "open" => p.open)
    BY DEF p
  <2> QED
    BY <1>2, <2>1 DEF Panes
<1>5. PaneGrows(w, i, p, q)
  <2>1. q.tag => p.tag \/ w \in v1'.cut \/ (q.bar /\ InHand(w, i)')
    BY <1>4 DEF p
  <2> QED
    BY <1>3, <1>4, <2>1, Zenon DEF PaneGrows
<1>6. \A u \in 1 .. Len(wins) : \A k \in 1 .. Len(wins[u]) : PaneGrows(u, k, wins[u][k], new[u][k])
  <2> SUFFICES ASSUME NEW u \in 1 .. Len(wins), NEW k \in 1 .. Len(wins[u])
               PROVE  PaneGrows(u, k, wins[u][k], new[u][k])
    OBVIOUS
  <2>1. CASE u = w /\ k = i
    BY <1>5, <2>1 DEF p, q
  <2>2. CASE ~ (u = w /\ k = i)
    <3>1. new[u][k] = wins[u][k]
      BY <1>2, <2>2
    <3>2. PaneGrows(u, k, wins[u][k], wins[u][k])
      BY Zenon DEF PaneGrows
    <3> QED
      BY <3>1, <3>2
  <2> QED
    BY <2>1, <2>2
<1> HIDE DEF wins, new
<1>7. \A u \in 1 .. Len(new) : \A k \in 1 .. Len(new[u]) : u \in 1 .. Len(wins) /\ k \in 1 .. Len(wins[u])
  BY <1>2
<1>8. Len(wins) <= Len(new) /\ \A u \in 1 .. Len(wins) : Len(wins[u]) <= Len(new[u])
  BY <1>1, <1>2
<1>9. Grow
  BY <1>6, <1>7, <1>8, Zenon DEF Grow, wins, new
<1>10. AllPlain
  BY <1>7 DEF AllPlain, Plain, wins, new
<1> QED
  BY <1>2, <1>9, <1>10 DEF wins, new

\* A window that gets a pane has grown, and its new pane is the last.
LEMMA GrowPane ==
  ASSUME WindowTypes, NEW w \in 1 .. Len(v1.wins), v1'.wins = [v1.wins EXCEPT ![w] = Append(@, Windows!Bare)],
         v1.cut \subseteq v1'.cut, v1.closed \subseteq v1'.closed
  PROVE  /\ Grow /\ v1'.wins \in Seq(Seq(Panes)) /\ Len(v1'.wins) = Len(v1.wins)
         /\ Len(v1.wins[w]) \in Nat /\ Len(v1'.wins[w]) = Len(v1.wins[w]) + 1
         /\ v1'.wins[w][Len(v1.wins[w]) + 1].bar
         /\ \A u \in 1 .. Len(v1.wins) : Len(v1'.wins[u]) \in Nat /\ Len(v1'.wins[u]) >= Len(v1.wins[u])
         /\ \A u \in 1 .. Len(v1.wins) : \A k \in 1 .. Len(v1.wins[u]) : v1'.wins[u][k] = v1.wins[u][k]
         /\ \A u \in 1 .. Len(v1.wins) : u # w => Plain(u)
<1> DEFINE wins == v1.wins
           new == v1'.wins
           m == Len(wins[w])
           p == Windows!Bare
<1>1. p \in Panes /\ p.bar /\ p.open /\ ~ p.tag
  BY DEF Windows!Bare, Windows!Own, Panes
<1>2. wins \in Seq(Seq(Panes)) /\ Len(wins) \in Nat /\ \A u \in 1 .. Len(wins) : Len(wins[u]) \in Nat
  <2>1. wins \in Seq(Seq(Panes))
    BY DEF WindowTypes, Worlds
  <2>2. \A u \in 1 .. Len(wins) : wins[u] \in Seq(Panes)
    BY <2>1, ElementOfSeq
  <2> QED
    BY <2>1, <2>2, LenProperties
<1> HIDE DEF p
<1>3. /\ new \in Seq(Seq(Panes)) /\ Len(new) = Len(wins)
      /\ \A u \in 1 .. Len(wins) : u # w => new[u] = wins[u]
      /\ Len(new[w]) = m + 1 /\ new[w][m + 1] = p
      /\ \A i \in 1 .. m : new[w][i] = wins[w][i]
  <2>1. new = [wins EXCEPT ![w] = Append(@, p)]
    BY DEF p
  <2> QED
    BY <1>1, <1>2, <2>1, WithPane
<1>4. \A u \in 1 .. Len(wins) : \A k \in 1 .. Len(wins[u]) : new[u][k] = wins[u][k]
  BY <1>3
<1>5. \A u \in 1 .. Len(wins) : \A k \in 1 .. Len(wins[u]) : PaneGrows(u, k, wins[u][k], new[u][k])
  <2> SUFFICES ASSUME NEW u \in 1 .. Len(wins), NEW k \in 1 .. Len(wins[u])
               PROVE  PaneGrows(u, k, wins[u][k], new[u][k])
    OBVIOUS
  <2>1. PaneGrows(u, k, wins[u][k], wins[u][k])
    BY Zenon DEF PaneGrows
  <2> QED
    BY <1>4, <2>1
<1> HIDE DEF wins, new, m
<1>6. Len(wins) <= Len(new) /\ m \in Nat /\ \A u \in 1 .. Len(wins) : Len(new[u]) \in Nat /\ Len(wins[u]) <= Len(new[u])
  <2>1. Len(wins) <= Len(new) /\ m \in Nat
    BY <1>2, <1>3 DEF m
  <2>2. ASSUME NEW u \in 1 .. Len(wins)
        PROVE  Len(new[u]) \in Nat /\ Len(wins[u]) <= Len(new[u])
    <3>1. CASE u = w
      <4>1. Len(new[u]) = m + 1 /\ Len(wins[u]) = m
        BY <1>3, <3>1 DEF m
      <4> QED
        BY <2>1, <4>1
    <3>2. CASE u # w
      <4>1. Len(new[u]) = Len(wins[u]) /\ Len(wins[u]) \in Nat
        BY <1>2, <1>3, <3>2
      <4> QED
        BY <4>1
    <3> QED
      BY <3>1, <3>2
  <2> QED
    BY <2>1, <2>2
<1>7. ASSUME NEW u \in 1 .. Len(new), NEW k \in 1 .. Len(new[u])
      PROVE  \/ u \in 1 .. Len(wins) /\ k \in 1 .. Len(wins[u])
             \/ new[u][k].open /\ ~ new[u][k].tag
  <2>1. CASE u # w
    BY <1>3, <2>1
  <2>2. CASE u = w
    <3>1. k \in 1 .. m \/ k = m + 1
      BY <1>3, <1>6, <2>2
    <3> QED
      BY <1>1, <1>3, <2>2, <3>1 DEF m
  <2> QED
    BY <2>1, <2>2
<1>8. Grow
  BY <1>5, <1>6, <1>7, Zenon DEF Grow, wins, new
<1>9. \A u \in 1 .. Len(wins) : u # w => Plain(u)
  BY <1>3 DEF Plain, wins, new
<1> QED
  BY <1>1, <1>3, <1>4, <1>6, <1>8, <1>9 DEF wins, new, m

\* A command takes its next step.
LEMMA TodoGoes ==
  ASSUME WindowsInv, v2.todo # <<>>, v2'.todo = Tail(v2.todo), v2'.run = v2.run,
         Len(v1'.wins) \in Nat, Len(v1.wins) <= Len(v1'.wins),
         Head(v2.todo).do = "new-session" => Len(v1'.wins) > 0
  PROVE  /\ TodoReady' /\ v2'.todo \in Seq(TerminalSteps) /\ Head(v2.todo) \in TerminalSteps
         /\ \A w : ToVisit(w) => ToVisit(w)' \/ (Head(v2.todo).do \in {"list-panes", "keys"} /\ Head(v2.todo).win = w)
         /\ v2'.todo # <<>> => Head(v2'.todo) \in TerminalSteps /\ Follows(Head(v2.todo), Head(v2'.todo))
         /\ Head(v2.todo).do \in {"has-none", "split", "title", "tag"} => v2'.todo # <<>>
         /\ Head(v2.todo).do \in InWindow => Head(v2.todo).win \in 1 .. Len(v1.wins)
<1> DEFINE todo == v2.todo
           rest == v2'.todo
<1>1. /\ todo \in Seq(TerminalSteps) /\ WellOrdered(todo) /\ v2.run # "none" /\ Len(v1.wins) \in Nat
      /\ \A i \in 1 .. Len(todo) : todo[i].do \in InWindow =>
           todo[i].win \in 1 .. Len(v1.wins) \/ (todo[i].win = 1 /\ Head(todo).do \in {"has-none", "new-session"})
  BY LenProperties DEF WindowsInv, WindowTypes, Worlds, Jobs, TodoReady
<1>2. /\ WellOrdered(rest) /\ Head(todo) \in TerminalSteps
      /\ rest # <<>> => Head(rest) \in TerminalSteps /\ Follows(Head(todo), Head(rest))
      /\ Head(todo).do \in {"has-none", "split", "title", "tag"} => rest # <<>>
  BY <1>1, OrderedTail
<1>3. /\ Len(todo) \in Nat /\ Len(todo) > 0 /\ Head(todo) = todo[1] /\ rest \in Seq(TerminalSteps)
      /\ \A i \in 1 .. Len(rest) : i + 1 \in 1 .. Len(todo) /\ rest[i] = todo[i + 1]
      /\ \A i \in 2 .. Len(todo) : i - 1 \in 1 .. Len(rest) /\ rest[i - 1] = todo[i]
  BY <1>1, HeadTail
<1>4. \A i \in 1 .. Len(v1.wins) : i \in 1 .. Len(v1'.wins)
  BY <1>1
<1>5. Head(todo).do = "new-session" => 1 \in 1 .. Len(v1'.wins)
  OBVIOUS
<1> HIDE DEF todo, rest
<1>6. Head(todo).do = "has-none" => Head(rest).do = "new-session"
  BY <1>2 DEF Follows
<1>7. \A i \in 1 .. Len(rest) : rest[i].do \in InWindow =>
        rest[i].win \in 1 .. Len(v1'.wins) \/ (rest[i].win = 1 /\ Head(rest).do \in {"has-none", "new-session"})
  <2> SUFFICES ASSUME NEW i \in 1 .. Len(rest), rest[i].do \in InWindow
               PROVE  \/ rest[i].win \in 1 .. Len(v1'.wins)
                      \/ rest[i].win = 1 /\ Head(rest).do \in {"has-none", "new-session"}
    OBVIOUS
  <2>1. \/ rest[i].win \in 1 .. Len(v1.wins)
        \/ rest[i].win = 1 /\ Head(todo).do \in {"has-none", "new-session"}
    BY <1>1, <1>3
  <2>2. CASE rest[i].win \in 1 .. Len(v1.wins)
    BY <1>4, <2>2
  <2>3. CASE rest[i].win = 1 /\ Head(todo).do = "has-none"
    BY <1>6, <2>3
  <2>4. CASE rest[i].win = 1 /\ Head(todo).do = "new-session"
    BY <1>5, <2>4
  <2> QED
    BY <2>1, <2>2, <2>3, <2>4
<1>8. TodoReady'
  BY <1>1, <1>2, <1>7, Zenon DEF TodoReady, rest
<1>9. ASSUME NEW w, ToVisit(w)
      PROVE  ToVisit(w)' \/ (Head(todo).do \in {"list-panes", "keys"} /\ Head(todo).win = w)
  <2>1. CASE \E i \in 1 .. Len(todo) : todo[i] = Windows!Step("list-panes", w)
    <3>1. PICK i \in 1 .. Len(todo) : todo[i] = Windows!Step("list-panes", w)
      BY <2>1
    <3>2. CASE i = 1
      BY <1>3, <3>1, <3>2 DEF Windows!Step
    <3>3. CASE i # 1
      <4>1. i \in 2 .. Len(todo)
        BY <1>3, <3>3
      <4> QED
        BY <1>3, <3>1, <4>1 DEF ToVisit, rest
    <3> QED
      BY <3>2, <3>3
  <2>2. CASE todo # <<>> /\ Head(todo).do \in {"split", "title", "tag", "keys"} /\ Head(todo).win = w
    <3>1. CASE Head(todo).do = "keys"
      BY <2>2, <3>1
    <3>2. CASE Head(todo).do \in {"split", "title", "tag"}
      <4>1. Head(rest).do \in {"title", "tag", "keys"} /\ Head(rest).win = w /\ rest # <<>>
        BY <1>2, <2>2, <3>2 DEF Follows
      <4> QED
        BY <4>1 DEF ToVisit, rest
    <3> QED
      BY <2>2, <3>1, <3>2
  <2> QED
    BY <1>9, <2>1, <2>2 DEF ToVisit, todo
<1>10. Head(todo).do \in InWindow => Head(todo).win \in 1 .. Len(v1.wins)
  <2>1. 1 \in 1 .. Len(todo)
    BY <1>3
  <2> QED
    BY <1>1, <1>3, <2>1 DEF InWindow
<1> QED
  BY <1>2, <1>3, <1>8, <1>9, <1>10 DEF todo, rest

\* What a step leaves of the job's own half of the invariant.
LEMMA JobStays ==
  ASSUME WindowsInv, Grow, v1' \in Worlds, v2'.todo = v2.todo, v2'.run = v2.run, v2'.pane = v2.pane
  PROVE  TodoReady' /\ PaneMade'
<1>1. /\ Len(v1.wins) \in Nat /\ Len(v1'.wins) \in Nat /\ Len(v1.wins) <= Len(v1'.wins)
      /\ v1.wins \in Seq(Seq(Panes)) /\ v1'.wins \in Seq(Seq(Panes))
  BY LenProperties DEF WindowsInv, WindowTypes, Worlds, Grow
<1>2. \A w \in 1 .. Len(v1.wins) : w \in 1 .. Len(v1'.wins)
  BY <1>1
<1>3. TodoReady'
  BY <1>2 DEF WindowsInv, TodoReady
<1>4. ASSUME v2.todo # <<>>, Head(v2.todo).do \in {"title", "tag", "keys"}
      PROVE  Head(v2.todo).win \in 1 .. Len(v1.wins)
  <2>1. v2.todo \in Seq(TerminalSteps)
    BY DEF WindowsInv, WindowTypes, Jobs
  <2>2. Head(v2.todo) = v2.todo[1] /\ 1 \in 1 .. Len(v2.todo)
    BY <1>4, <2>1, HeadTail
  <2> QED
    BY <1>4, <2>2 DEF WindowsInv, TodoReady, InWindow
<1>5. \A w \in 1 .. Len(v1.wins) :
        Len(v1.wins[w]) \in Nat /\ Len(v1'.wins[w]) \in Nat /\ Len(v1.wins[w]) <= Len(v1'.wins[w])
  <2> SUFFICES ASSUME NEW w \in 1 .. Len(v1.wins)
               PROVE  Len(v1.wins[w]) \in Nat /\ Len(v1'.wins[w]) \in Nat
    BY DEF Grow
  <2>1. v1.wins[w] \in Seq(Panes) /\ v1'.wins[w] \in Seq(Panes)
    BY <1>1, <1>2, ElementOfSeq
  <2> QED
    BY <2>1, LenProperties
<1>6. \A w \in 1 .. Len(v1.wins) : \A i \in 1 .. Len(v1.wins[w]) : i \in 1 .. Len(v1'.wins[w])
  BY <1>5
<1>7. PaneMade'
  BY <1>4, <1>6 DEF WindowsInv, PaneMade, Grow, PaneGrows
<1> QED
  BY <1>3, <1>7

\* And of a script's.
LEMMA ScriptKept ==
  ASSUME WindowsInv, Grow, v1' \in Worlds, NEW s \in v2.scripts
  PROVE  /\ s.own \in 1 .. Len(v1'.wins)
         /\ s.pane > 0 =>
              /\ s.win \in 1 .. Len(v1'.wins) /\ s.pane \in 1 .. Len(v1'.wins[s.win])
              /\ v1'.wins[s.win][s.pane].bar /\ (s.win \notin v1'.cut => s.own = s.win)
<1>1. ScriptHas(s)
  BY DEF WindowsInv, ScriptReady
<1>2. /\ v1.wins \in Seq(Seq(Panes)) /\ v1'.wins \in Seq(Seq(Panes))
      /\ Len(v1.wins) \in Nat /\ Len(v1'.wins) \in Nat /\ Len(v1.wins) <= Len(v1'.wins)
  BY LenProperties DEF WindowsInv, WindowTypes, Worlds, Grow
<1>3. \A w \in 1 .. Len(v1.wins) : w \in 1 .. Len(v1'.wins)
  BY <1>2
<1>4. ASSUME NEW w \in 1 .. Len(v1.wins), NEW i \in 1 .. Len(v1.wins[w])
      PROVE  i \in 1 .. Len(v1'.wins[w])
  <2>1. v1.wins[w] \in Seq(Panes) /\ v1'.wins[w] \in Seq(Panes)
    BY <1>2, <1>3, ElementOfSeq
  <2>2. Len(v1.wins[w]) \in Nat /\ Len(v1'.wins[w]) \in Nat /\ Len(v1.wins[w]) <= Len(v1'.wins[w])
    BY <2>1, LenProperties DEF Grow
  <2> QED
    BY <2>2
<1> QED
  BY <1>1, <1>3, <1>4 DEF ScriptHas, Grow, PaneGrows

\* With all scripts as they were, nothing of theirs changes.
LEMMA ScriptStays ==
  ASSUME WindowsInv, Grow, v1' \in Worlds, v2'.scripts = v2.scripts
  PROVE  ScriptReady'
<1>1. \A s \in v2.scripts : s.at = "split" => s.pane = 0
  BY DEF WindowsInv, ScriptReady, ScriptHas
<1>2. \A s, t \in v2.scripts : s.own = t.own => s = t
  BY DEF WindowsInv, ScriptReady
<1> QED
  BY <1>1, <1>2, ScriptKept DEF ScriptReady, ScriptHas

\* No window comes, and those there are lose no pane.
LEMMA TypesStay ==
  ASSUME WindowTypes, Grow, Len(v1'.wins) = Len(v1.wins), v1'.current = v1.current, v1' \in Worlds, v2' \in Jobs
  PROVE  WindowTypes'
<1>1. \A w \in 1 .. Len(v1.wins) : Len(v1.wins[w]) \in Nat /\ Len(v1'.wins[w]) \in Nat
  <2> SUFFICES ASSUME NEW w \in 1 .. Len(v1.wins)
               PROVE  Len(v1.wins[w]) \in Nat /\ Len(v1'.wins[w]) \in Nat
    OBVIOUS
  <2>1. v1.wins \in Seq(Seq(Panes)) /\ v1'.wins \in Seq(Seq(Panes))
    BY DEF WindowTypes, Worlds
  <2>2. v1.wins[w] \in Seq(Panes) /\ v1'.wins[w] \in Seq(Panes)
    BY <2>1, ElementOfSeq
  <2> QED
    BY <2>2, LenProperties
<1>2. \A w \in 1 .. Len(v1.wins) : Len(v1.wins[w]) > 0 /\ Len(v1.wins[w]) <= Len(v1'.wins[w])
  BY DEF WindowTypes, Grow
<1>3. \A w \in 1 .. Len(v1.wins) : Len(v1'.wins[w]) > 0
  BY <1>1, <1>2
<1> QED
  BY <1>3 DEF WindowTypes

\* A job that ends, or goes on, is one still.
LEMMA JobEnds ==
  ASSUME v2 \in Jobs, v2' \in {Windows!Ended, [Windows!Ended EXCEPT !.fails = @ + 1]}
  PROVE  /\ v2' \in Jobs /\ v2'.run = "none" /\ v2'.todo = <<>>
         /\ v2'.pane = v2.pane /\ v2'.scripts = v2.scripts
<1>1. v2.fails + 1 \in Nat /\ <<>> \in Seq(TerminalSteps)
  BY DEF Jobs
<1> QED
  BY <1>1 DEF Windows!Ended, Jobs

\* The program drops its first step and keeps the rest of its record.
LEMMA JobGoes ==
  ASSUME v2 \in Jobs, v2.todo # <<>>, Windows!Go
  PROVE  /\ v2' \in Jobs /\ v2'.todo = Tail(v2.todo) /\ v2'.run = v2.run /\ v2'.listed = v2.listed
         /\ v2'.pane = v2.pane /\ v2'.scripts = v2.scripts
<1>1. v2.todo \in Seq(TerminalSteps)
  BY DEF Jobs
<1>2. Tail(v2.todo) \in Seq(TerminalSteps)
  BY <1>1, HeadTail
<1> QED
  BY <1>2 DEF Windows!Go, Jobs

\* A command may end anywhere, if it marks the window in which it had a pane in hand.
LEMMA RunEnds ==
  ASSUME WindowsInv, WindowTypes', Grow, AllPlain,
         v2' \in {Windows!Ended, [Windows!Ended EXCEPT !.fails = @ + 1]},
         v2.todo # <<>> /\ Head(v2.todo).do \in {"title", "tag", "keys"} => Head(v2.todo).win \in v1'.cut
  PROVE  WindowsInv'
<1>1. v2'.run = "none" /\ v2'.todo = <<>> /\ v2'.scripts = v2.scripts
  BY JobEnds DEF WindowsInv, WindowTypes
<1>2. ScriptReady'
  BY <1>1, ScriptStays DEF WindowTypes
<1>3. TodoReady' /\ PaneMade'
  BY <1>1 DEF TodoReady, PaneMade, WellOrdered, Chained
<1>4. \A w, i : InHand(w, i) => InHand(w, i)' \/ w \in v1'.cut
  BY <1>1 DEF InHand
<1>5. \A w, i : Making(w, i) => Making(w, i)' \/ w \in v1'.cut
  BY <1>1 DEF Making
<1>6. SplitAlone' /\ ScriptFirst' /\ BarsGrow
  <2>1. \A w \in 1 .. Len(v1.wins) : Plain(w)
    <3>1. Len(v1.wins) \in Nat /\ Len(v1'.wins) \in Nat /\ Len(v1.wins) <= Len(v1'.wins)
      BY LenProperties DEF WindowsInv, WindowTypes, Worlds, Grow
    <3>2. \A w \in 1 .. Len(v1.wins) : w \in 1 .. Len(v1'.wins)
      BY <3>1
    <3> QED
      BY <3>2 DEF AllPlain
  <2> QED
    BY <1>1, <2>1, ScriptFirstStays DEF SplitAlone, AllPlain, BarsGrow
<1> QED
  BY <1>1, <1>2, <1>3, <1>4, <1>5, <1>6, WindowsStep

\* A command goes on when its step has done what the next one needs.
LEMMA RunGoes ==
  ASSUME WindowsInv, WindowTypes', Grow, v2.todo # <<>>, v2'.todo = Tail(v2.todo),
         v2'.run = v2.run, v2'.listed = v2.listed, v2'.scripts = v2.scripts,
         Head(v2.todo).do = "new-session" => Len(v1'.wins) > 0,
         Head(v2.todo).do \in {"split", "title", "tag"} => PaneMade',
         \A w : Head(v2.todo).do \in {"list-panes", "keys"} /\ Head(v2.todo).win = w =>
           HasSidebar(w)' \/ w \in v1'.cut \cup v1'.closed,
         Head(v2.todo).do = "keys" => v1'.wins[Head(v2.todo).win][v2.pane].runs,
         Head(v2.todo).do = "title" => v2'.pane = v2.pane,
         Head(v2.todo).do = "tag" => v1'.wins[Head(v2.todo).win][v2.pane].tag,
         Head(v2.todo).do = "new-session" => SplitAlone',
         BarsGrow,
         \A w \in 1 .. Len(v1.wins) : w \notin v1'.cut /\ Windows!ScriptIn(w) => Plain(w)
  PROVE  WindowsInv'
<1>1. Len(v1'.wins) \in Nat
  BY LenProperties DEF WindowTypes, Worlds
<1>2. /\ TodoReady'
      /\ \A w : ToVisit(w) => ToVisit(w)' \/ (Head(v2.todo).do \in {"list-panes", "keys"} /\ Head(v2.todo).win = w)
      /\ v2'.todo # <<>> => Follows(Head(v2.todo), Head(v2'.todo))
      /\ Head(v2.todo).do = "title" => v2'.todo # <<>>
  BY <1>1, TodoGoes DEF Grow
<1>3. PaneMade'
  BY <1>2 DEF PaneMade, Follows
<1>4. ScriptReady'
  BY ScriptStays DEF WindowTypes
<1>5. \A w, i : InHand(w, i) => InHand(w, i)' \/ v1'.wins[w][i].runs
  BY DEF InHand
<1>6. v2'.run # "none" => \A w \in v2'.listed :
        \/ w \in v1'.cut \cup v1'.closed \/ ToVisit(w)' \/ HasSidebar(w)'
        \/ v2.run # "none" /\ w \in v2.listed /\ ~ ToVisit(w)
  BY <1>2
<1>7. \A w, i : Making(w, i) => Making(w, i)' \/ v1'.wins[w][i].tag
  <2>1. Head(v2.todo).do = "title" =>
          v2'.todo # <<>> /\ Head(v2'.todo).do = "tag" /\ Head(v2'.todo).win = Head(v2.todo).win
    BY <1>2 DEF Follows
  <2> QED
    BY <2>1 DEF Making
<1>8. SplitAlone'
  BY <1>2 DEF SplitAlone, Follows
<1>9. ScriptFirst'
  BY ScriptFirstStays
<1> QED
  BY <1>2, <1>3, <1>4, <1>5, <1>6, <1>7, <1>8, <1>9, WindowsStep

\* tmux as it was, but that a window may have been marked.
LEMMA SameWorld ==
  ASSUME WindowsInv, NEW w \in Nat, v1' \in {v1, [v1 EXCEPT !.cut = @ \cup {w}], [v1 EXCEPT !.hook = TRUE]}, v2' \in Jobs
  PROVE  /\ WindowTypes' /\ Grow /\ v1'.wins = v1.wins /\ AllPlain /\ BarsGrow
         /\ \A u \in 1 .. Len(v1.wins) : Plain(u)
         /\ v1' = [v1 EXCEPT !.cut = @ \cup {w}] => w \in v1'.cut
<1>1. v1 \in Worlds /\ WindowTypes
  BY DEF WindowsInv, WindowTypes
<1> DEFINE S == Seq(Seq(Panes))
<1> HIDE DEF S
<1>2. v1 \in [wins : S, current : Nat, hook : BOOLEAN, cut : SUBSET Nat, closed : SUBSET Nat]
  BY <1>1 DEF Worlds, S
<1>3. /\ v1' \in [wins : S, current : Nat, hook : BOOLEAN, cut : SUBSET Nat, closed : SUBSET Nat]
      /\ v1'.wins = v1.wins /\ v1.cut \subseteq v1'.cut /\ v1.closed \subseteq v1'.closed /\ v1'.current = v1.current
      /\ v1' = [v1 EXCEPT !.cut = @ \cup {w}] => w \in v1'.cut
  BY <1>2
<1>4. v1' \in Worlds
  BY <1>3 DEF Worlds, S
<1>5. Grow /\ AllPlain
  BY <1>1, <1>3, GrowSame
<1>6. BarsGrow /\ \A u \in 1 .. Len(v1.wins) : Plain(u)
  BY <1>3, <1>5 DEF BarsGrow, AllPlain
<1> QED
  BY <1>1, <1>3, <1>4, <1>5, <1>6, TypesStay

\* A command is given.
LEMMA WindowsStart ==
  ASSUME WindowsInv, Windows!Create \/ Windows!Attach
  PROVE  WindowsInv'
<1> DEFINE create == <<Windows!Step("has-none", 0), Windows!Step("new-session", 0)>> \o Windows!Inject(1)
                       \o <<Windows!Step("split-shell", 1), Windows!Step("type-agent", 1)>> \o Windows!Hooks
           attach == <<Windows!Step("has", 0), Windows!Step("list-windows", 0)>>
<1>1. PICK run \in {"create", "attach"}, steps \in {create, attach} : Windows!Start(run, steps)
  BY DEF Windows!Create, Windows!Attach
<1>2. /\ WellOrdered(steps) /\ steps # <<>> /\ Head(steps).do \in {"has-none", "has"}
      /\ \A i \in 1 .. Len(steps) : steps[i].do \in InWindow => steps[i].win = 1 /\ Head(steps).do = "has-none"
  BY OrderedStart
<1> HIDE DEF create, attach
<1>3. /\ v2.run = "none" /\ v1' = v1 /\ v2 \in Jobs /\ v2.todo = <<>> /\ v2.runs + 1 \in Nat
      /\ v2' = [v2 EXCEPT !.run = run, !.todo = steps, !.listed = {}, !.runs = @ + 1]
  BY <1>1 DEF Windows!Start, WindowsInv, WindowTypes, TodoReady, Jobs
<1>4. steps \in Seq(TerminalSteps)
  BY <1>2 DEF WellOrdered, Chained
<1>5. /\ v2' \in Jobs /\ v2'.run = run /\ v2'.todo = steps /\ v2'.listed = {} /\ v2'.scripts = v2.scripts
  BY <1>3, <1>4 DEF Jobs
<1>6. WindowTypes' /\ Grow /\ BarsGrow /\ \A u \in 1 .. Len(v1.wins) : Plain(u)
  BY <1>3, <1>5, SameWorld
<1>7. TodoReady'
  BY <1>2, <1>5 DEF TodoReady
<1>8. PaneMade'
  BY <1>2, <1>5 DEF PaneMade
<1>9. ScriptReady'
  BY <1>5, <1>6, ScriptStays DEF WindowTypes
<1>10. \A w, i : (InHand(w, i) => InHand(w, i)') /\ (Making(w, i) => Making(w, i)')
  BY <1>3, <1>5 DEF InHand, Making
<1>11. SplitAlone' /\ ScriptFirst'
  BY <1>2, <1>5, <1>6, ScriptFirstStays DEF SplitAlone
<1> QED
  BY <1>5, <1>6, <1>7, <1>8, <1>9, <1>10, <1>11, WindowsStep

\* A command ends, or does a step that shows in no window.
LEMMA WindowsPlain ==
  ASSUME WindowsInv, Windows!Ends \/ Windows!HasSession \/ Windows!Other \/ Windows!SetWindowHook
  PROVE  WindowsInv'
<1>1. v2 \in Jobs /\ 0 \in Nat
  BY DEF WindowsInv, WindowTypes
<1>2. /\ v1' \in {v1, [v1 EXCEPT !.hook = TRUE]}
      /\ \/ v2' \in {Windows!Ended, [Windows!Ended EXCEPT !.fails = @ + 1]}
         \/ v2.todo # <<>> /\ Windows!Go
  BY DEF Windows!Ends, Windows!HasSession, Windows!Other, Windows!SetWindowHook, Windows!At, Windows!Breaks
<1>3. v2.todo # <<>> =>
        Head(v2.todo).do \notin {"new-session", "list-panes", "split", "title", "tag", "keys"}
  BY DEF Windows!Ends, Windows!HasSession, Windows!Other, Windows!SetWindowHook, Windows!At
<1>4. CASE v2' \in {Windows!Ended, [Windows!Ended EXCEPT !.fails = @ + 1]}
  <2>1. WindowTypes' /\ Grow /\ AllPlain
    BY <1>1, <1>2, <1>4, JobEnds, SameWorld
  <2> QED
    BY <1>3, <1>4, <2>1, RunEnds
<1>5. CASE v2.todo # <<>> /\ Windows!Go
  <2>1. /\ v2' \in Jobs /\ v2'.todo = Tail(v2.todo) /\ v2'.run = v2.run /\ v2'.listed = v2.listed
        /\ v2'.scripts = v2.scripts
    BY <1>1, <1>5, JobGoes
  <2>2. WindowTypes' /\ Grow /\ BarsGrow /\ \A u \in 1 .. Len(v1.wins) : Plain(u)
    BY <1>1, <1>2, <2>1, SameWorld
  <2> QED
    BY <1>3, <1>5, <2>1, <2>2, RunGoes
<1> QED
  BY <1>2, <1>4, <1>5

\* A session is made, with one window of one pane.
LEMMA WindowsNewSession ==
  ASSUME WindowsInv, Windows!NewSession
  PROVE  WindowsInv'
<1>1. /\ v1 \in Worlds /\ v2 \in Jobs /\ 0 \in Nat /\ v2.todo # <<>> /\ Head(v2.todo).do = "new-session"
      /\ v1.wins \in Seq(Seq(Panes))
  BY DEF WindowsInv, WindowTypes, Worlds, Windows!NewSession, Windows!At
<1> DEFINE win == <<Windows!Own>>
           new == <<win>>
           made == [v1 EXCEPT !.wins = new, !.current = 1]
<1>2. /\ new \in Seq(Seq(Panes)) /\ Len(new) = 1 /\ Len(new[1]) = 1
      /\ new[1][1].open /\ ~ new[1][1].tag /\ ~ new[1][1].bar
  <2>1. Windows!Own \in Panes /\ Windows!Own.open /\ ~ Windows!Own.tag /\ ~ Windows!Own.bar
    BY DEF Windows!Own, Panes
  <2>2. win \in Seq(Panes) /\ Len(win) = 1 /\ win[1] = Windows!Own
    BY <2>1
  <2> HIDE DEF win
  <2>3. new \in Seq(Seq(Panes)) /\ Len(new) = 1 /\ new[1] = win
    BY <2>2
  <2> QED
    BY <2>1, <2>2, <2>3
<1> HIDE DEF new
<1>3. ASSUME v1.wins = <<>>, v1' = made
      PROVE  /\ v1' \in Worlds /\ Grow /\ Len(v1'.wins) = 1 /\ v1'.current = 1
             /\ \A w \in 1 .. Len(v1'.wins) : Len(v1'.wins[w]) > 0
             /\ \A w \in 1 .. Len(v1'.wins) : \A i \in 1 .. Len(v1'.wins[w]) : ~ v1'.wins[w][i].bar
  <2>1. /\ v1' \in Worlds /\ v1'.wins = new /\ v1'.cut = v1.cut /\ v1'.closed = v1.closed /\ v1'.current = 1
    BY <1>1, <1>2, <1>3 DEF Worlds
  <2>2. Len(v1.wins) = 0
    BY <1>3
  <2>3. Len(v1'.wins) = 1 /\ \A w \in 1 .. 1 : w = 1
    BY <1>2, <2>1
  <2>4. \A w \in 1 .. Len(v1'.wins) : \A i \in 1 .. Len(v1'.wins[w]) :
          v1'.wins[w][i].open /\ ~ v1'.wins[w][i].tag /\ ~ v1'.wins[w][i].bar
    <3> SUFFICES ASSUME NEW w \in 1 .. Len(v1'.wins), NEW i \in 1 .. Len(v1'.wins[w])
                 PROVE  v1'.wins[w][i].open /\ ~ v1'.wins[w][i].tag /\ ~ v1'.wins[w][i].bar
      OBVIOUS
    <3>1. w = 1 /\ i = 1
      BY <1>2, <2>1, <2>3
    <3> QED
      BY <1>2, <2>1, <3>1
  <2>5. Len(v1.wins) <= Len(v1'.wins) /\ \A w \in 1 .. Len(v1.wins) : FALSE
    BY <1>2, <2>1, <2>2
  <2>6. Grow
    BY <2>1, <2>4, <2>5 DEF Grow
  <2>7. \A w \in 1 .. Len(v1'.wins) : Len(v1'.wins[w]) > 0
    <3> SUFFICES ASSUME NEW w \in 1 .. Len(v1'.wins)  PROVE Len(v1'.wins[w]) > 0
      OBVIOUS
    <3>1. v1'.wins[w] = new[1]
      BY <2>1, <2>3
    <3> QED
      BY <1>2, <3>1
  <2> QED
    BY <2>1, <2>3, <2>4, <2>6, <2>7
<1>4. \/ v1' = v1 /\ v2' \in {Windows!Ended, [Windows!Ended EXCEPT !.fails = @ + 1]}
      \/ v1.wins = <<>> /\ v1' = made /\ Windows!Go
      \/ v1.wins = <<>> /\ v1' = made /\ v2' \in {Windows!Ended, [Windows!Ended EXCEPT !.fails = @ + 1]}
  BY DEF Windows!NewSession, Windows!Breaks, Windows!Up, new
<1>5. CASE v1' = v1 /\ v2' \in {Windows!Ended, [Windows!Ended EXCEPT !.fails = @ + 1]}
  <2>1. WindowTypes' /\ Grow /\ AllPlain
    BY <1>1, <1>5, JobEnds, SameWorld
  <2> QED
    BY <1>1, <1>5, <2>1, RunEnds
<1>6. CASE v1.wins = <<>> /\ v1' = made /\ Windows!Go
  <2>1. /\ v2' \in Jobs /\ v2'.todo = Tail(v2.todo) /\ v2'.run = v2.run /\ v2'.listed = v2.listed
        /\ v2'.scripts = v2.scripts
    BY <1>1, <1>6, JobGoes
  <2>2. /\ v1' \in Worlds /\ Grow /\ Len(v1'.wins) = 1 /\ v1'.current = 1
        /\ \A w \in 1 .. Len(v1'.wins) : Len(v1'.wins[w]) > 0
        /\ \A w \in 1 .. Len(v1'.wins) : \A i \in 1 .. Len(v1'.wins[w]) : ~ v1'.wins[w][i].bar
    BY <1>3, <1>6
  <2>3. WindowTypes' /\ Len(v1'.wins) > 0
    BY <2>1, <2>2 DEF WindowTypes
  <2>4. BarsGrow
    BY <2>2 DEF BarsGrow, Plain
  <2>5. Len(v1.wins) = 0 /\ \A w \in 1 .. Len(v1.wins) : FALSE
    BY <1>6
  <2>6. v2'.scripts = {}
    BY <2>1, <2>5 DEF WindowsInv, ScriptReady, ScriptHas
  <2>7. SplitAlone'
    <3> SUFFICES ASSUME v2'.todo # <<>>, Head(v2'.todo).do = "split", NEW w, w = Head(v2'.todo).win
                 PROVE  NoBar(w)'
      BY <2>6 DEF SplitAlone, Windows!ScriptIn
    <3>1. TodoReady' /\ v2'.todo \in Seq(TerminalSteps)
      BY <1>1, <2>1, <2>2, <2>5, TodoGoes
    <3>2. Head(v2'.todo) = v2'.todo[1] /\ 1 \in 1 .. Len(v2'.todo)
      BY <3>1, HeadTail
    <3>3. w \in 1 .. Len(v1'.wins)
      BY <3>1, <3>2 DEF TodoReady, InWindow
    <3> QED
      BY <2>2, <3>3 DEF NoBar, BarAt
  <2> QED
    BY <1>1, <2>1, <2>2, <2>3, <2>4, <2>5, <2>7, RunGoes
<1>7. CASE v1.wins = <<>> /\ v1' = made /\ v2' \in {Windows!Ended, [Windows!Ended EXCEPT !.fails = @ + 1]}
  <2>1. WindowTypes' /\ Grow /\ AllPlain
    BY <1>1, <1>3, <1>7, JobEnds DEF WindowTypes, AllPlain, Plain
  <2> QED
    BY <1>1, <1>7, <2>1, RunEnds
<1> QED
  BY <1>4, <1>5, <1>6, <1>7

\* Attach lists the windows, and will visit each.
LEMMA WindowsList ==
  ASSUME WindowsInv, Windows!ListWindows
  PROVE  WindowsInv'
<1> DEFINE n == Len(v1.wins)
           todo == [i \in 1 .. n |-> Windows!Step("list-panes", i)] \o Windows!Hooks
<1>1. /\ v1 \in Worlds /\ v2 \in Jobs /\ n \in Nat /\ v1' = v1
      /\ v2' = [v2 EXCEPT !.listed = 1 .. n, !.todo = todo] /\ v2.run # "none"
      /\ v2.todo # <<>> /\ Head(v2.todo).do = "list-windows" /\ 0 \in Nat
  BY LenProperties DEF WindowsInv, WindowTypes, Worlds, Windows!ListWindows, Windows!Windows, Windows!At
<1>2. /\ WellOrdered(todo) /\ todo # <<>> /\ Head(todo).do \in {"list-panes", "write-scripts"}
      /\ \A w \in 1 .. n : \E i \in 1 .. Len(todo) : todo[i] = Windows!Step("list-panes", w)
      /\ \A i \in 1 .. Len(todo) : todo[i].do \in InWindow => todo[i].win \in 1 .. n
  <2> HIDE DEF n
  <2> QED
    BY <1>1, OrderedPanes
<1> HIDE DEF todo, n
<1>3. todo \in Seq(TerminalSteps) /\ 1 .. n \in SUBSET Nat
  BY <1>1, <1>2 DEF WellOrdered, Chained
<1>4. /\ v2' \in Jobs /\ v2'.todo = todo /\ v2'.listed = 1 .. n /\ v2'.scripts = v2.scripts /\ v2'.run = v2.run
  BY <1>1, <1>3 DEF Jobs
<1>5. WindowTypes' /\ Grow /\ BarsGrow /\ \A u \in 1 .. Len(v1.wins) : Plain(u)
  BY <1>1, <1>4, SameWorld
<1>6. TodoReady'
  BY <1>1, <1>2, <1>4 DEF TodoReady, n
<1>7. PaneMade'
  BY <1>2, <1>4 DEF PaneMade
<1>8. ScriptReady'
  BY <1>4, <1>5, ScriptStays DEF WindowTypes
<1>9. \A w, i : (InHand(w, i) => InHand(w, i)') /\ (Making(w, i) => Making(w, i)')
  BY <1>1, <1>4 DEF InHand, Making
<1>10. \A w \in v2'.listed : ToVisit(w)'
  BY <1>2, <1>4 DEF ToVisit
<1>11. SplitAlone' /\ ScriptFirst'
  BY <1>2, <1>4, <1>5, ScriptFirstStays DEF SplitAlone
<1> QED
  BY <1>4, <1>5, <1>6, <1>7, <1>8, <1>9, <1>10, <1>11, WindowsStep

\* A window that holds a tagged pane has its sidebar, unless the script is at work there;
\* another gets one.
LEMMA WindowsListPanes ==
  ASSUME WindowsInv, Windows!ListPanes
  PROVE  WindowsInv'
<1>1. /\ v1 \in Worlds /\ v2 \in Jobs /\ v2.run # "none" /\ v2.todo # <<>> /\ Head(v2.todo).do = "list-panes"
      /\ v2.todo \in Seq(TerminalSteps) /\ WellOrdered(v2.todo)
  BY DEF WindowsInv, WindowTypes, Jobs, TodoReady, Windows!ListPanes, Windows!At
<1>2. Head(v2.todo) = v2.todo[1] /\ 1 \in 1 .. Len(v2.todo) /\ Len(v2.todo) \in Nat
  BY <1>1, HeadTail
<1>3. PICK w \in 1 .. Len(v1.wins) : w = Head(v2.todo).win
  BY <1>1, <1>2 DEF WindowsInv, TodoReady, InWindow
<1>4. /\ v1' = IF Windows!ScriptIn(w) THEN [v1 EXCEPT !.cut = @ \cup {w}] ELSE v1
      /\ v2' = [v2 EXCEPT !.todo = IF Windows!HasBar(w) THEN Tail(@) ELSE Windows!Inject(w) \o Tail(@)]
      /\ w \in Nat
  BY <1>3 DEF Windows!ListPanes, Windows!W
<1> DEFINE todo == Windows!Inject(w) \o Tail(v2.todo)
<1>5. CASE Windows!HasBar(w)
  <2>1. Windows!Go
    BY <1>4, <1>5 DEF Windows!Go
  <2>2. /\ v2' \in Jobs /\ v2'.todo = Tail(v2.todo) /\ v2'.run = v2.run /\ v2'.listed = v2.listed
        /\ v2'.scripts = v2.scripts
    BY <1>1, <2>1, JobGoes
  <2>3. WindowTypes' /\ Grow /\ v1'.wins = v1.wins /\ BarsGrow /\ \A u \in 1 .. Len(v1.wins) : Plain(u)
    BY <1>1, <1>4, <2>2, SameWorld
  <2>4. HasSidebar(w)' \/ w \in v1'.cut \cup v1'.closed
    <3>1. PICK i \in 1 .. Len(v1.wins[w]) : v1.wins[w][i].tag /\ v1.wins[w][i].open
      BY <1>5 DEF Windows!HasBar
    <3>2. InHand(w, i) => Windows!ScriptIn(w) \/ w \in v1.cut
      <4>1. InHand(w, i) => \E s \in v2.scripts : s.win = w /\ s.pane = i
        BY <1>1 DEF InHand
      <4>2. ASSUME NEW s \in v2.scripts, s.win = w, s.pane = i, w \notin v1.cut
            PROVE  Windows!ScriptIn(w)
        <5>1. ScriptHas(s) /\ i > 0
          BY <3>1 DEF WindowsInv, ScriptReady
        <5>2. s.own = w
          BY <4>2, <5>1 DEF ScriptHas
        <5> QED
          BY <4>2, <5>2 DEF Windows!ScriptIn
      <4> QED
        BY <4>1, <4>2
    <3>3. (Windows!ScriptIn(w) => w \in v1'.cut) /\ v1.cut \subseteq v1'.cut
      BY <1>1, <1>4 DEF Worlds
    <3>4. ASSUME ~ Windows!ScriptIn(w), w \notin v1'.cut \cup v1'.closed
          PROVE  HasSidebar(w)'
      <4>1. v1' = v1
        BY <1>4, <3>4
      <4>2. v1.wins[w][i].bar /\ v1.wins[w][i].runs
        BY <3>1, <3>2, <3>3, <3>4, <4>1 DEF WindowsInv, TaggedIsBar
      <4> QED
        BY <3>1, <4>1, <4>2 DEF HasSidebar
    <3> QED
      BY <3>3, <3>4
  <2> QED
    BY <1>1, <1>3, <2>2, <2>3, <2>4, RunGoes
<1>6. CASE ~ Windows!HasBar(w)
  <2>1. /\ WellOrdered(todo) /\ todo # <<>> /\ Head(todo) = Windows!Step("split", w)
        /\ \A i \in 1 .. Len(todo) : todo[i].win = w \/ \E j \in 1 .. Len(v2.todo) : todo[i] = v2.todo[j]
        /\ \A j \in 2 .. Len(v2.todo) : \E i \in 1 .. Len(todo) : todo[i] = v2.todo[j]
    <3> HIDE DEF todo
    <3>1. todo = Windows!Inject(w) \o Tail(v2.todo)
      BY DEF todo
    <3>2. WellOrdered(v2.todo) /\ v2.todo # <<>> /\ Head(v2.todo).do = "list-panes" /\ w \in Nat
      BY <1>1, <1>4
    <3>3. InjectedIn(v2.todo, w, todo)
      BY ONLY <3>1, <3>2, OrderedInject, Zenon
    <3> QED
      BY <3>3 DEF InjectedIn
  <2> HIDE DEF todo
  <2>2. /\ v2' = [v2 EXCEPT !.todo = todo] /\ todo \in Seq(TerminalSteps)
    BY <1>4, <1>6, <2>1 DEF todo, WellOrdered, Chained
  <2>3. /\ v2' \in Jobs /\ v2'.todo = todo /\ v2'.listed = v2.listed /\ v2'.scripts = v2.scripts /\ v2'.run = v2.run
    BY <1>1, <2>2 DEF Jobs
  <2>4. WindowTypes' /\ Grow /\ v1'.wins = v1.wins /\ BarsGrow /\ \A u \in 1 .. Len(v1.wins) : Plain(u)
    BY <1>1, <1>4, <2>3, SameWorld
  <2>5. Head(todo).do = "split" /\ Head(todo).win = w
    BY <2>1 DEF Windows!Step
  <2>6. TodoReady'
    <3> SUFFICES ASSUME NEW i \in 1 .. Len(todo), todo[i].do \in InWindow
                 PROVE  todo[i].win \in 1 .. Len(v1.wins)
      BY <1>1, <2>1, <2>3, <2>4 DEF TodoReady
    <3> QED
      BY <1>1, <2>1 DEF WindowsInv, TodoReady
  <2>7. PaneMade'
    BY <2>3, <2>5 DEF PaneMade
  <2>8. ScriptReady'
    BY <2>3, <2>4, ScriptStays DEF WindowTypes
  <2>9. \A u, i : (InHand(u, i) => InHand(u, i)') /\ (Making(u, i) => Making(u, i)')
    BY <1>1, <2>3 DEF InHand, Making
  <2>10. ASSUME NEW u, ToVisit(u)
         PROVE  ToVisit(u)'
    <3>1. CASE u = w
      BY <2>1, <2>3, <2>5, <3>1 DEF ToVisit
    <3>2. CASE u # w
      <4>1. PICK i \in 1 .. Len(v2.todo) : v2.todo[i] = Windows!Step("list-panes", u)
        BY <1>1, <2>10 DEF ToVisit
      <4>2. v2.todo[i].win = u
        BY <4>1 DEF Windows!Step
      <4>3. i # 1
        BY <1>2, <1>3, <3>2, <4>2
      <4>4. i \in 2 .. Len(v2.todo)
        BY <1>2, <4>3
      <4> QED
        BY <2>1, <2>3, <4>1, <4>4 DEF ToVisit
    <3> QED
      BY <3>1, <3>2
  <2>11. ScriptFirst'
    BY <2>3, <2>4, ScriptFirstStays
  <2>12. SplitAlone'
    <3> SUFFICES ASSUME w \notin v1'.cut
                 PROVE  NoBar(w)' /\ ~ Windows!ScriptIn(w)'
      BY <2>3, <2>5 DEF SplitAlone
    <3>1. ~ Windows!ScriptIn(w) /\ w \notin v1.cut
      BY <1>1, <1>4, <2>4 DEF Grow, Worlds
    <3>2. ~ Windows!ScriptIn(w)'
      BY <2>3, <3>1 DEF Windows!ScriptIn
    <3>3. NoBar(w)
      <4> SUFFICES ASSUME NEW i \in 1 .. Len(v1.wins[w]), BarAt(w, i)
                   PROVE  FALSE
        BY DEF NoBar
      <4>1. v1.wins[w][i].tag \/ Making(w, i)
        BY <3>1 DEF WindowsInv, BarKnown
      <4>2. ~ v1.wins[w][i].tag
        BY <1>6 DEF BarAt, Windows!HasBar
      <4>3. ~ Making(w, i)
        <5>1. Making(w, i) => \E s \in v2.scripts : s.win = w /\ s.pane = i
          BY <1>1 DEF Making
        <5>2. ASSUME NEW s \in v2.scripts, s.win = w, s.pane = i
              PROVE  FALSE
          <6>1. ScriptHas(s) /\ i > 0
            BY DEF WindowsInv, ScriptReady
          <6>2. s.own = w
            BY <3>1, <5>2, <6>1 DEF ScriptHas
          <6> QED
            BY <3>1, <5>2, <6>2 DEF Windows!ScriptIn
        <5> QED
          BY <5>1, <5>2
      <4> QED
        BY <4>1, <4>2, <4>3
    <3> QED
      BY <2>4, <3>2, <3>3, NoBarStays
  <2> QED
    BY <1>1, <2>3, <2>4, <2>6, <2>7, <2>8, <2>9, <2>10, <2>11, <2>12, WindowsStep
<1> QED
  BY <1>5, <1>6

\* The window that a step is for, and what was there.
LEMMA StepWindow ==
  ASSUME WindowsInv, v2.todo # <<>>, Head(v2.todo).do \in InWindow \ {"list-panes"}
  PROVE  /\ v1 \in Worlds /\ v2 \in Jobs /\ WindowTypes /\ WellOrdered(v2.todo) /\ v2.todo \in Seq(TerminalSteps)
         /\ Windows!W \in 1 .. Len(v1.wins) /\ Windows!W = Head(v2.todo).win
<1>1. v1 \in Worlds /\ v2 \in Jobs /\ WindowTypes /\ WellOrdered(v2.todo) /\ v2.todo \in Seq(TerminalSteps)
  BY DEF WindowsInv, WindowTypes, Jobs, TodoReady
<1>2. Head(v2.todo) = v2.todo[1] /\ 1 \in 1 .. Len(v2.todo)
  BY <1>1, HeadTail
<1>3. Head(v2.todo).win \in 1 .. Len(v1.wins)
  BY <1>2 DEF WindowsInv, TodoReady, InWindow
<1> QED
  BY <1>1, <1>3 DEF Windows!W

\* tmux with other windows, one of which may be marked.
LEMMA WithWins ==
  ASSUME v1 \in Worlds, NEW wins \in Seq(Seq(Panes)), NEW w \in Nat,
         \/ v1' = [v1 EXCEPT !.wins = wins]
         \/ v1' = [v1 EXCEPT !.wins = wins, !.cut = @ \cup {w}]
         \/ v1' = [v1 EXCEPT !.wins = wins, !.closed = @ \cup {w}]
  PROVE  /\ v1' \in Worlds /\ v1'.wins = wins /\ v1'.current = v1.current
         /\ v1.cut \subseteq v1'.cut /\ v1.closed \subseteq v1'.closed
         /\ v1' = [v1 EXCEPT !.wins = wins, !.cut = @ \cup {w}] => w \in v1'.cut
         /\ v1' = [v1 EXCEPT !.wins = wins, !.closed = @ \cup {w}] => w \in v1'.closed
<1> DEFINE S == Seq(Seq(Panes))
<1> HIDE DEF S
<1>1. v1 \in [wins : S, current : Nat, hook : BOOLEAN, cut : SUBSET Nat, closed : SUBSET Nat] /\ wins \in S
  BY DEF Worlds, S
<1>2. v1' \in [wins : S, current : Nat, hook : BOOLEAN, cut : SUBSET Nat, closed : SUBSET Nat]
  BY <1>1
<1>3. v1' \in Worlds
  BY <1>2 DEF Worlds, S
<1> QED
  BY <1>1, <1>3

\* A window gets the pane that a command, or the script, splits off in it.
LEMMA SplitGrows ==
  ASSUME WindowsInv, NEW w \in 1 .. Len(v1.wins), v2' \in Jobs,
         v1' \in {Windows!SplitIn(w), [Windows!SplitIn(w) EXCEPT !.cut = @ \cup {w}]}
  PROVE  /\ WindowTypes' /\ Grow /\ Len(v1'.wins) = Len(v1.wins)
         /\ Len(v1.wins[w]) + 1 \in Nat /\ Len(v1.wins[w]) + 1 > 0 /\ Len(v1'.wins[w]) = Len(v1.wins[w]) + 1
         /\ v1'.wins[w][Len(v1.wins[w]) + 1].bar
         /\ v1' = [Windows!SplitIn(w) EXCEPT !.cut = @ \cup {w}] => w \in v1'.cut
         /\ Len(v1.wins[w]) \in Nat /\ \A u \in 1 .. Len(v1.wins) : u # w => Plain(u)
<1> DEFINE wins == [v1.wins EXCEPT ![w] = Append(@, Windows!Bare)]
<1>1. /\ v1 \in Worlds /\ WindowTypes /\ v1.wins \in Seq(Seq(Panes)) /\ Windows!Bare \in Panes /\ w \in Nat
      /\ Len(v1.wins) \in Nat
  <2>1. v1 \in Worlds /\ WindowTypes /\ v1.wins \in Seq(Seq(Panes))
    BY DEF WindowsInv, WindowTypes, Worlds
  <2>2. Windows!Bare \in Panes
    BY DEF Windows!Bare, Windows!Own, Panes
  <2>3. Len(v1.wins) \in Nat
    BY <2>1, LenProperties
  <2>4. w \in Nat
    OBVIOUS
  <2> QED
    BY <2>1, <2>2, <2>3, <2>4
<1>2. wins \in Seq(Seq(Panes))
  <2>1. w \in 1 .. Len(v1.wins)
    OBVIOUS
  <2> DEFINE old == v1.wins
             pane == Windows!Bare
  <2>2. old \in Seq(Seq(Panes)) /\ w \in 1 .. Len(old) /\ pane \in Panes
    BY <1>1, <2>1
  <2>3. wins = [old EXCEPT ![w] = Append(@, pane)]
    OBVIOUS
  <2> HIDE DEF old, pane, wins
  <2> QED
    BY ONLY <2>2, <2>3, WithPane, SMT
<1>3. Windows!SplitIn(w) = [v1 EXCEPT !.wins = wins]
  BY DEF Windows!SplitIn
<1>4. [Windows!SplitIn(w) EXCEPT !.cut = @ \cup {w}] = [v1 EXCEPT !.wins = wins, !.cut = @ \cup {w}]
  BY <1>1, <1>3 DEF Worlds
<1> HIDE DEF wins
<1>5. /\ v1' \in Worlds /\ v1'.wins = wins /\ v1'.current = v1.current
      /\ v1.cut \subseteq v1'.cut /\ v1.closed \subseteq v1'.closed
      /\ v1' = [Windows!SplitIn(w) EXCEPT !.cut = @ \cup {w}] => w \in v1'.cut
  BY <1>1, <1>2, <1>3, <1>4, WithWins
<1>6. /\ Grow /\ Len(v1'.wins) = Len(v1.wins) /\ Len(v1.wins[w]) \in Nat
      /\ Len(v1'.wins[w]) = Len(v1.wins[w]) + 1 /\ v1'.wins[w][Len(v1.wins[w]) + 1].bar
      /\ \A u \in 1 .. Len(v1.wins) : u # w => Plain(u)
  BY <1>1, <1>5, GrowPane DEF wins
<1>7. Len(v1.wins[w]) + 1 \in Nat /\ Len(v1.wins[w]) + 1 > 0
  BY <1>6
<1> QED
  BY <1>1, <1>5, <1>6, <1>7, TypesStay

\* A command splits off the sidebar's pane.
LEMMA WindowsSplit ==
  ASSUME WindowsInv, Windows!Split
  PROVE  WindowsInv'
<1>1. v2.todo # <<>> /\ Head(v2.todo).do = "split"
  BY DEF Windows!Split, Windows!At
<1>2. /\ v1 \in Worlds /\ v2 \in Jobs /\ WellOrdered(v2.todo) /\ v2.todo \in Seq(TerminalSteps)
      /\ Windows!W \in 1 .. Len(v1.wins) /\ Windows!W = Head(v2.todo).win
  BY <1>1, StepWindow DEF InWindow
<1>3. PICK w \in 1 .. Len(v1.wins) : w = Windows!W
  BY <1>2
<1>4. \/ /\ v1' = Windows!SplitIn(w)
         /\ v2' = [v2 EXCEPT !.todo = Tail(@), !.pane = Len(v1.wins[w]) + 1]
      \/ /\ v2' = [Windows!Ended EXCEPT !.fails = @ + 1]
         /\ v1' \in {v1, [Windows!SplitIn(w) EXCEPT !.cut = @ \cup {w}]}
  BY <1>3 DEF Windows!Split, Windows!Breaks
<1>5. CASE /\ v1' = Windows!SplitIn(w)
           /\ v2' = [v2 EXCEPT !.todo = Tail(@), !.pane = Len(v1.wins[w]) + 1]
  <2>1. Len(v1.wins[w]) \in Nat
    <3>1. v1.wins \in Seq(Seq(Panes))
      BY <1>2 DEF Worlds
    <3>2. v1.wins[w] \in Seq(Panes)
      BY <3>1, ElementOfSeq
    <3> QED
      BY <3>2, LenProperties
  <2>2. Len(v1.wins[w]) + 1 \in Nat /\ Tail(v2.todo) \in Seq(TerminalSteps)
    BY <1>1, <1>2, <2>1, HeadTail
  <2>3. /\ v2' \in Jobs /\ v2'.todo = Tail(v2.todo) /\ v2'.run = v2.run /\ v2'.listed = v2.listed
        /\ v2'.scripts = v2.scripts /\ v2'.pane = Len(v1.wins[w]) + 1
    BY <1>2, <1>5, <2>2 DEF Jobs
  <2>4. /\ WindowTypes' /\ Grow /\ Len(v1'.wins) = Len(v1.wins)
        /\ Len(v1.wins[w]) + 1 > 0 /\ Len(v1'.wins[w]) = Len(v1.wins[w]) + 1
        /\ v1'.wins[w][Len(v1.wins[w]) + 1].bar
        /\ \A u \in 1 .. Len(v1.wins) : u # w => Plain(u)
    BY <1>5, <2>3, SplitGrows
  <2>5. v2'.pane \in 1 .. Len(v1'.wins[w]) /\ v1'.wins[w][v2'.pane].bar
    BY <2>1, <2>3, <2>4
  <2>6. v2'.todo # <<>> /\ Follows(Head(v2.todo), Head(v2'.todo))
    BY <1>1, <1>2, <2>3, OrderedTail
  <2>7. Head(v2'.todo).do = "title" /\ Head(v2'.todo).win = w
    BY <1>1, <1>2, <1>3, <2>6 DEF Follows
  <2>8. PaneMade'
    BY <2>5, <2>7 DEF PaneMade
  <2>9. v1'.cut = v1.cut
    BY <1>2, <1>5 DEF Windows!SplitIn, Worlds
  <2>10. w \notin v1.cut => NoBar(w) /\ ~ Windows!ScriptIn(w)
    BY <1>1, <1>2, <1>3 DEF WindowsInv, SplitAlone
  <2>11. SplitOff(w)
    <3>1. PICK k \in Nat : k = Len(v1.wins[w]) + 1
      BY <2>2
    <3>2. Making(w, k)'
      BY <2>3, <2>6, <2>7, <3>1 DEF Making
    <3>3. \A i \in 1 .. Len(v1'.wins[w]) : i \in 1 .. Len(v1.wins[w]) \/ i = k
      BY <2>1, <2>4, <3>1
    <3> QED
      BY <2>10, <3>2, <3>3 DEF SplitOff
  <2>12. BarsGrow /\ \A u \in 1 .. Len(v1.wins) : u \notin v1'.cut /\ Windows!ScriptIn(u) => Plain(u)
    BY <2>4, <2>9, <2>10, <2>11 DEF BarsGrow
  <2> QED
    BY <1>1, <2>3, <2>4, <2>8, <2>12, RunGoes
<1>6. CASE /\ v2' = [Windows!Ended EXCEPT !.fails = @ + 1]
           /\ v1' \in {v1, [Windows!SplitIn(w) EXCEPT !.cut = @ \cup {w}]}
  <2>1. v2' \in Jobs
    BY <1>2, <1>6, JobEnds
  <2>2. WindowTypes' /\ Grow /\ AllPlain
    <3>1. CASE v1' = v1
      BY <2>1, <3>1, SameWorld
    <3>2. CASE v1' = [Windows!SplitIn(w) EXCEPT !.cut = @ \cup {w}]
      <4>1. /\ WindowTypes' /\ Grow /\ Len(v1'.wins) = Len(v1.wins) /\ w \in v1'.cut
            /\ \A u \in 1 .. Len(v1.wins) : u # w => Plain(u)
        BY <2>1, <3>2, SplitGrows
      <4> QED
        BY <4>1 DEF AllPlain, Plain
    <3> QED
      BY <1>6, <3>1, <3>2
  <2> QED
    BY <1>1, <1>6, <2>2, RunEnds
<1> QED
  BY <1>4, <1>5, <1>6

\* A pane of a window gets a mark from a command or the script.
Marking(w, i, f) ==
  /\ v2' \in Jobs
  /\ v1' \in {[v1 EXCEPT !.wins[w][i][f] = TRUE], [v1 EXCEPT !.wins[w][i][f] = TRUE, !.cut = @ \cup {w}]}
  /\ f = "tag" => v1' = [v1 EXCEPT !.wins[w][i][f] = TRUE, !.cut = @ \cup {w}]
                    \/ w \in v1.cut \/ (v1.wins[w][i].bar /\ InHand(w, i)')
  /\ f = "bar" => v1.wins[w][i].bar
  /\ f = "open" => v1.wins[w][i].open
Marked(w, i, f) ==
  /\ WindowTypes' /\ Grow /\ AllPlain /\ Len(v1'.wins) = Len(v1.wins) /\ Len(v1'.wins[w]) = Len(v1.wins[w])
  /\ v1'.wins[w][i] = [v1.wins[w][i] EXCEPT ![f] = TRUE] /\ v1.wins[w][i] \in Panes
  /\ v1' = [v1 EXCEPT !.wins[w][i][f] = TRUE, !.cut = @ \cup {w}] => w \in v1'.cut

\* With such a mark the windows are sound and have grown.
LEMMA MarkGrows ==
  ASSUME WindowsInv, NEW w \in 1 .. Len(v1.wins), NEW i \in 1 .. Len(v1.wins[w]), NEW f \in {"bar", "tag", "runs", "open"},
         Marking(w, i, f)
  PROVE  Marked(w, i, f)
<1> USE DEF Marking
<1> DEFINE old == v1.wins
           p == [old[w][i] EXCEPT ![f] = TRUE]
           win == [old[w] EXCEPT ![i] = p]
           wins == [old EXCEPT ![w] = win]
<1>1. /\ v1 \in Worlds /\ WindowTypes /\ old \in Seq(Seq(Panes)) /\ w \in Nat
      /\ w \in 1 .. Len(old) /\ i \in 1 .. Len(old[w])
  BY DEF WindowsInv, WindowTypes, Worlds
<1>2. old[w][i] \in Panes
  <2>1. old[w] \in Seq(Panes)
    BY <1>1, ElementOfSeq
  <2> QED
    BY <2>1, <1>1, ElementOfSeq
<1>3. p \in Panes
  BY <1>2 DEF Panes
<1>4. /\ [v1 EXCEPT !.wins[w][i][f] = TRUE] = [v1 EXCEPT !.wins = wins]
      /\ [v1 EXCEPT !.wins[w][i][f] = TRUE, !.cut = @ \cup {w}] = [v1 EXCEPT !.wins = wins, !.cut = @ \cup {w}]
  OBVIOUS
<1>5. v1.wins = old /\ win = [old[w] EXCEPT ![i] = p] /\ wins = [old EXCEPT ![w] = win]
  OBVIOUS
<1>6. wins = [v1.wins EXCEPT ![w][i][f] = TRUE]
  OBVIOUS
<1> HIDE DEF wins, win, old
<1>7. /\ wins \in Seq(Seq(Panes)) /\ wins[w][i] = p /\ Len(wins) = Len(old)
      /\ \A u \in 1 .. Len(old) : Len(wins[u]) = Len(old[u])
  <2> HIDE DEF p
  <2> QED
    BY ONLY <1>1, <1>3, <1>5, WithMark, SMTT(30)
<1>8. /\ v1' \in Worlds /\ v1'.wins = wins /\ v1'.current = v1.current
      /\ v1.cut \subseteq v1'.cut /\ v1.closed \subseteq v1'.closed
      /\ v1' = [v1 EXCEPT !.wins[w][i][f] = TRUE, !.cut = @ \cup {w}] => w \in v1'.cut
  <2>1. v1' \in {[v1 EXCEPT !.wins = wins], [v1 EXCEPT !.wins = wins, !.cut = @ \cup {w}]}
    BY <1>4
  <2> QED
    BY <1>1, <1>4, <1>7, <2>1, WithWins
<1>9. f = "tag" => w \in v1'.cut \/ (v1.wins[w][i].bar /\ InHand(w, i)')
  BY <1>8
<1>10. Grow /\ AllPlain /\ Len(v1'.wins) = Len(v1.wins)
  <2>1. v1'.wins = [v1.wins EXCEPT ![w][i][f] = TRUE]
    BY <1>6, <1>8
  <2> QED
    BY <1>1, <1>8, <1>9, <2>1, GrowMark
<1>11. WindowTypes'
  BY <1>1, <1>8, <1>10, TypesStay
<1> QED
  BY <1>1, <1>2, <1>5, <1>7, <1>8, <1>10, <1>11 DEF Marked

\* A command titles its pane, tags it, and types the sidebar's line there.
LEMMA WindowsMark ==
  ASSUME WindowsInv, Windows!Title \/ Windows!Tag \/ Windows!Keys
  PROVE  WindowsInv'
<1>1. v2.todo # <<>> /\ Head(v2.todo).do \in {"title", "tag", "keys"}
  BY DEF Windows!Title, Windows!Tag, Windows!Keys, Windows!At
<1>2. /\ v1 \in Worlds /\ v2 \in Jobs /\ WellOrdered(v2.todo) /\ v2.todo \in Seq(TerminalSteps)
      /\ Windows!W \in 1 .. Len(v1.wins) /\ Windows!W = Head(v2.todo).win
  BY <1>1, StepWindow DEF InWindow
<1>3. PICK w \in 1 .. Len(v1.wins) : w = Windows!W
  BY <1>2
<1>4. PICK f \in {"bar", "tag", "runs"} :
        /\ Windows!OnPane(f)
        /\ f = CASE Head(v2.todo).do = "title" -> "bar" [] Head(v2.todo).do = "tag" -> "tag" [] OTHER -> "runs"
  BY <1>1 DEF Windows!Title, Windows!Tag, Windows!Keys, Windows!At
<1>5. PICK i \in 1 .. Len(v1.wins[w]) : i = v2.pane
  BY <1>1, <1>2, <1>3 DEF WindowsInv, PaneMade
<1>6. /\ v1.wins[w][i].bar /\ w \in Nat
      /\ Head(v2.todo).do = "keys" => v1.wins[w][i].tag
  BY <1>1, <1>2, <1>3, <1>5 DEF WindowsInv, PaneMade
<1> DEFINE made == [v1 EXCEPT !.wins[w][i][f] = TRUE]
           half == [v1 EXCEPT !.cut = @ \cup {w}]
           both == [v1 EXCEPT !.wins[w][i][f] = TRUE, !.cut = @ \cup {w}]
<1>7. [half EXCEPT !.wins = made.wins] = both
  BY <1>2 DEF Worlds
<1>8. \/ v1.wins[w][i].open /\ v1' = made /\ Windows!Go
      \/ v2' \in {Windows!Ended, [Windows!Ended EXCEPT !.fails = @ + 1]} /\ v1' \in {half, both}
  BY <1>3, <1>4, <1>5, <1>7 DEF Windows!OnPane
<1>9. CASE v1.wins[w][i].open /\ v1' = made /\ Windows!Go
  <2>1. /\ v2' \in Jobs /\ v2'.todo = Tail(v2.todo) /\ v2'.run = v2.run /\ v2'.listed = v2.listed
        /\ v2'.scripts = v2.scripts /\ v2'.pane = v2.pane
    BY <1>1, <1>2, <1>9, JobGoes
  <2>2. /\ v2'.todo # <<>> => Follows(Head(v2.todo), Head(v2'.todo))
        /\ Head(v2.todo).do = "tag" => v2'.todo # <<>>
    BY <1>1, <1>2, <2>1, OrderedTail
  <2>3. f = "tag" => InHand(w, i)'
    <3>1. f = "tag" => Head(v2.todo).do = "tag"
      BY <1>1, <1>4
    <3>2. f = "tag" => v2'.todo # <<>> /\ Head(v2'.todo).do = "keys" /\ Head(v2'.todo).win = w
      BY <1>2, <1>3, <2>2, <3>1 DEF Follows
    <3> QED
      BY <1>5, <2>1, <3>2 DEF InHand
  <2>4. /\ WindowTypes' /\ Grow /\ AllPlain /\ Len(v1'.wins) = Len(v1.wins) /\ Len(v1'.wins[w]) = Len(v1.wins[w])
        /\ v1'.wins[w][i] = [v1.wins[w][i] EXCEPT ![f] = TRUE] /\ v1.wins[w][i] \in Panes
    <3>1. f \in {"bar", "tag", "runs", "open"} /\ (f = "tag" => v1.wins[w][i].bar /\ InHand(w, i)')
      BY <1>6, <2>3
    <3>2. Marking(w, i, f)
      BY <1>6, <1>9, <2>1, <3>1 DEF Marking
    <3>3. Marked(w, i, f)
      BY <3>1, <3>2, MarkGrows
    <3> QED
      BY ONLY <3>3 DEF Marked
  <2>5. v1'.wins[w][i].bar /\ (f = "tag" => v1'.wins[w][i].tag)
    BY <1>6, <2>4 DEF Panes
  <2>6. Head(v2.todo).do \in {"title", "tag"} => PaneMade'
    <3>1. ASSUME v2'.todo # <<>>, Head(v2.todo).do \in {"title", "tag"}
          PROVE  /\ Head(v2'.todo).win = w
                 /\ Head(v2'.todo).do = "keys" => f = "tag"
      BY <1>2, <1>3, <1>4, <2>2, <3>1 DEF Follows
    <3> QED
      BY <1>5, <2>1, <2>4, <2>5, <3>1 DEF PaneMade
  <2>7. Head(v2.todo).do = "keys" => HasSidebar(w)' /\ v1'.wins[w][i].runs
    <3>1. Head(v2.todo).do = "keys" => f = "runs"
      BY <1>4
    <3>2. Head(v2.todo).do = "keys" =>
            v1'.wins[w][i].bar /\ v1'.wins[w][i].open /\ v1'.wins[w][i].tag /\ v1'.wins[w][i].runs
      BY <1>6, <1>9, <2>4, <3>1 DEF Panes
    <3> QED
      BY <2>4, <3>2 DEF HasSidebar
  <2>8. Head(v2.todo).do = "tag" => v1'.wins[w][i].tag
    BY <1>4, <2>5
  <2>9. BarsGrow /\ \A u \in 1 .. Len(v1.wins) : Plain(u)
    BY <2>4 DEF BarsGrow, AllPlain
  <2> QED
    BY <1>1, <1>2, <1>3, <1>5, <2>1, <2>4, <2>6, <2>7, <2>8, <2>9, RunGoes
<1>10. CASE v2' \in {Windows!Ended, [Windows!Ended EXCEPT !.fails = @ + 1]} /\ v1' \in {half, both}
  <2>1. v2' \in Jobs
    BY <1>2, <1>10, JobEnds
  <2>2. WindowTypes' /\ Grow /\ AllPlain /\ w \in v1'.cut
    <3>1. CASE v1' = half
      BY <1>6, <2>1, <3>1, SameWorld
    <3>2. CASE v1' = both
      <4>1. Marking(w, i, f) /\ f \in {"bar", "tag", "runs", "open"}
        BY <1>6, <2>1, <3>2 DEF Marking
      <4>2. Marked(w, i, f)
        BY <4>1, MarkGrows
      <4> QED
        BY <3>2, <4>2 DEF Marked
    <3> QED
      BY <1>10, <3>1, <3>2
  <2> QED
    BY <1>2, <1>3, <1>10, <2>2, RunEnds
<1> QED
  BY <1>8, <1>9, <1>10

\* The user opens a window; the hook, once set, starts the script for it.
LEMMA WindowsNewWindow ==
  ASSUME WindowsInv, Windows!NewWindow
  PROVE  WindowsInv'
<1> DEFINE wins == v1.wins
           win == <<Windows!Own>>
           new == Append(wins, win)
           n == Len(wins)
<1> DEFINE script == [own |-> n + 1, at |-> "split", win |-> 0, pane |-> 0]
<1>1. /\ v1 \in Worlds /\ v2 \in Jobs /\ WindowTypes /\ wins \in Seq(Seq(Panes)) /\ wins # <<>>
      /\ v2' \in {v2, [v2 EXCEPT !.scripts = @ \cup {script}]}
  BY DEF WindowsInv, WindowTypes, Worlds, Windows!NewWindow, Windows!Up, Windows!Script
<1> HIDE DEF script
<1>0. PICK current \in {v1.current, n + 1} : v1' = [v1 EXCEPT !.wins = new, !.current = current]
  BY DEF Windows!NewWindow
<1>2. win \in Seq(Panes) /\ Len(win) = 1 /\ win[1].open /\ ~ win[1].tag /\ ~ win[1].bar
  <2>1. Windows!Own \in Panes /\ Windows!Own.open /\ ~ Windows!Own.tag /\ ~ Windows!Own.bar
    BY DEF Windows!Own, Panes
  <2> QED
    BY <2>1
<1> HIDE DEF win
<1>3. /\ new \in Seq(Seq(Panes)) /\ n \in Nat /\ Len(new) = n + 1 /\ new[n + 1] = win
      /\ \A w \in 1 .. n : new[w] = wins[w]
  BY <1>1, <1>2, AppendProperties, LenProperties
<1> HIDE DEF new, n, wins
<1>4. /\ v1' \in Worlds /\ v1'.wins = new /\ v1.cut = v1'.cut /\ v1.closed = v1'.closed
      /\ v1'.current = current
  <2>1. current \in Nat
    BY <1>0, <1>1, <1>3 DEF Worlds
  <2> QED
    BY <1>0, <1>1, <1>3, <2>1 DEF Worlds
<1>5. n + 1 \in Nat /\ n + 1 \in 1 .. Len(new) /\ \A w \in 1 .. n + 1 : w \in 1 .. n \/ w = n + 1
  BY <1>3
<1>6. script \in Scripts /\ script.own = n + 1 /\ script.at = "split" /\ script.pane = 0 /\ script.win = 0
  BY <1>5 DEF script, Scripts
<1>7. /\ v2' \in Jobs /\ v2'.todo = v2.todo /\ v2'.run = v2.run /\ v2'.pane = v2.pane /\ v2'.listed = v2.listed
      /\ v2.scripts \subseteq v2'.scripts /\ \A s \in v2'.scripts : s \in v2.scripts \/ s = script
  <2> DEFINE more == v2.scripts \cup {script}
  <2>1. more \in SUBSET Scripts
    BY <1>1, <1>6 DEF Jobs
  <2>2. v2' = v2 \/ v2' = [v2 EXCEPT !.scripts = more]
    BY <1>1
  <2>3. v2.scripts \subseteq more /\ \A s \in more : s \in v2.scripts \/ s = script
    OBVIOUS
  <2> HIDE DEF more
  <2>4. CASE v2' = v2
    BY <1>1, <2>4
  <2>5. CASE v2' = [v2 EXCEPT !.scripts = more]
    <3>1. v2'.scripts = more
      BY <1>1, <2>5 DEF Jobs
    <3>2. v2' \in Jobs /\ v2'.todo = v2.todo /\ v2'.run = v2.run /\ v2'.pane = v2.pane /\ v2'.listed = v2.listed
      BY <1>1, <2>1, <2>5 DEF Jobs
    <3> QED
      BY <2>3, <3>1, <3>2
  <2> QED
    BY <2>2, <2>4, <2>5
<1>8. \A w \in 1 .. n : Len(wins[w]) \in Nat
  <2> SUFFICES ASSUME NEW w \in 1 .. n  PROVE Len(wins[w]) \in Nat
    OBVIOUS
  <2>1. wins[w] \in Seq(Panes)
    BY <1>1, ElementOfSeq DEF n
  <2> QED
    BY <2>1, LenProperties
<1>9. \A w \in 1 .. Len(new) : Len(new[w]) > 0
  <2> SUFFICES ASSUME NEW w \in 1 .. Len(new)  PROVE Len(new[w]) > 0
    OBVIOUS
  <2>1. CASE w \in 1 .. n
    BY <1>1, <1>3, <2>1 DEF WindowTypes, n, wins
  <2>2. CASE w = n + 1
    <3>1. new[w] = win
      BY <1>3, <2>2
    <3>2. Len(win) > 0
      BY <1>2
    <3> QED
      BY <3>1, <3>2
  <2> QED
    BY <1>3, <1>5, <2>1, <2>2
<1>10. WindowTypes'
  <2>1. v1'.current \in 1 .. Len(new)
    <3>1. n > 0
      BY <1>1 DEF n
    <3>2. v1.current \in 1 .. n
      BY <1>1, <3>1 DEF WindowTypes, n, wins
    <3> QED
      BY <1>3, <1>4, <1>5, <3>2
  <2> QED
    BY <1>4, <1>7, <1>9, <2>1 DEF WindowTypes
<1>11. Grow
  <2>1. Len(v1.wins) <= Len(v1'.wins) /\ \A w \in 1 .. n : w \in 1 .. Len(new)
    BY <1>3, <1>4 DEF n, wins
  <2>2. \A w \in 1 .. n : Len(wins[w]) <= Len(new[w])
    BY <1>3, <1>8
  <2>3. ASSUME NEW w \in 1 .. n, NEW i \in 1 .. Len(wins[w])
        PROVE  PaneGrows(w, i, wins[w][i], new[w][i])
    BY <1>3 DEF PaneGrows
  <2>4. ASSUME NEW w \in 1 .. Len(new), NEW i \in 1 .. Len(new[w])
        PROVE  \/ w \in 1 .. n /\ i \in 1 .. Len(wins[w])
               \/ new[w][i].open /\ ~ new[w][i].tag
    <3>1. CASE w \in 1 .. n
      BY <1>3, <3>1
    <3>2. CASE w = n + 1
      <4>1. new[w] = win
        BY <1>3, <3>2
      <4>2. Len(new[w]) = 1
        BY <1>2, <4>1
      <4>3. i = 1
        BY <4>2
      <4> QED
        BY <1>2, <4>1, <4>3
    <3> QED
      BY <1>3, <1>5, <3>1, <3>2
  <2>5. v1'.wins = new /\ v1.wins = wins /\ n = Len(wins) /\ v1.cut \subseteq v1'.cut /\ v1.closed \subseteq v1'.closed
    BY <1>4 DEF wins, n
  <2> QED
    BY <2>1, <2>2, <2>3, <2>4, <2>5, Zenon DEF Grow
<1>12. TodoReady' /\ PaneMade'
  BY <1>4, <1>7, <1>11, JobStays
<1>13. ScriptReady'
  <2>1. \A s \in v2.scripts : s.own \in 1 .. n /\ s.own # n + 1 /\ (s.at = "split" => s.pane = 0)
    <3>1. \A s \in v2.scripts : s.own \in 1 .. n /\ (s.at = "split" => s.pane = 0)
      BY DEF WindowsInv, ScriptReady, ScriptHas, n, wins
    <3>2. n + 1 \notin 1 .. n
      BY <1>3
    <3> QED
      BY <3>1, <3>2
  <2>2. \A s, t \in v2.scripts : s.own = t.own => s = t
    BY DEF WindowsInv, ScriptReady
  <2>3. \A s, t \in v2'.scripts : s.own = t.own => s = t
    BY <1>6, <1>7, <2>1, <2>2
  <2>4. ASSUME NEW s \in v2'.scripts
        PROVE  ScriptHas(s)'
    <3>1. CASE s \in v2.scripts
      BY <1>4, <1>11, <2>1, <3>1, ScriptKept DEF ScriptHas
    <3>2. CASE s = script
      BY <1>4, <1>5, <1>6, <3>2 DEF ScriptHas
    <3> QED
      BY <1>7, <3>1, <3>2
  <2> QED
    BY <2>3, <2>4 DEF ScriptReady
<1>14. \A w, i : (InHand(w, i) => InHand(w, i)') /\ (Making(w, i) => Making(w, i)')
  BY <1>1, <1>7 DEF InHand, Making
<1>15. v2'.run # "none" => \A w \in v2'.listed :
         ToVisit(w)' \/ (v2.run # "none" /\ w \in v2.listed /\ ~ ToVisit(w))
  BY <1>7 DEF ToVisit
<1>16. \A i \in 1 .. Len(new[n + 1]) : ~ new[n + 1][i].bar
  <2> SUFFICES ASSUME NEW i \in 1 .. Len(new[n + 1])  PROVE ~ new[n + 1][i].bar
    OBVIOUS
  <2>1. new[n + 1] = win
    BY <1>3
  <2>2. Len(new[n + 1]) = 1
    BY <1>2, <2>1
  <2>3. i = 1
    BY <2>2
  <2> QED
    BY <1>2, <2>1, <2>3
<1>17. AllPlain
  <2> SUFFICES ASSUME NEW w \in 1 .. Len(new)
               PROVE  \A i \in 1 .. Len(new[w]) : new[w][i].bar => w \in 1 .. n /\ i \in 1 .. Len(wins[w])
    BY <1>4 DEF AllPlain, Plain, n, wins
  <2>1. CASE w \in 1 .. n
    BY <1>3, <2>1
  <2>2. CASE w = n + 1
    BY <1>16, <2>2
  <2> QED
    BY <1>3, <1>5, <2>1, <2>2
<1>18. BarsGrow /\ \A w \in 1 .. n : Plain(w) /\ w # n + 1
  <2>1. \A w \in 1 .. n : w \in 1 .. Len(v1'.wins) /\ w # n + 1
    BY <1>3, <1>4
  <2> QED
    BY <1>17, <2>1 DEF BarsGrow, AllPlain
<1>20. SplitAlone'
  <2>1. \A w \in 1 .. n : ~ Windows!ScriptIn(w) => Plain(w) /\ ~ Windows!ScriptIn(w)'
    BY <1>6, <1>7, <1>18 DEF Windows!ScriptIn
  <2> QED
    BY <1>7, <1>11, <2>1, SplitStays DEF n, wins
<1>21. ScriptFirst'
  <2> SUFFICES ASSUME NEW s \in v2'.scripts, s.at = "split", s.own \notin v1.cut
               PROVE  NoBar(s.own)'
    BY <1>4 DEF ScriptFirst
  <2>1. CASE s \in v2.scripts
    <3>1. s.own \in 1 .. n /\ NoBar(s.own)
      BY <2>1 DEF WindowsInv, ScriptReady, ScriptHas, ScriptFirst, n, wins
    <3> QED
      BY <1>4, <1>11, <1>18, <3>1, NoBarStays DEF n, wins
  <2>2. CASE s = script
    BY <1>4, <1>6, <1>16, <2>2 DEF NoBar, BarAt
  <2> QED
    BY <1>7, <2>1, <2>2
<1> QED
  BY <1>10, <1>11, <1>12, <1>13, <1>14, <1>15, <1>18, <1>20, <1>21, WindowsStep

\* The user goes to another window.
LEMMA WindowsSelect ==
  ASSUME WindowsInv, Windows!SelectWindow
  PROVE  WindowsInv'
<1>1. PICK w \in 1 .. Len(v1.wins) : v1' = [v1 EXCEPT !.current = w] /\ v2' = v2
  BY DEF Windows!SelectWindow, Windows!Windows
<1>2. v1 \in Worlds /\ v2 \in Jobs /\ WindowTypes /\ w \in Nat
  BY DEF WindowsInv, WindowTypes
<1> DEFINE S == Seq(Seq(Panes))
<1> HIDE DEF S
<1>3. v1 \in [wins : S, current : Nat, hook : BOOLEAN, cut : SUBSET Nat, closed : SUBSET Nat]
  BY <1>2 DEF Worlds, S
<1>4. /\ v1' \in [wins : S, current : Nat, hook : BOOLEAN, cut : SUBSET Nat, closed : SUBSET Nat]
      /\ v1'.wins = v1.wins /\ v1'.cut = v1.cut /\ v1'.closed = v1.closed /\ v1'.current = w
  BY <1>1, <1>2, <1>3
<1>5. v1' \in Worlds
  BY <1>4 DEF Worlds, S
<1>6. WindowTypes'
  BY <1>1, <1>2, <1>4, <1>5 DEF WindowTypes
<1>7. Grow /\ AllPlain
  BY <1>2, <1>4, GrowSame
<1>8. BarsGrow /\ \A u \in 1 .. Len(v1.wins) : Plain(u)
  BY <1>4, <1>7 DEF BarsGrow, AllPlain
<1>9. TodoReady' /\ PaneMade' /\ ScriptReady'
  BY <1>1, <1>5, <1>7, JobStays, ScriptStays
<1>10. \A u, k : (InHand(u, k) => InHand(u, k)') /\ (ToVisit(u) => ToVisit(u)') /\ (Making(u, k) => Making(u, k)')
  BY <1>1 DEF InHand, ToVisit, Making
<1>11. SplitAlone' /\ ScriptFirst'
  <2>1. \A u : Windows!ScriptIn(u)' <=> Windows!ScriptIn(u)
    BY <1>1 DEF Windows!ScriptIn
  <2> QED
    BY <1>1, <1>7, <1>8, <2>1, SplitStays, ScriptFirstStays
<1> QED
  BY <1>1, <1>6, <1>7, <1>8, <1>9, <1>10, <1>11, WindowsStep

\* The user closes a pane that is not the window's own.
LEMMA WindowsClose ==
  ASSUME WindowsInv, Windows!CloseBar
  PROVE  WindowsInv'
<1>1. /\ v1 \in Worlds /\ v2 \in Jobs /\ WindowTypes /\ v1.wins \in Seq(Seq(Panes)) /\ v2' = v2
  BY DEF WindowsInv, WindowTypes, Worlds, Windows!CloseBar
<1>2. PICK w \in 1 .. Len(v1.wins) : \E i \in 2 .. Len(v1.wins[w]) :
        v1' = [v1 EXCEPT !.wins[w][i].open = FALSE, !.closed = @ \cup {w}]
  BY DEF Windows!CloseBar, Windows!Windows
<1>3. PICK i \in 2 .. Len(v1.wins[w]) :
        v1' = [v1 EXCEPT !.wins[w][i].open = FALSE, !.closed = @ \cup {w}]
  BY <1>2
<1> DEFINE old == v1.wins
           q == [old[w][i] EXCEPT !.open = FALSE]
           win == [old[w] EXCEPT ![i] = q]
           wins == [old EXCEPT ![w] = win]
<1>4. Len(old) \in Nat /\ \A u \in 1 .. Len(old) : Len(old[u]) \in Nat
  <2>1. \A u \in 1 .. Len(old) : old[u] \in Seq(Panes)
    BY <1>1, ElementOfSeq
  <2> QED
    BY <1>1, <2>1, LenProperties
<1>5. old \in Seq(Seq(Panes)) /\ w \in 1 .. Len(old) /\ w \in Nat /\ i \in 1 .. Len(old[w])
  BY <1>1, <1>4
<1>6. old[w][i] \in Panes
  <2>1. old[w] \in Seq(Panes)
    BY <1>5, ElementOfSeq
  <2> QED
    BY <2>1, <1>5, ElementOfSeq
<1>7. /\ q \in Panes /\ q.bar = old[w][i].bar /\ q.tag = old[w][i].tag /\ q.runs = old[w][i].runs
  BY <1>6 DEF Panes
<1>8. /\ v1' = [v1 EXCEPT !.wins = wins, !.closed = @ \cup {w}]
      /\ win = [old[w] EXCEPT ![i] = q] /\ wins = [old EXCEPT ![w] = win]
  BY <1>3
<1> HIDE DEF wins, win, old
<1>9. /\ wins \in Seq(Seq(Panes)) /\ wins[w][i] = q /\ Len(wins) = Len(old)
      /\ \A u \in 1 .. Len(old) : Len(wins[u]) = Len(old[u])
      /\ \A u \in 1 .. Len(old) : \A k \in 1 .. Len(old[u]) : u # w \/ k # i => wins[u][k] = old[u][k]
  <2> HIDE DEF q
  <2> QED
    BY ONLY <1>5, <1>7, <1>8, WithMark, SMT
<1>10. /\ v1' \in Worlds /\ v1'.wins = wins /\ v1'.current = v1.current
       /\ v1.cut \subseteq v1'.cut /\ v1.closed \subseteq v1'.closed /\ w \in v1'.closed
  BY <1>1, <1>5, <1>8, <1>9, WithWins
<1> HIDE DEF q
<1>11. Grow
  <2>1. PaneGrows(w, i, old[w][i], wins[w][i])
    <3>1. ~ q.open
      BY <1>6 DEF Panes, q
    <3> QED
      BY <1>7, <1>9, <1>10, <3>1 DEF PaneGrows
  <2>2. ASSUME NEW u \in 1 .. Len(old), NEW k \in 1 .. Len(old[u])
        PROVE  PaneGrows(u, k, old[u][k], wins[u][k])
    <3>1. CASE u = w /\ k = i
      BY <2>1, <3>1
    <3>2. CASE ~ (u = w /\ k = i)
      <4>1. wins[u][k] = old[u][k]
        BY <1>9, <3>2
      <4> QED
        BY <4>1 DEF PaneGrows
    <3> QED
      BY <3>1, <3>2
  <2>3. Len(old) <= Len(wins) /\ \A u \in 1 .. Len(old) : Len(old[u]) <= Len(wins[u])
    BY <1>4, <1>9
  <2>4. \A u \in 1 .. Len(wins) : \A k \in 1 .. Len(wins[u]) : u \in 1 .. Len(old) /\ k \in 1 .. Len(old[u])
    BY <1>9
  <2>5. v1.wins = old
    BY DEF old
  <2> QED
    BY <1>10, <2>2, <2>3, <2>4, <2>5, Zenon DEF Grow
<1>12. WindowTypes'
  <2>1. Len(v1'.wins) = Len(v1.wins)
    BY <1>9, <1>10 DEF old
  <2> QED
    BY <1>1, <1>10, <1>11, <2>1, TypesStay
<1>13. TodoReady' /\ PaneMade' /\ ScriptReady'
  BY <1>1, <1>10, <1>11, JobStays, ScriptStays
<1>14. \A u, k : (InHand(u, k) => InHand(u, k)') /\ (ToVisit(u) => ToVisit(u)') /\ (Making(u, k) => Making(u, k)')
  BY <1>1 DEF InHand, ToVisit, Making
<1>15. BarsGrow /\ \A u \in 1 .. Len(v1.wins) : Plain(u)
  <2>1. \A u \in 1 .. Len(wins) : \A k \in 1 .. Len(wins[u]) : u \in 1 .. Len(old) /\ k \in 1 .. Len(old[u])
    BY <1>9
  <2> QED
    BY <1>9, <1>10, <2>1 DEF BarsGrow, Plain, old
<1>16. SplitAlone' /\ ScriptFirst'
  <2>1. \A u : Windows!ScriptIn(u)' <=> Windows!ScriptIn(u)
    BY <1>1 DEF Windows!ScriptIn
  <2> QED
    BY <1>1, <1>11, <1>15, <2>1, SplitStays, ScriptFirstStays
<1> QED
  BY <1>1, <1>11, <1>12, <1>13, <1>14, <1>15, <1>16, WindowsStep

\* The script s has done a step, and stays with the pane i of the window w.
Onward(s, w, i) ==
  LET rest == v2.scripts \ {s}
  IN  IF s.at = "keys" THEN rest ELSE rest \cup {Windows!Script(s.own, Windows!After(s.at), w, i)}
Advanced(s, w, i) ==
  /\ v2'.scripts = Onward(s, w, i)
  /\ v2' \in Jobs /\ v2'.todo = v2.todo /\ v2'.run = v2.run /\ v2'.pane = v2.pane /\ v2'.listed = v2.listed

\* A script that goes on, or fails, is one step further and the command is where it was.
LEMMA ScriptAdvances ==
  ASSUME v2 \in Jobs, NEW s \in v2.scripts, NEW w \in Nat, NEW i \in Nat,
         \/ v2' = Windows!ScriptGoes(s, w, i)
         \/ v2' = [Windows!ScriptGoes(s, w, i) EXCEPT !.fails = v2.fails + 1]
  PROVE  Advanced(s, w, i)
<1>1. Onward(s, w, i) \in SUBSET Scripts
  <2>1. s \in Scripts /\ v2.scripts \subseteq Scripts
    BY DEF Jobs
  <2>2. Windows!After(s.at) \in {"split", "title", "tag", "keys"}
    BY DEF Windows!After
  <2>3. Windows!Script(s.own, Windows!After(s.at), w, i) \in Scripts
    BY <2>1, <2>2 DEF Windows!Script, Scripts
  <2> QED
    BY <2>1, <2>3 DEF Onward
<1>2. Windows!ScriptGoes(s, w, i) = [v2 EXCEPT !.scripts = Onward(s, w, i)]
  BY DEF Windows!ScriptGoes, Onward
<1> DEFINE onward == Onward(s, w, i)
<1>3. onward \in SUBSET Scripts
  BY <1>1
<1> HIDE DEF onward
<1>4. v2' \in {[v2 EXCEPT !.scripts = onward], [v2 EXCEPT !.scripts = onward, !.fails = v2.fails + 1]}
  BY <1>2 DEF onward
<1>5. /\ v2'.scripts = onward
      /\ v2' \in Jobs /\ v2'.todo = v2.todo /\ v2'.run = v2.run /\ v2'.pane = v2.pane /\ v2'.listed = v2.listed
  <2>1. v2.fails + 1 \in Nat
    BY DEF Jobs
  <2>2. CASE v2' = [v2 EXCEPT !.scripts = onward]
    BY <1>3, <2>2 DEF Jobs
  <2>3. CASE v2' = [v2 EXCEPT !.scripts = onward, !.fails = v2.fails + 1]
    BY <1>3, <2>1, <2>3 DEF Jobs
  <2> QED
    BY <1>4, <2>2, <2>3
<1> QED
  BY <1>5 DEF Advanced, onward

\* The rest of the invariant, when a script has done a step.
LEMMA ScriptDone ==
  ASSUME WindowsInv, WindowTypes', Grow, NEW s \in v2.scripts, NEW w \in Nat, NEW i \in Nat, Advanced(s, w, i),
         s.at # "keys" /\ i > 0 =>
           /\ w \in 1 .. Len(v1'.wins) /\ i \in 1 .. Len(v1'.wins[w]) /\ v1'.wins[w][i].bar
           /\ w \notin v1'.cut => s.own = w,
         s.at = "keys" /\ s.pane > 0 => s.win \in v1'.cut \cup v1'.closed \/ v1'.wins[s.win][s.pane].runs,
         s.at \in {"title", "tag"} /\ s.pane > 0 =>
           \/ s.win \in v1'.cut \/ v1'.wins[s.win][s.pane].tag \/ ~ v1'.wins[s.win][s.pane].open
           \/ s.at = "title" /\ w = s.win /\ i = s.pane,
         BarsGrow, \A u \in 1 .. Len(v1.wins) : u # s.own => Plain(u)
  PROVE  WindowsInv'
<1> DEFINE t == Windows!Script(s.own, Windows!After(s.at), w, i)
<1>1. /\ v2'.todo = v2.todo /\ v2'.run = v2.run /\ v2'.pane = v2.pane /\ v2'.listed = v2.listed
      /\ \A r \in v2'.scripts : (r \in v2.scripts /\ r # s) \/ (r = t /\ s.at # "keys")
      /\ \A r \in v2.scripts : r # s => r \in v2'.scripts
      /\ s.at # "keys" => t \in v2'.scripts
  BY DEF Advanced, Onward
<1>2. /\ t.own = s.own /\ t.win = w /\ t.pane = i /\ t.at = Windows!After(s.at)
  BY DEF Windows!Script
<1>3. t.at # "split" /\ (s.at = "title" => t.at = "tag")
  BY <1>2 DEF Windows!After
<1> HIDE DEF t
<1>4. \A q, r \in v2.scripts : q.own = r.own => q = r
  BY DEF WindowsInv, ScriptReady
<1>5. TodoReady' /\ PaneMade'
  BY <1>1, JobStays DEF WindowTypes
<1>6. ScriptReady'
  <2>1. \A q, r \in v2'.scripts : q.own = r.own => q = r
    BY <1>1, <1>2, <1>4
  <2>2. ASSUME NEW r \in v2'.scripts
        PROVE  ScriptHas(r)'
    <3>1. CASE r \in v2.scripts
      <4>1. r.at = "split" => r.pane = 0
        BY <3>1 DEF WindowsInv, ScriptReady, ScriptHas
      <4> QED
        BY <3>1, <4>1, ScriptKept DEF ScriptHas, WindowTypes
    <3>2. CASE r = t /\ s.at # "keys"
      <4>1. s.own \in 1 .. Len(v1'.wins)
        BY ScriptKept DEF WindowTypes
      <4> QED
        BY <1>2, <1>3, <3>2, <4>1 DEF ScriptHas
    <3> QED
      BY <1>1, <3>1, <3>2
  <2> QED
    BY <2>1, <2>2 DEF ScriptReady
<1>7. \A u \in 1 .. Len(v1.wins) : \A k \in 1 .. Len(v1.wins[u]) :
        InHand(u, k) => InHand(u, k)' \/ u \in v1'.cut \cup v1'.closed \/ v1'.wins[u][k].runs
  BY <1>1 DEF InHand
<1>8. \A u : ToVisit(u) => ToVisit(u)'
  BY <1>1 DEF ToVisit
<1>9. \A u \in 1 .. Len(v1.wins) : \A k \in 1 .. Len(v1.wins[u]) : Making(u, k) =>
        Making(u, k)' \/ u \in v1'.cut \/ v1'.wins[u][k].tag \/ ~ v1'.wins[u][k].open
  BY <1>1, <1>2, <1>3 DEF Making
<1>10. ScriptFirst'
  <2> SUFFICES ASSUME NEW r \in v2'.scripts, r.at = "split", r.own \notin v1'.cut
               PROVE  NoBar(r.own)'
    BY DEF ScriptFirst
  <2>1. r \in v2.scripts /\ r # s
    BY <1>1, <1>3
  <2>2. r.own # s.own /\ r.own \in 1 .. Len(v1.wins) /\ r.own \notin v1.cut
    BY <1>4, <2>1 DEF WindowsInv, ScriptReady, ScriptHas, Grow
  <2>3. NoBar(r.own)
    BY <2>1, <2>2 DEF WindowsInv, ScriptFirst
  <2> QED
    BY <2>2, <2>3, NoBarStays
<1>11. SplitAlone'
  <2>1. Windows!ScriptIn(s.own)
    BY DEF Windows!ScriptIn
  <2>2. \A u : Windows!ScriptIn(u)' => Windows!ScriptIn(u)
    BY <1>1, <1>2 DEF Windows!ScriptIn
  <2> QED
    BY <1>1, <2>1, <2>2, SplitStays
<1> QED
  BY <1>1, <1>5, <1>6, <1>7, <1>8, <1>9, <1>10, <1>11, WindowsStep

\* A script that fails leaves tmux alone, and may mark its window.
LEMMA ScriptFails ==
  ASSUME WindowsInv, NEW s \in v2.scripts, Windows!ScriptFails(s),
         \/ v1' = v1 /\ s.pane = 0
         \/ v1' = [v1 EXCEPT !.cut = @ \cup {s.win}] /\ s.pane > 0
  PROVE  WindowsInv'
<1>1. v2 \in Jobs /\ s.win \in Nat /\ s.pane \in Nat
  BY DEF WindowsInv, WindowTypes, Jobs, Scripts
<1>2. Advanced(s, s.win, s.pane)
  BY <1>1, ScriptAdvances DEF Windows!ScriptFails
<1>3. v2' \in Jobs
  BY <1>2 DEF Advanced
<1>4. /\ WindowTypes' /\ Grow /\ BarsGrow /\ \A u \in 1 .. Len(v1.wins) : Plain(u)
      /\ s.pane > 0 => s.win \in v1'.cut
  BY <1>1, <1>3, SameWorld
<1>5. s.pane > 0 => s.win \in 1 .. Len(v1'.wins) /\ s.pane \in 1 .. Len(v1'.wins[s.win]) /\ v1'.wins[s.win][s.pane].bar
  BY <1>4, ScriptKept DEF WindowTypes
<1> QED
  BY <1>1, <1>2, <1>4, <1>5, ScriptDone

\* It splits the current window, its own or one that is marked then.
LEMMA WindowsScriptSplits ==
  ASSUME WindowsInv, NEW s \in v2.scripts, Windows!ScriptSplits(s)
  PROVE  WindowsInv'
<1>1. v2 \in Jobs /\ WindowTypes /\ v1 \in Worlds /\ s.at = "split"
  BY DEF WindowsInv, WindowTypes, Windows!ScriptSplits
<1>2. s.own \in 1 .. Len(v1.wins) /\ s.pane = 0
  BY <1>1 DEF WindowsInv, ScriptReady, ScriptHas
<1>3. PICK w \in 1 .. Len(v1.wins) : w = v1.current
  <2>1. v1.wins \in Seq(Seq(Panes))
    BY <1>1 DEF Worlds
  <2>2. Len(v1.wins) \in Nat
    BY <2>1, LenProperties
  <2>3. Len(v1.wins) > 0
    BY <1>2, <2>2
  <2> QED
    BY <1>1, <2>3 DEF WindowTypes
<1>4. CASE Windows!ScriptFails(s) /\ v1' = v1
  BY <1>2, <1>4, ScriptFails
<1>5. CASE /\ v1' = IF w = s.own THEN Windows!SplitIn(w) ELSE [Windows!SplitIn(w) EXCEPT !.cut = @ \cup {w}]
           /\ v2' = Windows!ScriptGoes(s, w, Len(v1.wins[w]) + 1)
  <2>1. v1.wins \in Seq(Seq(Panes)) /\ v1.wins[w] \in Seq(Panes)
    BY <1>1, ElementOfSeq DEF Worlds
  <2>2. PICK i \in Nat : i = Len(v1.wins[w]) + 1 /\ i > 0
    BY <2>1, LenProperties
  <2>3. Advanced(s, w, i)
    <3>1. v2' = Windows!ScriptGoes(s, w, i) /\ w \in Nat
      BY <1>5, <2>2
    <3> QED
      BY <1>1, <3>1, ScriptAdvances
  <2>4. v2' \in Jobs
    BY <2>3 DEF Advanced
  <2>5. v1' \in {Windows!SplitIn(w), [Windows!SplitIn(w) EXCEPT !.cut = @ \cup {w}]}
    BY <1>5
  <2>6. /\ WindowTypes' /\ Grow /\ Len(v1'.wins) = Len(v1.wins)
        /\ Len(v1'.wins[w]) = i /\ v1'.wins[w][i].bar
        /\ v1' = [Windows!SplitIn(w) EXCEPT !.cut = @ \cup {w}] => w \in v1'.cut
        /\ \A u \in 1 .. Len(v1.wins) : u # w => Plain(u)
    BY <2>2, <2>4, <2>5, SplitGrows
  <2>7. w # s.own => w \in v1'.cut
    BY <1>5, <2>6
  <2>8. /\ w \in 1 .. Len(v1'.wins) /\ i \in 1 .. Len(v1'.wins[w]) /\ v1'.wins[w][i].bar
        /\ w \notin v1'.cut => s.own = w
    BY <2>2, <2>6, <2>7
  <2>9. \A u \in 1 .. Len(v1.wins) : u # s.own => Plain(u)
    BY <2>6, <2>7 DEF Plain
  <2>10. w = s.own => SplitOff(w)
    <3>1. w = s.own /\ w \notin v1.cut => NoBar(w)
      BY <1>1 DEF WindowsInv, ScriptFirst
    <3>2. Making(w, i)'
      <4>1. /\ Windows!Script(s.own, Windows!After(s.at), w, i) \in v2'.scripts
            /\ Windows!After(s.at) = "title"
        BY <1>1, <2>3 DEF Advanced, Onward, Windows!After
      <4> QED
        BY <4>1 DEF Making, Windows!Script
    <3>3. \A k \in 1 .. Len(v1'.wins[w]) : k \in 1 .. Len(v1.wins[w]) \/ k = i
      BY <2>1, <2>2, <2>6, LenProperties
    <3> QED
      BY <3>1, <3>2, <3>3 DEF SplitOff
  <2>11. BarsGrow
    BY <2>6, <2>7, <2>10 DEF BarsGrow, Plain
  <2> QED
    BY <1>1, <1>2, <2>2, <2>3, <2>6, <2>8, <2>9, <2>11, ScriptDone
<1> QED
  BY <1>1, <1>3, <1>4, <1>5 DEF Windows!ScriptSplits

\* It titles, tags or starts the pane that it has split off, if that is still open.
LEMMA WindowsScriptMarks ==
  ASSUME WindowsInv, NEW s \in v2.scripts, Windows!ScriptMarks(s)
  PROVE  WindowsInv'
<1>1. /\ v2 \in Jobs /\ WindowTypes /\ s.at \in {"title", "tag", "keys"} /\ s.pane > 0 /\ s.win \in Nat /\ s.pane \in Nat
  BY DEF WindowsInv, WindowTypes, Jobs, Scripts, Windows!ScriptMarks
<1>2. PICK w \in 1 .. Len(v1.wins) : \E i \in 1 .. Len(v1.wins[w]) :
        w = s.win /\ i = s.pane /\ v1.wins[w][i].bar /\ (w \notin v1.cut => s.own = w)
  BY <1>1 DEF WindowsInv, ScriptReady, ScriptHas
<1>3. PICK i \in 1 .. Len(v1.wins[w]) :
        w = s.win /\ i = s.pane /\ v1.wins[w][i].bar /\ (w \notin v1.cut => s.own = w)
  BY <1>2
<1>4. CASE Windows!ScriptFails(s) /\ v1' = [v1 EXCEPT !.cut = @ \cup {s.win}]
  BY <1>1, <1>4, ScriptFails
<1>5. ASSUME v2' = Windows!ScriptGoes(s, w, i), WindowTypes', Grow, AllPlain, Len(v1'.wins) = Len(v1.wins),
             s.at = "keys" => w \in v1'.cut \cup v1'.closed \/ v1'.wins[w][i].runs,
             s.at = "tag" => v1'.wins[w][i].tag \/ ~ v1'.wins[w][i].open
      PROVE  WindowsInv'
  <2>1. Advanced(s, w, i)
    BY <1>1, <1>3, <1>5, ScriptAdvances
  <2>2. w \in 1 .. Len(v1'.wins) /\ i \in 1 .. Len(v1'.wins[w]) /\ v1'.wins[w][i].bar /\ (w \notin v1'.cut => s.own = w)
    BY <1>1, <1>3, <1>5, ScriptKept DEF WindowTypes
  <2>3. BarsGrow /\ \A u \in 1 .. Len(v1.wins) : Plain(u)
    BY <1>5 DEF BarsGrow, AllPlain
  <2> QED
    BY <1>1, <1>3, <1>5, <2>1, <2>2, <2>3, ScriptDone
<1>6. CASE v1' = v1 /\ v2' = Windows!ScriptGoes(s, w, i) /\ (s.at = "title" \/ ~ v1.wins[w][i].open)
  <2>1. Advanced(s, w, i)
    BY <1>1, <1>3, <1>6, ScriptAdvances
  <2>2. v2' \in Jobs
    BY <2>1 DEF Advanced
  <2>3. WindowTypes' /\ Grow /\ AllPlain
    BY <1>1, <1>3, <1>6, <2>2, SameWorld
  <2>4. s.at = "title" \/ w \in v1'.closed
    BY <1>3, <1>6 DEF WindowsInv, ClosedKnown
  <2> QED
    BY <1>5, <1>6, <2>3, <2>4
<1>7. CASE /\ v1.wins[w][i].open /\ s.at # "title" /\ v2' = Windows!ScriptGoes(s, w, i)
           /\ v1' = [v1 EXCEPT !.wins[w][i][IF s.at = "tag" THEN "tag" ELSE "runs"] = TRUE]
  <2>1. PICK f \in {"tag", "runs"} : f = IF s.at = "tag" THEN "tag" ELSE "runs"
    OBVIOUS
  <2>2. Advanced(s, w, i)
    BY <1>1, <1>3, <1>7, ScriptAdvances
  <2>3. v2' \in Jobs
    BY <2>2 DEF Advanced
  <2>4. f = "tag" => v1.wins[w][i].bar /\ InHand(w, i)'
    <3>1. f = "tag" => s.at = "tag"
      BY <2>1
    <3>2. s.at = "tag" => /\ Windows!Script(s.own, Windows!After(s.at), w, i) \in v2'.scripts
                          /\ Windows!After(s.at) = "keys"
      BY <2>2 DEF Advanced, Onward, Windows!After
    <3>3. s.at = "tag" => InHand(w, i)'
      BY <3>2 DEF InHand, Windows!Script
    <3> QED
      BY <1>3, <3>1, <3>3
  <2>5. v1' = [v1 EXCEPT !.wins[w][i][f] = TRUE]
    BY <1>7, <2>1
  <2>6. Marking(w, i, f)
    BY <2>3, <2>4, <2>5 DEF Marking
  <2>7. Marked(w, i, f)
    BY <2>6, MarkGrows
  <2>8. /\ WindowTypes' /\ Grow /\ AllPlain /\ Len(v1'.wins) = Len(v1.wins)
        /\ v1'.wins[w][i] = [v1.wins[w][i] EXCEPT ![f] = TRUE] /\ v1.wins[w][i] \in Panes
    BY ONLY <2>7 DEF Marked
  <2>9. (f = "tag" => v1'.wins[w][i].tag) /\ (f = "runs" => v1'.wins[w][i].runs)
    BY <2>8 DEF Panes
  <2>10. (s.at = "tag" => v1'.wins[w][i].tag) /\ (s.at = "keys" => v1'.wins[w][i].runs)
    BY <2>1, <2>9
  <2> QED
    BY <1>5, <1>7, <2>8, <2>10
<1>8. \/ Windows!ScriptFails(s) /\ v1' = [v1 EXCEPT !.cut = @ \cup {s.win}]
      \/ v1' = v1 /\ v2' = Windows!ScriptGoes(s, w, i) /\ (s.at = "title" \/ ~ v1.wins[w][i].open)
      \/ /\ v1.wins[w][i].open /\ s.at # "title" /\ v2' = Windows!ScriptGoes(s, w, i)
         /\ v1' = [v1 EXCEPT !.wins[w][i][IF s.at = "tag" THEN "tag" ELSE "runs"] = TRUE]
  BY <1>1, <1>3 DEF Windows!ScriptMarks, Windows!MarkedBy
<1> QED
  BY <1>4, <1>6, <1>7, <1>8

\* Without a pane of its own it marks one of the current window, and that window is marked.
LEMMA WindowsScriptStrays ==
  ASSUME WindowsInv, NEW s \in v2.scripts, Windows!ScriptStrays(s)
  PROVE  WindowsInv'
<1>1. /\ v2 \in Jobs /\ WindowTypes /\ v1 \in Worlds /\ s.at # "split" /\ s.pane = 0
      /\ s.at \in {"title", "tag", "keys"} /\ 0 \in Nat
  BY DEF WindowsInv, WindowTypes, Jobs, Scripts, Windows!ScriptStrays
<1>2. s.own \in 1 .. Len(v1.wins)
  BY DEF WindowsInv, ScriptReady, ScriptHas
<1>3. PICK w \in 1 .. Len(v1.wins) : w = v1.current
  <2>1. v1.wins \in Seq(Seq(Panes))
    BY <1>1 DEF Worlds
  <2>2. Len(v1.wins) \in Nat
    BY <2>1, LenProperties
  <2>3. Len(v1.wins) > 0
    BY <1>2, <2>2
  <2> QED
    BY <1>1, <2>3 DEF WindowTypes
<1>4. CASE Windows!ScriptFails(s) /\ v1' = v1
  BY <1>1, <1>4, ScriptFails
<1>5. CASE /\ \E i \in 1 .. Len(v1.wins[w]) :
                v1.wins[w][i].open /\ v1' = [Windows!MarkedBy(s, w, i) EXCEPT !.cut = @ \cup {w}]
           /\ v2' = Windows!ScriptGoes(s, 0, 0)
  <2>1. Advanced(s, 0, 0)
    BY <1>1, <1>5, ScriptAdvances
  <2>2. v2' \in Jobs /\ w \in Nat
    BY <2>1 DEF Advanced
  <2>3. PICK i \in 1 .. Len(v1.wins[w]) : v1' = [Windows!MarkedBy(s, w, i) EXCEPT !.cut = @ \cup {w}]
    BY <1>5
  <2>4. WindowTypes' /\ Grow /\ AllPlain /\ Len(v1'.wins) = Len(v1.wins)
    <3>1. CASE s.at = "title"
      <4>1. v1' = [v1 EXCEPT !.cut = @ \cup {w}]
        BY <2>3, <3>1 DEF Windows!MarkedBy
      <4> QED
        BY <2>2, <4>1, SameWorld
    <3>2. CASE s.at # "title"
      <4>1. PICK f \in {"tag", "runs"} : f = IF s.at = "tag" THEN "tag" ELSE "runs"
        OBVIOUS
      <4>2. Windows!MarkedBy(s, w, i) = [v1 EXCEPT !.wins[w][i][f] = TRUE]
        BY <3>2, <4>1 DEF Windows!MarkedBy
      <4>3. v1' = [v1 EXCEPT !.wins[w][i][f] = TRUE, !.cut = @ \cup {w}]
        BY <1>1, <2>3, <4>2 DEF Worlds
      <4>4. Marking(w, i, f)
        BY <2>2, <4>3 DEF Marking
      <4>5. Marked(w, i, f)
        BY <4>4, MarkGrows
      <4> QED
        BY ONLY <4>5 DEF Marked
    <3> QED
      BY <3>1, <3>2
  <2>5. BarsGrow /\ \A u \in 1 .. Len(v1.wins) : Plain(u)
    BY <2>4 DEF BarsGrow, AllPlain
  <2> QED
    BY <1>1, <2>1, <2>4, <2>5, ScriptDone
<1> QED
  BY <1>1, <1>3, <1>4, <1>5 DEF Windows!ScriptStrays

\* A step of a script keeps the invariant, whatever window it comes to.
LEMMA WindowsScript ==
  ASSUME WindowsInv, Windows!ScriptStep
  PROVE  WindowsInv'
BY WindowsScriptSplits, WindowsScriptMarks, WindowsScriptStrays DEF Windows!ScriptStep

\* Whatever the step, the windows' invariant stays.
LEMMA WindowsKeepInv ==
  ASSUME WindowsInv, [Windows!Next]_<<v1, v2>>
  PROVE  WindowsInv'
<1>1. CASE UNCHANGED <<v1, v2>>
  BY <1>1 DEF WindowsInv, WindowTypes, TodoReady, PaneMade, ScriptReady, ScriptHas, ClosedKnown, TaggedIsBar, InHand,
              ListedServed, HasSidebar, ToVisit, OneBar, BarKnown, SplitAlone, ScriptFirst, BarAt, NoBar,
              Making, Windows!ScriptIn
<1> QED
  BY <1>1, WindowsStart, WindowsPlain, WindowsNewSession, WindowsList, WindowsListPanes, WindowsSplit,
     WindowsMark, WindowsNewWindow, WindowsSelect, WindowsClose, WindowsScript DEF Windows!Next

\* An attach that ends with success leaves each window whole, cut by a failure, or closed.
LEMMA WindowsComplete == WindowsInv => Windows!Completes
<1> SUFFICES ASSUME WindowsInv, v2.run = "attach", v2.todo = <<>>, NEW w \in v2.listed \ (v1.cut \cup v1.closed)
             PROVE  \E i \in 1 .. Len(v1.wins[w]) :
                      v1.wins[w][i].bar /\ v1.wins[w][i].open /\ v1.wins[w][i].tag /\ v1.wins[w][i].runs
  BY DEF Windows!Completes
<1>1. ~ ToVisit(w)
  <2>1. Len(v2.todo) = 0
    OBVIOUS
  <2> QED
    BY <2>1 DEF ToVisit
<1> QED
  BY <1>1 DEF WindowsInv, ListedServed, HasSidebar

\* In a window that no failure has cut short there is one sidebar at most.
LEMMA WindowsOne == WindowsInv => Windows!OneSidebar
<1> SUFFICES ASSUME WindowsInv, NEW w \in (1 .. Len(v1.wins)) \ v1.cut
             PROVE  Windows!Cardinality({i \in 1 .. Len(v1.wins[w]) : v1.wins[w][i].bar /\ v1.wins[w][i].open}) <= 1
  BY DEF Windows!OneSidebar, Windows!Windows
<1> DEFINE S == {i \in 1 .. Len(v1.wins[w]) : v1.wins[w][i].bar /\ v1.wins[w][i].open}
<1>1. \A i, j \in S : i = j
  BY DEF WindowsInv, OneBar, BarAt
<1> HIDE DEF S
<1>2. Cardinality(S) <= 1
  <2>1. CASE S = {}
    BY <2>1, FS_EmptySet
  <2>2. CASE S # {}
    <3>1. PICK k : S = {k}
      BY <1>1, <2>2
    <3>2. Cardinality({k}) = 1
      BY FS_Singleton
    <3> QED
      BY <3>1, <3>2
  <2> QED
    BY <2>1, <2>2
<1>3. Windows!Cardinality(S) = Cardinality(S)
  BY DEF Windows!Cardinality, Cardinality
<1> QED
  BY <1>2, <1>3 DEF S

-----------------------------------------------------------------------------
(* Spawn.  Its variables are v1 (world) and v2 (job).                        *)

\* Every word of the model.
SpawnWords ==
  {"absent", "unreadable", "empty", "tables", "none", "words", "long", "one_word", "option", "newline",
   "global", "own", "claude", "codex", "amp", "unset", "wrapper", "", "mine", "--model", "-m", "positional",
   "keystrokes", "unsupported", "home", "worktree", "cc", "bare", "other"}
SpawnDefs == [binary : SpawnWords, model : SpawnWords, prompt : SpawnWords]
SpawnTables == [binary : SpawnWords, model : SpawnWords]
SpawnCmds == [bin : SpawnWords, model : SpawnWords, cwd : SpawnWords, prompt : SpawnWords]
SpawnPanes == [alive : BOOLEAN, cwd : SpawnWords, typed : SpawnCmds, runs : SpawnCmds]
SpawnAsks == [harness : SpawnWords, model : BOOLEAN, prompt : SpawnWords, worktree : BOOLEAN, target : Nat]

MakeTypes ==
  /\ v1 \in [config : SpawnWords, env : SUBSET SpawnWords, tmux : BOOLEAN, stdout : BOOLEAN, caller : Nat,
             panes : Seq(SpawnPanes), reported : SUBSET Nat]
  /\ v2 \in [at : {"none", "list", "cwd", "split", "type", "enter", "end"}, ask : SpawnAsks,
             def : SpawnDefs, cmd : SpawnCmds, target : Nat, pane : Nat, fails : Nat, gone : Nat,
             why : {"none", "refused", "list", "split", "keys", "done", "print"}]

\* There are the two panes that were there, and the one made; its id is printed, by
\* the time that anything is typed there.
PanesCounted ==
  /\ v2.at \in {"none", "list", "cwd", "split"} => Len(v1.panes) = 2
  /\ v2.at \in {"type", "enter"} =>
       Len(v1.panes) = 3 /\ v2.pane = 3 /\ (v1.stdout => 3 \in v1.reported)
  /\ v2.at = "end" =>
       \/ Len(v1.panes) = 2
       \/ /\ Len(v1.panes) = 3 /\ v2.why # "refused"
          /\ v2.why = "split" \/ ~ v1.stdout \/ 3 \in v1.reported
  /\ v2.at # "end" => v2.why = "none"

\* A command has what was asked for; a model only of a harness that takes one.
AsAsked(cmd) == (v2.ask.model <=> cmd.model # "") /\ cmd.prompt = v2.ask.prompt
CommandAsked ==
  /\ v2.at \in {"list", "cwd"} /\ v2.ask.model => v2.def.model # ""
  /\ v2.at \in {"split", "type"} => AsAsked(v2.cmd)
  /\ Len(v1.panes) = 3 => \A cmd \in {v1.panes[3].typed, v1.panes[3].runs} : cmd = Make!Nothing \/ AsAsked(cmd)

MakeInv == MakeTypes /\ PanesCounted /\ CommandAsked

\* Words that the actions use.
LEMMA MakeWords ==
  /\ {"none", "positional", "unsupported", "keystrokes"} \subseteq SpawnWords
  /\ {"claude", "codex", "amp", "unset", "wrapper", "", "mine", "--model", "-m"} \subseteq SpawnWords
  /\ {"cc", "bare", "other", "home", "worktree", "own", "global"} \subseteq SpawnWords
  /\ Make!Configs \subseteq SpawnWords /\ Make!Prompts \subseteq SpawnWords
BY DEF SpawnWords, Make!Configs, Make!Prompts

\* A harness has a name, a model option and a way to take a prompt, whatever the tables.
LEMMA SpawnDefined ==
  ASSUME NEW config \in SpawnWords, NEW harness \in SpawnWords, NEW d \in Make!ResolveSpawnHarness(config, harness)
  PROVE  d \in SpawnDefs
<1> DEFINE name == IF harness = "none" THEN Make!Default(config) ELSE harness
           id == Make!Canonical(name)
           tables == Make!Definitions(config)
<1>1. \A n \in DOMAIN tables : tables[n] \in SpawnTables
  <2>1. CASE config = "tables"
    <3>1. \A n \in DOMAIN Make!Tables : Make!Tables[n] \in SpawnTables
      <4> DEFINE t == Make!Tables
      <4>1. /\ t.claude \in SpawnTables /\ t.cc \in SpawnTables /\ t.codex \in SpawnTables
            /\ t.mine \in SpawnTables /\ t.bare \in SpawnTables
        BY MakeWords DEF Make!Tables, Make!Overlay, SpawnTables
      <4>2. DOMAIN t = {"claude", "cc", "codex", "mine", "bare"}
        BY DEF Make!Tables
      <4> HIDE DEF t
      <4>3. \A n \in DOMAIN t : t[n] \in SpawnTables
        BY <4>1, <4>2
      <4> QED
        BY <4>3 DEF t
    <3> QED
      BY <2>1, <3>1 DEF Make!Definitions
  <2>2. CASE config # "tables"
    BY <2>2 DEF Make!Definitions
  <2> QED
    BY <2>1, <2>2
<1>2. \A n \in DOMAIN Make!Builtin : Make!Builtin[n] \in SpawnDefs
  <2> DEFINE t == Make!Builtin
  <2>1. t.claude \in SpawnDefs /\ t.codex \in SpawnDefs /\ t.amp \in SpawnDefs
    BY MakeWords DEF Make!Builtin, Make!Definition, SpawnDefs
  <2>2. DOMAIN t = {"claude", "codex", "amp"}
    BY DEF Make!Builtin
  <2> HIDE DEF t
  <2>3. \A n \in DOMAIN t : t[n] \in SpawnDefs
    BY <2>1, <2>2
  <2> QED
    BY <2>3 DEF t
<1>3. ASSUME NEW b \in SpawnDefs, NEW o \in SpawnTables
      PROVE  Make!ApplyConfig(b, o) \in SpawnDefs
  BY DEF SpawnDefs, SpawnTables, Make!ApplyConfig
<1>4. ASSUME NEW b \in SpawnDefs, NEW n
      PROVE  Make!Applied(b, config, n) \in SpawnDefs
  BY <1>1, <1>3 DEF Make!Applied
<1>5. ASSUME NEW o \in SpawnTables
      PROVE  Make!FromCustom(o) \in SpawnDefs
  BY <1>5, MakeWords DEF SpawnDefs, SpawnTables, Make!FromCustom, Make!Definition
<1>6. \/ config # "unreadable" /\ id \in DOMAIN Make!Builtin
         /\ d = Make!Applied(Make!Applied(Make!Builtin[id], config, id), config, name)
      \/ \E n \in DOMAIN tables : d = Make!FromCustom(tables[n])
  <2> DEFINE one == {Make!Applied(Make!Applied(Make!Builtin[id], config, id), config, name)}
             own == {Make!FromCustom(tables[n]) : n \in {m \in DOMAIN tables : m = name /\ tables[m].binary # ""}}
  <2>1. d \in CASE config = "unreadable" -> {}
                [] config # "unreadable" /\ id \in DOMAIN Make!Builtin -> one
                [] config # "unreadable" /\ id \notin DOMAIN Make!Builtin -> own
    BY DEF Make!ResolveSpawnHarness
  <2> HIDE DEF one, own, id
  <2>2. (config # "unreadable" /\ id \in DOMAIN Make!Builtin /\ d \in one) \/ d \in own
    BY <2>1
  <2> QED
    BY <2>2 DEF one, own
<1> HIDE DEF id, name, tables
<1>7. CASE config # "unreadable" /\ id \in DOMAIN Make!Builtin
           /\ d = Make!Applied(Make!Applied(Make!Builtin[id], config, id), config, name)
  BY <1>2, <1>4, <1>7
<1>8. CASE \E n \in DOMAIN tables : d = Make!FromCustom(tables[n])
  BY <1>1, <1>5, <1>8
<1> QED
  BY <1>6, <1>7, <1>8

\* A pane that is new runs nothing.
LEMMA SpawnPane ==
  /\ Make!Nothing \in SpawnCmds
  /\ Make!Pane("home") \in SpawnPanes
  /\ Make!Pane("home").typed = Make!Nothing /\ Make!Pane("home").runs = Make!Nothing
BY MakeWords DEF Make!Nothing, Make!Pane, SpawnCmds, SpawnPanes

\* At first there are two panes and no command.
LEMMA MakeInit == Make!Init => MakeInv
<1> SUFFICES ASSUME Make!Init  PROVE MakeInv
  OBVIOUS
<1> DEFINE home == Make!Pane("home")
           none == Make!Nothing
<1>1. PICK config \in Make!Configs, env \in {{}, {"global"}, {"own", "global"}}, tmux \in BOOLEAN,
           stdout \in BOOLEAN, caller \in 0 .. 1 :
        v1 = [config |-> config, env |-> env, tmux |-> tmux, stdout |-> stdout, caller |-> caller,
              panes |-> <<home, home>>, reported |-> {}]
  BY DEF Make!Init
<1>2. v2 = [at |-> "none", ask |-> [harness |-> "none", model |-> FALSE, prompt |-> "none",
                                    worktree |-> FALSE, target |-> 0],
            def |-> [binary |-> "claude", model |-> "--model", prompt |-> "positional"],
            cmd |-> none, target |-> 0, pane |-> 0, fails |-> 0, gone |-> 0, why |-> "none"]
  BY DEF Make!Init, Make!Builtin, Make!Definition
<1>3. home \in SpawnPanes /\ none \in SpawnCmds
  BY SpawnPane
<1>4. config \in SpawnWords /\ env \in SUBSET SpawnWords /\ caller \in Nat
  <2>1. env \subseteq {"own", "global"}
    OBVIOUS
  <2>2. config \in SpawnWords /\ env \subseteq SpawnWords
    BY <2>1, MakeWords
  <2>3. caller \in Nat
    OBVIOUS
  <2> QED
    BY <2>2, <2>3
<1> HIDE DEF home, none
<1>5. <<home, home>> \in Seq(SpawnPanes) /\ Len(<<home, home>>) = 2
  BY <1>3
<1>6. MakeTypes
  <2>1. [harness |-> "none", model |-> FALSE, prompt |-> "none", worktree |-> FALSE, target |-> 0] \in SpawnAsks
    BY MakeWords DEF SpawnAsks
  <2>2. [binary |-> "claude", model |-> "--model", prompt |-> "positional"] \in SpawnDefs
    BY MakeWords DEF SpawnDefs
  <2> QED
    BY <1>1, <1>2, <1>3, <1>4, <1>5, <2>1, <2>2 DEF MakeTypes
<1>7. v2.at = "none" /\ v2.why = "none" /\ Len(v1.panes) = 2
  BY <1>1, <1>2, <1>5
<1> QED
  BY <1>6, <1>7 DEF MakeInv, PanesCounted, CommandAsked

\* A command that ends leaves the tmux panes as they are.
LEMMA MakeEnds ==
  ASSUME MakeInv, NEW why \in {"refused", "list", "split", "keys", "done", "print"}, v1' = v1,
         v2' = Make!Ends(why) \/ v2' = Make!Failed(why),
         v2.at \in {"list", "cwd", "split", "type", "enter"},
         why = "refused" => v2.at = "cwd"
  PROVE  MakeInv'
<1>1. v2.fails + 1 \in Nat
  BY DEF MakeInv, MakeTypes
<1>2. /\ v2'.at = "end" /\ v2'.why = why /\ v2'.ask = v2.ask
  BY DEF Make!Ends, Make!Failed, MakeInv, MakeTypes
<1>3. MakeTypes'
  BY <1>1 DEF Make!Ends, Make!Failed, MakeInv, MakeTypes
<1>4. PanesCounted'
  BY <1>2 DEF MakeInv, PanesCounted
<1>5. CommandAsked'
  BY <1>2 DEF MakeInv, CommandAsked, AsAsked
<1> QED
  BY <1>3, <1>4, <1>5 DEF MakeInv

\* What is asked is refused, or of a harness that can do it.
LEMMA MakeResolve ==
  ASSUME MakeInv, Make!Resolve
  PROVE  MakeInv'
<1>1. PICK harness \in {"none", "claude", "cc", "amp", "mine", "bare", "other"}, model \in BOOLEAN,
           worktree \in BOOLEAN, prompt \in Make!Prompts, target \in 0 .. 1 :
        LET ask == [harness |-> harness, model |-> model, prompt |-> prompt, worktree |-> worktree,
                    target |-> target]
            defs == Make!ResolveSpawnHarness(v1.config, harness)
        IN  v2' = IF Make!Refused(ask, defs) \/ ~ v1.tmux THEN [Make!Ends("refused") EXCEPT !.ask = ask]
                  ELSE [v2 EXCEPT !.at = "list", !.ask = ask, !.def = CHOOSE d \in defs : TRUE]
  BY DEF Make!Resolve
<1>2. v1' = v1 /\ v2.at = "none" /\ v2.why = "none" /\ Len(v1.panes) = 2
  BY DEF Make!Resolve, MakeInv, PanesCounted
<1> DEFINE a == [harness |-> harness, model |-> model, prompt |-> prompt, worktree |-> worktree,
                 target |-> target]
           defs == Make!ResolveSpawnHarness(v1.config, harness)
<1>3. a \in SpawnAsks /\ a.model = model
  <2>1. harness \in SpawnWords /\ prompt \in SpawnWords
    BY MakeWords
  <2>2. target \in Nat
    OBVIOUS
  <2> QED
    BY <2>1, <2>2 DEF SpawnAsks
<1>4. v1.config \in SpawnWords /\ harness \in SpawnWords
  BY MakeWords DEF MakeInv, MakeTypes
<1>5. \A d \in defs : d \in SpawnDefs
  BY <1>4, SpawnDefined
<1> HIDE DEF a, defs
<1>6. \/ v2' = [Make!Ends("refused") EXCEPT !.ask = a]
      \/ ~ Make!Refused(a, defs) /\ v2' = [v2 EXCEPT !.at = "list", !.ask = a, !.def = CHOOSE d \in defs : TRUE]
  BY <1>1 DEF a, defs
<1>7. CASE v2' = [Make!Ends("refused") EXCEPT !.ask = a]
  <2>1. /\ v2'.at = "end" /\ MakeTypes'
    BY <1>2, <1>3, <1>7 DEF MakeInv, MakeTypes, Make!Ends
  <2> QED
    BY <1>2, <2>1 DEF MakeInv, PanesCounted, CommandAsked
<1>8. CASE ~ Make!Refused(a, defs) /\ v2' = [v2 EXCEPT !.at = "list", !.ask = a, !.def = CHOOSE d \in defs : TRUE]
  <2>1. defs # {} /\ \A d \in defs : ~ (a.model /\ d.model = "")
    BY <1>8 DEF Make!Refused
  <2>2. PICK d \in defs : d = CHOOSE x \in defs : TRUE
    BY <2>1
  <2>3. v2' = [v2 EXCEPT !.at = "list", !.ask = a, !.def = d] /\ d \in SpawnDefs
    BY <1>5, <1>8, <2>2
  <2>4. /\ v2'.at = "list" /\ v2'.ask = a /\ v2'.def = d /\ v2'.why = "none" /\ MakeTypes'
    BY <1>2, <1>3, <2>3 DEF MakeInv, MakeTypes
  <2>5. PanesCounted'
    BY <1>2, <2>4 DEF PanesCounted
  <2>6. CommandAsked'
    <3>1. v2'.at = "list" /\ v2'.ask.model = a.model /\ v2'.def.model = d.model /\ ~ (a.model /\ d.model = "")
      BY <2>1, <2>4
    <3>2. v2'.ask.model => v2'.def.model # ""
      BY <3>1, Zenon
    <3>3. Len(v1'.panes) # 3
      BY <1>2
    <3> QED
      BY <3>1, <3>2, <3>3 DEF CommandAsked
  <2> QED
    BY <2>4, <2>5, <2>6 DEF MakeInv
<1> QED
  BY <1>6, <1>7, <1>8

\* The target is found, then its directory, and the command put together.
LEMMA MakePrepares ==
  ASSUME MakeInv, Make!ListPanes \/ Make!Cwd
  PROVE  MakeInv'
<1>1. CASE Make!ListPanes
  <2>1. v2.at = "list" /\ v1' = v1
    BY <1>1 DEF Make!ListPanes
  <2>2. CASE v2' = Make!Failed("list")
    BY <2>1, <2>2, MakeEnds
  <2>3. CASE v2' # Make!Failed("list")
    <3>1. PICK t : /\ v2' = [v2 EXCEPT !.at = "cwd", !.target = t]
                   /\ t = IF v2.ask.target # 0 THEN v2.ask.target ELSE IF v1.caller # 0 THEN v1.caller
                          ELSE IF Make!Alive(2) THEN 2 ELSE 1
      BY <1>1, <2>3 DEF Make!ListPanes
    <3>2. t \in Nat
      BY <3>1 DEF MakeInv, MakeTypes, SpawnAsks
    <3>3. v2'.at = "cwd" /\ v2'.ask = v2.ask /\ v2'.def = v2.def /\ v2'.why = v2.why /\ MakeTypes'
      BY <2>1, <3>1, <3>2 DEF MakeInv, MakeTypes
    <3>4. Len(v1.panes) = 2 /\ v2.why = "none"
      BY <2>1 DEF MakeInv, PanesCounted
    <3>5. v2.ask.model => v2.def.model # ""
      BY <2>1 DEF MakeInv, CommandAsked
    <3>6. PanesCounted'
      BY <2>1, <3>3, <3>4 DEF PanesCounted
    <3>7. CommandAsked'
      <4>1. Len(v1'.panes) # 3
        BY <2>1, <3>4
      <4>2. v2'.ask.model => v2'.def.model # ""
        <5>1. v2.ask.model => v2.def.model # ""
          BY <3>5
        <5>2. v2'.ask = v2.ask /\ v2'.def = v2.def
          BY <3>3
        <5> QED
          BY ONLY <5>1, <5>2, Zenon
      <4> QED
        BY <3>3, <4>1, <4>2 DEF CommandAsked
    <3> QED
      BY <3>3, <3>6, <3>7 DEF MakeInv
  <2> QED
    BY <2>2, <2>3
<1>2. CASE Make!Cwd
  <2>1. v2.at = "cwd" /\ v1' = v1
    BY <1>2 DEF Make!Cwd
  <2>2. PICK cwd \in IF v2.ask.worktree THEN {"worktree"}
                     ELSE (IF Make!Alive(v2.target) THEN {v1.panes[v2.target].cwd} ELSE {})
                          \cup (IF Make!Fails \/ ~ Make!Alive(v2.target) THEN {"own"} ELSE {}) :
          LET cmd == [Make!BuildSpawnCommand(v2.def, v1.env, cwd, v2.ask.model) EXCEPT !.prompt = v2.ask.prompt]
          IN  v2' = IF v2.ask.prompt = "long" THEN Make!Ends("refused") ELSE [v2 EXCEPT !.at = "split", !.cmd = cmd]
    BY <1>2 DEF Make!Cwd
  <2> DEFINE cmd == [Make!BuildSpawnCommand(v2.def, v1.env, cwd, v2.ask.model) EXCEPT !.prompt = v2.ask.prompt]
  <2>3. cwd \in SpawnWords
    <3>1. Make!Alive(v2.target) => v1.panes[v2.target] \in SpawnPanes
      <4>1. v1.panes \in Seq(SpawnPanes)
        BY DEF MakeInv, MakeTypes
      <4>2. DOMAIN v1.panes = 1 .. Len(v1.panes)
        BY <4>1, LenProperties
      <4> QED
        BY <4>1, <4>2, ElementOfSeq DEF Make!Alive
    <3>2. Make!Alive(v2.target) => v1.panes[v2.target].cwd \in SpawnWords
      BY <3>1 DEF SpawnPanes
    <3>3. cwd = "worktree" \/ cwd = "own" \/ (Make!Alive(v2.target) /\ cwd = v1.panes[v2.target].cwd)
      BY <2>2
    <3> QED
      BY <3>2, <3>3, MakeWords
  <2>4. v2.def \in SpawnDefs /\ v2.ask \in SpawnAsks
    BY DEF MakeInv, MakeTypes
  <2>5. /\ cmd \in SpawnCmds /\ cmd.prompt = v2.ask.prompt
        /\ cmd.model = IF v2.ask.model /\ v2.def.model # "" THEN v2.def.model ELSE ""
    BY <2>3, <2>4, MakeWords DEF Make!BuildSpawnCommand, SpawnCmds, SpawnDefs, SpawnAsks
  <2> HIDE DEF cmd
  <2>6. v2' = Make!Ends("refused") \/ v2' = [v2 EXCEPT !.at = "split", !.cmd = cmd]
    BY <2>2 DEF cmd
  <2>7. CASE v2' = Make!Ends("refused")
    BY <2>1, <2>7, MakeEnds
  <2>8. CASE v2' = [v2 EXCEPT !.at = "split", !.cmd = cmd]
    <3>1. v2'.at = "split" /\ v2'.ask = v2.ask /\ v2'.cmd = cmd /\ v2'.why = v2.why /\ MakeTypes'
      BY <2>1, <2>5, <2>8 DEF MakeInv, MakeTypes
    <3>2. AsAsked(cmd)
      BY <2>1, <2>4, <2>5 DEF AsAsked, MakeInv, CommandAsked, SpawnAsks
    <3>3. AsAsked(v2.cmd)'
      BY <3>1, <3>2 DEF AsAsked
    <3>4. Len(v1.panes) = 2 /\ v2.why = "none"
      BY <2>1 DEF MakeInv, PanesCounted
    <3>5. PanesCounted'
      BY <2>1, <3>1, <3>4 DEF PanesCounted
    <3>6. CommandAsked'
      BY <2>1, <3>1, <3>3, <3>4 DEF CommandAsked
    <3> QED
      BY <3>1, <3>5, <3>6 DEF MakeInv
  <2> QED
    BY <2>6, <2>7, <2>8
<1> QED
  BY <1>1, <1>2

\* tmux makes the pane, and its id is printed, or tmux fails and may have made it.
LEMMA MakeSplits ==
  ASSUME MakeInv, Make!SplitWindow
  PROVE  MakeInv'
<1> DEFINE home == Make!Pane("home")
           panes == Append(v1.panes, home)
<1>1. v2.at = "split" /\ Len(v1.panes) = 2 /\ AsAsked(v2.cmd) /\ v2.why = "none"
  BY DEF Make!SplitWindow, MakeInv, PanesCounted, CommandAsked
<1>2. v1.panes \in Seq(SpawnPanes) /\ home \in SpawnPanes /\ home.typed = Make!Nothing /\ home.runs = Make!Nothing
  BY SpawnPane DEF MakeInv, MakeTypes
<1> HIDE DEF home
<1>3. panes \in Seq(SpawnPanes) /\ Len(panes) = 3 /\ panes[3] = home
  <2> DEFINE old == v1.panes
  <2>1. old \in Seq(SpawnPanes) /\ Len(old) = 2
    BY <1>1, <1>2
  <2> HIDE DEF old
  <2>2. /\ Append(old, home) \in Seq(SpawnPanes) /\ Len(Append(old, home)) = 3
        /\ Append(old, home)[3] = home
    <3>1. /\ Append(old, home) \in Seq(SpawnPanes) /\ Len(Append(old, home)) = Len(old) + 1
          /\ Append(old, home)[Len(old) + 1] = home
      BY <1>2, <2>1, AppendProperties
    <3> QED
      BY <2>1, <3>1
  <2> QED
    BY <2>2 DEF old
<1> DEFINE made == [v1 EXCEPT !.panes = panes]
<1> HIDE DEF panes
<1>4. \/ v1' = [made EXCEPT !.reported = v1.reported \cup {q \in {3} : v1.stdout}]
         /\ v2' = [v2 EXCEPT !.at = "type", !.pane = 3]
      \/ v1' = v1 /\ v2' \in {Make!Ends("split"), Make!Failed("split")}
      \/ v1' = made /\ v2' = Make!Failed("split")
  BY <1>1 DEF Make!SplitWindow, Make!Reported, Make!Prints, home, panes
<1>5. CASE /\ v1' = [made EXCEPT !.reported = v1.reported \cup {q \in {3} : v1.stdout}]
           /\ v2' = [v2 EXCEPT !.at = "type", !.pane = 3]
  <2>1. v1.reported \cup {q \in {3} : v1.stdout} \in SUBSET Nat
    BY DEF MakeInv, MakeTypes
  <2>2. v1'.panes = panes /\ v1'.stdout = v1.stdout /\ v1'.reported = v1.reported \cup {q \in {3} : v1.stdout}
    BY <1>5 DEF MakeInv, MakeTypes
  <2>3. v2'.at = "type" /\ v2'.pane = 3 /\ v2'.ask = v2.ask /\ v2'.cmd = v2.cmd /\ v2'.why = "none"
    BY <1>1, <1>5 DEF MakeInv, MakeTypes
  <2>4. MakeTypes'
    BY <1>3, <1>5, <2>1 DEF MakeInv, MakeTypes
  <2>5. PanesCounted'
    BY <1>3, <2>2, <2>3 DEF PanesCounted
  <2>6. CommandAsked'
    BY <1>1, <1>2, <1>3, <2>2, <2>3 DEF CommandAsked, AsAsked
  <2> QED
    BY <2>4, <2>5, <2>6 DEF MakeInv
<1>6. CASE v1' = v1 /\ v2' \in {Make!Ends("split"), Make!Failed("split")}
  BY <1>1, <1>6, MakeEnds
<1>7. CASE v1' = made /\ v2' = Make!Failed("split")
  <2>1. v1'.panes = panes
    BY <1>7 DEF MakeInv, MakeTypes
  <2>2. v2'.at = "end" /\ v2'.why = "split" /\ v2.fails + 1 \in Nat
    BY <1>7 DEF MakeInv, MakeTypes, Make!Failed, Make!Ends
  <2>3. MakeTypes'
    BY <1>3, <1>7, <2>2 DEF MakeInv, MakeTypes, Make!Failed, Make!Ends
  <2>4. PanesCounted'
    BY <1>3, <2>1, <2>2 DEF PanesCounted
  <2>5. CommandAsked'
    BY <1>2, <1>3, <2>1, <2>2 DEF CommandAsked
  <2> QED
    BY <2>3, <2>4, <2>5 DEF MakeInv
<1> QED
  BY <1>4, <1>5, <1>6, <1>7

\* A pane is changed, the others are not.
LEMMA PaneChanged ==
  ASSUME MakeInv, NEW p \in 1 .. Len(v1.panes), NEW q \in SpawnPanes
  PROVE  LET panes == [v1.panes EXCEPT ![p] = q] IN
         /\ panes \in Seq(SpawnPanes) /\ Len(panes) = Len(v1.panes) /\ panes[p] = q
         /\ \A i \in 1 .. Len(v1.panes) : i # p => panes[i] = v1.panes[i]
         /\ \A i \in 1 .. Len(v1.panes) : v1.panes[i] \in SpawnPanes
<1>1. v1.panes \in Seq(SpawnPanes)
  BY DEF MakeInv, MakeTypes
<1> DEFINE old == v1.panes
           c == [old EXCEPT ![p] = q]
<1> HIDE DEF old
<1>2. old \in Seq(SpawnPanes) /\ p \in 1 .. Len(old)
  BY <1>1 DEF old
<1>3. /\ c \in Seq(SpawnPanes) /\ Len(c) = Len(old)
      /\ \A i \in 1 .. Len(old) : c[i] = IF i = p THEN q ELSE old[i]
  BY <1>2, ExceptSeq, SMT
<1>4. \A i \in 1 .. Len(old) : old[i] \in SpawnPanes
  BY <1>2, ElementOfSeq
<1> QED
  BY <1>3, <1>4 DEF old

\* The command is typed into the pane, and then Enter.
LEMMA MakeKeys ==
  ASSUME MakeInv, Make!Type \/ Make!Enter
  PROVE  MakeInv'
<1>1. v2.at \in {"type", "enter"}
  BY DEF Make!Type, Make!Enter
<1>2. /\ Len(v1.panes) = 3 /\ v2.pane = 3 /\ (v1.stdout => 3 \in v1.reported) /\ v2.why = "none"
      /\ v2.at = "type" => AsAsked(v2.cmd)
      /\ \A cmd \in {v1.panes[3].typed, v1.panes[3].runs} : cmd = Make!Nothing \/ AsAsked(cmd)
  BY <1>1 DEF MakeInv, PanesCounted, CommandAsked
<1>3. v1.panes \in Seq(SpawnPanes) /\ v2.cmd \in SpawnCmds /\ Make!Nothing \in SpawnCmds
  BY SpawnPane DEF MakeInv, MakeTypes
<1>4. v1.panes[3] \in SpawnPanes /\ 3 \in 1 .. Len(v1.panes)
  BY <1>2, <1>3, ElementOfSeq
<1> DEFINE p == v1.panes[3]
           typed == [p EXCEPT !.typed = v2.cmd]
           entered == [p EXCEPT !.runs = p.typed, !.typed = Make!Nothing]
<1>5. PICK q \in SpawnPanes : q = IF v2.at = "type" THEN typed ELSE entered
  <2>1. typed \in SpawnPanes /\ entered \in SpawnPanes
    BY <1>3, <1>4 DEF SpawnPanes
  <2> QED
    BY <2>1
<1>6. \A cmd \in {q.typed, q.runs} : cmd = Make!Nothing \/ AsAsked(cmd)
  <2>1. v2.at = "type" => q.typed = v2.cmd /\ q.runs = p.runs
    BY <1>4, <1>5 DEF SpawnPanes
  <2>2. v2.at # "type" => q.typed = Make!Nothing /\ q.runs = p.typed
    BY <1>4, <1>5 DEF SpawnPanes
  <2> QED
    BY <1>2, <2>1, <2>2
<1> DEFINE panes == [v1.panes EXCEPT ![3] = q]
<1>7. panes \in Seq(SpawnPanes) /\ Len(panes) = Len(v1.panes) /\ panes[3] = q
  BY <1>4, PaneChanged
<1>8. /\ v1' = v1 \/ v1' = [v1 EXCEPT !.panes = panes]
      /\ \/ v2.at = "type" /\ v2' = [v2 EXCEPT !.at = "enter"]
         \/ \E why \in {"keys", "done", "print"} : v2' = Make!Ends(why)
         \/ v2' = Make!Failed("keys")
  <2>1. CASE Make!Type
    <3>1. [v1 EXCEPT !.panes[v2.pane].typed = v2.cmd] = [v1 EXCEPT !.panes = panes]
      BY <1>2, <1>5, <2>1 DEF Make!Type
    <3> HIDE DEF panes, typed, entered, p
    <3> QED
      BY <2>1, <3>1, Zenon DEF Make!Type, Make!SendKeys
  <2>2. CASE Make!Enter
    <3>1. Make!Reported("enter", v2.pane) = v1.reported
      BY DEF Make!Reported, Make!Prints
    <3>2. [v1 EXCEPT !.panes[v2.pane].runs = v1.panes[v2.pane].typed,
                     !.panes[v2.pane].typed = Make!Nothing,
                     !.reported = Make!Reported("enter", v2.pane)] = [v1 EXCEPT !.panes = panes]
      <4>1. v1 = [v1 EXCEPT !.reported = v1.reported]
        BY DEF MakeInv, MakeTypes
      <4>2. v2.at # "type" /\ v2.pane = 3
        BY <1>2, <2>2 DEF Make!Enter
      <4>3. q = entered
        BY <1>5, <4>2
      <4> DEFINE ps == v1.panes
      <4>4. [[ps EXCEPT ![3].runs = ps[3].typed] EXCEPT ![3].typed = Make!Nothing] = panes
        <5>1. ps \in Seq(SpawnPanes) /\ 3 \in DOMAIN ps /\ p = ps[3]
          BY <1>3, <1>4
        <5> QED
          BY <1>4, <4>3, <5>1
      <4> QED
        BY <3>1, <4>1, <4>2, <4>4
    <3> HIDE DEF panes, typed, entered, p
    <3> QED
      BY <2>2, <3>2, Zenon DEF Make!Enter, Make!SendKeys
  <2> QED
    BY <2>1, <2>2
<1> HIDE DEF panes, typed, entered, p
<1>9. /\ v1'.panes \in {v1.panes, panes} /\ v1'.stdout = v1.stdout /\ v1'.reported = v1.reported
      /\ v1' \in [config : SpawnWords, env : SUBSET SpawnWords, tmux : BOOLEAN, stdout : BOOLEAN, caller : Nat,
                  panes : Seq(SpawnPanes), reported : SUBSET Nat]
  BY <1>7, <1>8 DEF MakeInv, MakeTypes
<1>10. Len(v1'.panes) = 3 /\ \A cmd \in {v1'.panes[3].typed, v1'.panes[3].runs} : cmd = Make!Nothing \/ AsAsked(cmd)
  BY <1>2, <1>6, <1>7, <1>9
<1>11. v2.fails + 1 \in Nat
  BY DEF MakeInv, MakeTypes
<1>12. /\ MakeTypes' /\ v2'.ask = v2.ask /\ v2'.pane = 3
       /\ \/ v2'.at = "enter" /\ v2'.why = "none"
          \/ v2'.at = "end" /\ v2'.why # "refused"
  <2>1. CASE v2' = [v2 EXCEPT !.at = "enter"]
    BY <1>2, <1>9, <2>1 DEF MakeInv, MakeTypes
  <2>2. CASE \E why \in {"keys", "done", "print"} : v2' = Make!Ends(why)
    BY <1>2, <1>9, <2>2 DEF MakeInv, MakeTypes, Make!Ends
  <2>3. CASE v2' = Make!Failed("keys")
    BY <1>2, <1>9, <1>11, <2>3 DEF MakeInv, MakeTypes, Make!Ends, Make!Failed
  <2> QED
    BY <1>8, <2>1, <2>2, <2>3
<1>13. PanesCounted'
  BY <1>2, <1>9, <1>10, <1>12 DEF PanesCounted
<1>14. CommandAsked'
  BY <1>10, <1>12 DEF CommandAsked, AsAsked
<1> QED
  BY <1>12, <1>13, <1>14 DEF MakeInv

\* A pane goes, and keeps what it ran.
LEMMA MakePaneGoes ==
  ASSUME MakeInv, Make!PaneGoes
  PROVE  MakeInv'
<1>1. v1.panes \in Seq(SpawnPanes) /\ DOMAIN v1.panes = 1 .. Len(v1.panes)
  BY LenProperties DEF MakeInv, MakeTypes
<1>2. PICK p \in 1 .. Len(v1.panes) : v1' = [v1 EXCEPT !.panes[p].alive = FALSE]
  BY <1>1 DEF Make!PaneGoes
<1> DEFINE q == [v1.panes[p] EXCEPT !.alive = FALSE]
           panes == [v1.panes EXCEPT ![p] = q]
<1>3. v1.panes[p] \in SpawnPanes
  BY <1>1, ElementOfSeq
<1>4. q \in SpawnPanes /\ q.typed = v1.panes[p].typed /\ q.runs = v1.panes[p].runs
  BY <1>3 DEF SpawnPanes
<1>5. v1' = [v1 EXCEPT !.panes = panes]
  BY <1>2
<1> HIDE DEF q
<1>6. /\ panes \in Seq(SpawnPanes) /\ Len(panes) = Len(v1.panes) /\ panes[p] = q
      /\ \A i \in 1 .. Len(v1.panes) : i # p => panes[i] = v1.panes[i]
  BY <1>4, PaneChanged
<1> HIDE DEF panes
<1>7. v1'.panes = panes /\ v1'.stdout = v1.stdout /\ v1'.reported = v1.reported
  BY <1>5 DEF MakeInv, MakeTypes
<1>8. v2' = [v2 EXCEPT !.gone = @ + 1] /\ v2.gone + 1 \in Nat
  BY DEF Make!PaneGoes, MakeInv, MakeTypes
<1>9. /\ v2'.at = v2.at /\ v2'.ask = v2.ask /\ v2'.pane = v2.pane /\ v2'.why = v2.why
      /\ v2'.def = v2.def /\ v2'.cmd = v2.cmd
  BY <1>8 DEF MakeInv, MakeTypes
<1>10. MakeTypes'
  BY <1>5, <1>6, <1>8 DEF MakeInv, MakeTypes
<1>11. PanesCounted'
  BY <1>6, <1>7, <1>9 DEF MakeInv, PanesCounted
<1>12. Len(v1.panes) = 3 => panes[3].typed = v1.panes[3].typed /\ panes[3].runs = v1.panes[3].runs
  <2> SUFFICES ASSUME Len(v1.panes) = 3
               PROVE  panes[3].typed = v1.panes[3].typed /\ panes[3].runs = v1.panes[3].runs
    OBVIOUS
  <2>1. 3 \in 1 .. Len(v1.panes)
    OBVIOUS
  <2>2. CASE p = 3
    BY <1>4, <1>6, <2>2
  <2>3. CASE p # 3
    BY <1>6, <2>1, <2>3
  <2> QED
    BY <2>2, <2>3
<1>13. CommandAsked'
  BY <1>6, <1>7, <1>9, <1>12 DEF MakeInv, CommandAsked, AsAsked
<1> QED
  BY <1>10, <1>11, <1>13 DEF MakeInv

\* Whatever the step, the invariant of spawn stays.
LEMMA MakeKeepsInv ==
  ASSUME MakeInv, [Make!Next]_<<v1, v2>>
  PROVE  MakeInv'
<1>1. CASE UNCHANGED <<v1, v2>>
  BY <1>1 DEF MakeInv, MakeTypes, PanesCounted, CommandAsked, AsAsked
<1> QED
  BY <1>1, MakeResolve, MakePrepares, MakeSplits, MakeKeys, MakePaneGoes DEF Make!Next

\* The caller has the name of each pane it made, and what runs there is what was asked.
LEMMA MakeInOrder == MakeInv => Make!MadePanesPrinted /\ Make!NothingAskedDropped
<1> SUFFICES ASSUME MakeInv
             PROVE  Make!MadePanesPrinted /\ Make!NothingAskedDropped
  OBVIOUS
<1>1. v1.panes \in Seq(SpawnPanes) /\ DOMAIN v1.panes = 1 .. Len(v1.panes) /\ Len(v1.panes) \in {2, 3}
  BY LenProperties DEF MakeInv, MakeTypes, PanesCounted
<1>2. Make!New = (1 .. Len(v1.panes)) \ {1, 2}
  BY <1>1 DEF Make!New
<1>3. \A p \in Make!New : p = 3 /\ Len(v1.panes) = 3
  <2>1. Len(v1.panes) = 2 => Make!New = {}
    BY <1>2
  <2>2. Len(v1.panes) = 3 => \A p \in Make!New : p = 3
    BY <1>2
  <2> QED
    BY <1>1, <2>1, <2>2
<1>4. Make!MadePanesPrinted
  BY <1>3 DEF Make!MadePanesPrinted, MakeInv, PanesCounted
<1>5. \A p \in Make!New : LET cmd == v1.panes[p].runs IN
        cmd # Make!Nothing => (v2.ask.model <=> cmd.model # "") /\ cmd.prompt = v2.ask.prompt
  BY <1>3 DEF MakeInv, CommandAsked, AsAsked
<1>6. v2.why = "refused" => Make!New = {}
  <2> SUFFICES ASSUME v2.why = "refused"  PROVE Len(v1.panes) = 2
    BY <1>3
  <2>1. v2.at = "end"
    BY DEF MakeInv, PanesCounted
  <2> QED
    BY <2>1 DEF MakeInv, PanesCounted
<1> QED
  BY <1>4, <1>5, <1>6 DEF Make!NothingAskedDropped

-----------------------------------------------------------------------------
(* Layout.  Its variables are v1 (world) and v2 (job).                       *)

\* The sequences that FlattenSeq builds, up to the m-th of s.
FlatOf(s, m, f) == f = [i \in 1 .. m |-> IF i = 1 THEN s[i] ELSE f[i - 1] \o s[i]]

\* There are such, for any sequence of sequences.
LEMMA FlatThere ==
  ASSUME NEW s, NEW n \in Nat
  PROVE  \E f : FlatOf(s, n, f)
<1> DEFINE D == {m \in Nat : \E f : FlatOf(s, m, f)}
<1>1. 0 \in D
  <2>1. PICK f : f = [i \in 1 .. 0 |-> <<>>]
    OBVIOUS
  <2>2. FlatOf(s, 0, f)
    BY <2>1 DEF FlatOf
  <2> QED
    BY <2>2
<1>2. ASSUME NEW m \in Nat, m \in D  PROVE m + 1 \in D
  <2>1. PICK f : FlatOf(s, m, f)
    BY <1>2
  <2>2. PICK g : g = [i \in 1 .. m + 1 |-> IF i = m + 1 THEN (IF i = 1 THEN s[i] ELSE f[m] \o s[i]) ELSE f[i]]
    OBVIOUS
  <2>3. \A i \in 1 .. m : g[i] = f[i]
    BY <2>2
  <2>4. ASSUME NEW i \in 1 .. m + 1
        PROVE  g[i] = IF i = 1 THEN s[i] ELSE g[i - 1] \o s[i]
    <3>1. CASE i = m + 1
      <4>1. g[i] = IF i = 1 THEN s[i] ELSE f[m] \o s[i]
        BY <2>2, <3>1
      <4>2. i # 1 => i - 1 = m /\ m \in 1 .. m
        BY <3>1
      <4> QED
        BY <2>3, <4>1, <4>2
    <3>2. CASE i # m + 1
      <4>1. i \in 1 .. m /\ g[i] = f[i] /\ (i # 1 => i - 1 \in 1 .. m /\ g[i - 1] = f[i - 1])
        BY <2>3, <3>2
      <4>2. f[i] = IF i = 1 THEN s[i] ELSE f[i - 1] \o s[i]
        BY <2>1, <4>1 DEF FlatOf
      <4> QED
        BY <4>1, <4>2
    <3> QED
      BY <3>1, <3>2
  <2>5. FlatOf(s, m + 1, g)
    <3>1. DOMAIN g = 1 .. m + 1 /\ g = [i \in 1 .. m + 1 |-> g[i]]
      BY <2>2
    <3> QED
      BY <2>4, <3>1 DEF FlatOf
  <2> QED
    BY <2>5
<1> HIDE DEF D
<1>3. n \in D
  BY <1>1, <1>2, SetInduction
<1> QED
  BY <1>3 DEF D

\* FlattenSeq is the last of them, and each is a sequence.
LEMMA FlatIs ==
  ASSUME NEW S, NEW s \in Seq(Seq(S)), Len(s) # 0
  PROVE  \E f : /\ Split!FlattenSeq(s) = f[Len(s)]
                /\ f[1] = s[1]
                /\ \A i \in 1 .. Len(s) : f[i] \in Seq(S) /\ (i # 1 => f[i] = f[i - 1] \o s[i])
<1> DEFINE n == Len(s)
           f == CHOOSE x : FlatOf(s, n, x)
<1>1. n \in Nat /\ n # 0 /\ \A i \in 1 .. n : s[i] \in Seq(S)
  BY ElementOfSeq, LenProperties
<1>2. FlatOf(s, n, f)
  BY <1>1, FlatThere
<1>3. Split!FlattenSeq(s) = f[n]
  BY DEF Split!FlattenSeq, FlatOf
<1> HIDE DEF f, n
<1>4. \A i \in 1 .. n : f[i] = IF i = 1 THEN s[i] ELSE f[i - 1] \o s[i]
  BY <1>2 DEF FlatOf
<1> DEFINE D == {i \in Nat : i \in 1 .. n => f[i] \in Seq(S)}
<1>5. 0 \in D
  OBVIOUS
<1>6. ASSUME NEW i \in Nat, i \in D  PROVE i + 1 \in D
  <2> SUFFICES ASSUME i + 1 \in 1 .. n  PROVE f[i + 1] \in Seq(S)
    OBVIOUS
  <2>1. CASE i = 0
    BY <1>1, <1>4, <2>1
  <2>2. CASE i # 0
    <3>1. i \in 1 .. n /\ i + 1 # 1 /\ (i + 1) - 1 = i
      BY <1>1, <2>2
    <3>2. f[i + 1] = f[i] \o s[i + 1]
      BY <1>4, <3>1
    <3>3. f[i] \in Seq(S) /\ s[i + 1] \in Seq(S)
      BY <1>1, <1>6, <3>1
    <3> QED
      BY <3>2, <3>3, ConcatProperties
  <2> QED
    BY <2>1, <2>2
<1> HIDE DEF D
<1>7. Nat \subseteq D
  BY <1>5, <1>6, SetInduction
<1>8. \A i \in 1 .. n : f[i] \in Seq(S)
  BY <1>1, <1>7 DEF D
<1>9. f[1] = s[1]
  BY <1>1, <1>4
<1>10. \A i \in 1 .. n : f[i] \in Seq(S) /\ (i # 1 => f[i] = f[i - 1] \o s[i])
  BY <1>4, <1>8
<1>11. \E x : /\ Split!FlattenSeq(s) = x[n]
             /\ x[1] = s[1]
             /\ \A i \in 1 .. n : x[i] \in Seq(S) /\ (i # 1 => x[i] = x[i - 1] \o s[i])
  BY ONLY <1>3, <1>9, <1>10, Zenon
<1> QED
  BY <1>11 DEF n

\* Nothing flattens to nothing.
LEMMA FlatEmpty == Split!FlattenSeq(<<>>) = <<>>
BY DEF Split!FlattenSeq

\* Flattening gives a sequence.
LEMMA FlatType ==
  ASSUME NEW S, NEW s \in Seq(Seq(S))
  PROVE  Split!FlattenSeq(s) \in Seq(S)
<1>1. CASE Len(s) = 0
  <2>1. s = <<>>
    BY <1>1, EmptySeq
  <2> QED
    BY <2>1, FlatEmpty, EmptySeq
<1>2. CASE Len(s) # 0
  <2>1. PICK f : /\ Split!FlattenSeq(s) = f[Len(s)]
                 /\ \A i \in 1 .. Len(s) : f[i] \in Seq(S)
    BY <1>2, FlatIs
  <2>2. Len(s) \in 1 .. Len(s)
    BY <1>2, LenProperties
  <2> QED
    BY <2>1, <2>2
<1> QED
  BY <1>1, <1>2

\* What flattens one after the other flattens together.
LEMMA FlatConcat ==
  ASSUME NEW S, NEW s \in Seq(Seq(S)), NEW t \in Seq(Seq(S))
  PROVE  Split!FlattenSeq(s \o t) = Split!FlattenSeq(s) \o Split!FlattenSeq(t)
<1>1. CASE Len(s) = 0
  <2>1. s = <<>>
    BY <1>1, EmptySeq
  <2>2. s \o t = t
    BY <2>1, ConcatEmptySeq
  <2>3. Split!FlattenSeq(t) \in Seq(S)
    BY FlatType
  <2> QED
    BY <2>1, <2>2, <2>3, FlatEmpty, ConcatEmptySeq
<1>2. CASE Len(t) = 0
  <2>1. t = <<>>
    BY <1>2, EmptySeq
  <2>2. s \o t = s
    BY <2>1, ConcatEmptySeq
  <2>3. Split!FlattenSeq(s) \in Seq(S)
    BY FlatType
  <2> QED
    BY <2>1, <2>2, <2>3, FlatEmpty, ConcatEmptySeq
<1>3. CASE Len(s) # 0 /\ Len(t) # 0
  <2> DEFINE n == Len(s)
             m == Len(t)
             u == s \o t
  <2>1. n \in Nat /\ m \in Nat /\ n # 0 /\ m # 0
    BY <1>3, LenProperties
  <2>2. /\ u \in Seq(Seq(S)) /\ Len(u) = n + m
        /\ \A i \in 1 .. n + m : u[i] = IF i <= n THEN s[i] ELSE t[i - n]
    BY ConcatProperties
  <2>3. PICK f : /\ Split!FlattenSeq(s) = f[n]
                 /\ f[1] = s[1]
                 /\ \A i \in 1 .. n : f[i] \in Seq(S) /\ (i # 1 => f[i] = f[i - 1] \o s[i])
    BY <2>1, FlatIs
  <2>4. PICK g : /\ Split!FlattenSeq(t) = g[m]
                 /\ g[1] = t[1]
                 /\ \A i \in 1 .. m : g[i] \in Seq(S) /\ (i # 1 => g[i] = g[i - 1] \o t[i])
    BY <2>1, FlatIs
  <2> HIDE DEF u
  <2>5. PICK h : /\ Split!FlattenSeq(u) = h[n + m]
                 /\ h[1] = u[1]
                 /\ \A i \in 1 .. n + m : h[i] \in Seq(S) /\ (i # 1 => h[i] = h[i - 1] \o u[i])
    <3>1. Len(u) # 0
      BY <2>1, <2>2
    <3>2. \E h : /\ Split!FlattenSeq(u) = h[Len(u)]
                 /\ h[1] = u[1]
                 /\ \A i \in 1 .. Len(u) : h[i] \in Seq(S) /\ (i # 1 => h[i] = h[i - 1] \o u[i])
      <4>1. u \in Seq(Seq(S))
        BY <2>2
      <4> QED
        BY ONLY <3>1, <4>1, FlatIs
    <3> QED
      BY <2>2, <3>2
  <2>6. \A i \in 1 .. m : t[i] \in Seq(S)
    BY ElementOfSeq
  <2> HIDE DEF n, m
  <2> DEFINE D == {i \in Nat : i \in 1 .. n => h[i] = f[i]}
  <2>7. \A i \in 1 .. n : h[i] = f[i]
    <3>1. 0 \in D
      OBVIOUS
    <3>2. ASSUME NEW i \in Nat, i \in D  PROVE i + 1 \in D
      <4> SUFFICES ASSUME i + 1 \in 1 .. n  PROVE h[i + 1] = f[i + 1]
        OBVIOUS
      <4>1. i + 1 \in 1 .. n + m /\ u[i + 1] = s[i + 1]
        BY <2>1, <2>2
      <4>2. CASE i = 0
        BY <2>3, <2>5, <4>1, <4>2
      <4>3. CASE i # 0
        <5>1. i \in 1 .. n /\ i + 1 # 1 /\ (i + 1) - 1 = i
          BY <2>1, <4>3
        <5>2. h[i + 1] = h[i] \o u[i + 1] /\ f[i + 1] = f[i] \o s[i + 1]
          BY <2>3, <2>5, <4>1, <5>1
        <5> QED
          BY <3>2, <4>1, <5>1, <5>2
      <4> QED
        BY <4>2, <4>3
    <3> HIDE DEF D
    <3>3. Nat \subseteq D
      BY <3>1, <3>2, SetInduction
    <3> QED
      BY <2>1, <3>3 DEF D
  <2> DEFINE Joined(j) == h[n + j] = f[n] \o g[j]
             E == {j \in Nat : j \in 1 .. m => Joined(j)}
  <2> HIDE DEF Joined
  <2>8. \A j \in 1 .. m : Joined(j)
    <3>1. 0 \in E
      OBVIOUS
    <3>2. ASSUME NEW j \in Nat, j \in E  PROVE j + 1 \in E
      <4> SUFFICES ASSUME j + 1 \in 1 .. m  PROVE Joined(j + 1)
        OBVIOUS
      <4>1. /\ n + (j + 1) \in 1 .. n + m /\ n + (j + 1) # 1 /\ (n + (j + 1)) - 1 = n + j
            /\ ~ (n + (j + 1) <= n) /\ (n + (j + 1)) - n = j + 1
        BY <2>1
      <4>2. u[n + (j + 1)] = t[j + 1]
        BY <2>2, <4>1
      <4>3. h[n + (j + 1)] = h[n + j] \o t[j + 1]
        BY <2>5, <4>1, <4>2
      <4>4. CASE j = 0
        <5>1. n + j = n /\ j + 1 = 1 /\ n \in 1 .. n
          BY <2>1, <4>4
        <5> QED
          BY <2>4, <2>7, <4>3, <5>1 DEF Joined
      <4>5. CASE j # 0
        <5>1. j \in 1 .. m /\ j + 1 # 1 /\ (j + 1) - 1 = j /\ n \in 1 .. n
          BY <2>1, <4>5
        <5>2. g[j + 1] = g[j] \o t[j + 1]
          BY <2>4, <5>1
        <5>3. h[n + j] = f[n] \o g[j]
          BY <3>2, <5>1 DEF Joined
        <5>4. f[n] \in Seq(S) /\ g[j] \in Seq(S) /\ t[j + 1] \in Seq(S)
          BY <2>3, <2>4, <2>6, <5>1
        <5>5. (f[n] \o g[j]) \o t[j + 1] = f[n] \o (g[j] \o t[j + 1])
          <6>1. \A a, b, c \in Seq(S) : (a \o b) \o c = a \o (b \o c)
            BY ConcatAssociative
          <6> QED
            BY ONLY <5>4, <6>1, Zenon
        <5> QED
          BY <4>3, <5>2, <5>3, <5>5 DEF Joined
      <4> QED
        BY <4>4, <4>5
    <3> HIDE DEF E
    <3>3. Nat \subseteq E
      BY <3>1, <3>2, SetInduction
    <3> QED
      BY <2>1, <3>3 DEF E
  <2>9. m \in 1 .. m
    BY <2>1
  <2> QED
    BY <2>3, <2>4, <2>5, <2>8, <2>9 DEF u, Joined
<1> QED
  BY <1>1, <1>2, <1>3

\* One sequence flattens to itself.
LEMMA FlatOne ==
  ASSUME NEW S, NEW e \in Seq(S)
  PROVE  Split!FlattenSeq(<<e>>) = e
<1>1. PICK s \in Seq(Seq(S)) : s = <<e>> /\ Len(s) = 1 /\ s[1] = e
  <2>1. <<e>> \in Seq(Seq(S))
    OBVIOUS
  <2> QED
    BY <2>1
<1>2. PICK f : Split!FlattenSeq(s) = f[Len(s)] /\ f[1] = s[1]
  <2>1. Len(s) # 0
    BY <1>1
  <2> QED
    BY <2>1, FlatIs
<1> QED
  BY <1>1, <1>2

\* Sequences of one element flatten to the sequence of the elements.
LEMMA FlatSingles ==
  ASSUME NEW S, NEW r \in Seq(S)
  PROVE  Split!FlattenSeq([i \in 1 .. Len(r) |-> <<r[i]>>]) = r
<1> DEFINE n == Len(r)
           s == [i \in 1 .. n |-> <<r[i]>>]
<1>1. n \in Nat /\ \A i \in 1 .. n : r[i] \in S
  BY ElementOfSeq, LenProperties
<1>2. \A i \in 1 .. n : <<r[i]>> \in Seq(S)
  BY <1>1
<1> HIDE DEF n
<1>3. s \in Seq(Seq(S)) /\ Len(s) = n /\ \A i \in 1 .. n : s[i] = <<r[i]>>
  BY <1>1, <1>2
<1> HIDE DEF s
<1>4. CASE n = 0
  <2>1. s = <<>> /\ r = <<>>
    BY <1>3, <1>4, EmptySeq DEF n
  <2> QED
    BY <2>1, FlatEmpty DEF s, n
<1>5. CASE n # 0
  <2>1. PICK f : /\ Split!FlattenSeq(s) = f[n]
                 /\ f[1] = s[1]
                 /\ \A i \in 1 .. n : f[i] \in Seq(S) /\ (i # 1 => f[i] = f[i - 1] \o s[i])
    <3>1. Len(s) # 0
      BY <1>3, <1>5
    <3>2. \E f : /\ Split!FlattenSeq(s) = f[Len(s)]
                 /\ f[1] = s[1]
                 /\ \A i \in 1 .. Len(s) : f[i] \in Seq(S) /\ (i # 1 => f[i] = f[i - 1] \o s[i])
      <4>1. s \in Seq(Seq(S))
        BY <1>3
      <4> QED
        BY ONLY <3>1, <4>1, FlatIs
    <3> QED
      BY <1>3, <3>2
  <2> DEFINE D == {i \in Nat : i \in 1 .. n => Len(f[i]) = i /\ \A k \in 1 .. i : f[i][k] = r[k]}
  <2>2. 0 \in D
    OBVIOUS
  <2>3. ASSUME NEW i \in Nat, i \in D  PROVE i + 1 \in D
    <3> SUFFICES ASSUME i + 1 \in 1 .. n
                 PROVE  Len(f[i + 1]) = i + 1 /\ \A k \in 1 .. i + 1 : f[i + 1][k] = r[k]
      OBVIOUS
    <3>1. CASE i = 0
      <4>1. f[i + 1] = <<r[1]>> /\ i + 1 = 1
        BY <1>3, <2>1, <3>1
      <4> QED
        BY <4>1
    <3>2. CASE i # 0
      <4>1. i \in 1 .. n /\ i + 1 # 1 /\ (i + 1) - 1 = i
        BY <1>1, <3>2
      <4>2. f[i + 1] = f[i] \o <<r[i + 1]>>
        BY <1>3, <2>1, <4>1
      <4>3. f[i] \in Seq(S) /\ <<r[i + 1]>> \in Seq(S) /\ Len(<<r[i + 1]>>) = 1 /\ <<r[i + 1]>>[1] = r[i + 1]
        BY <1>2, <2>1, <4>1
      <4>4. Len(f[i]) = i /\ \A k \in 1 .. i : f[i][k] = r[k]
        BY <2>3, <4>1
      <4>5. /\ Len(f[i + 1]) = i + 1
            /\ \A k \in 1 .. i + 1 : f[i + 1][k] = IF k <= i THEN f[i][k] ELSE <<r[i + 1]>>[k - i]
        BY <4>2, <4>3, <4>4, ConcatProperties
      <4>6. ASSUME NEW k \in 1 .. i + 1  PROVE f[i + 1][k] = r[k]
        <5>1. CASE k <= i
          BY <4>4, <4>5, <5>1
        <5>2. CASE ~ (k <= i)
          <6>1. k = i + 1 /\ k - i = 1
            BY <5>2
          <6> QED
            BY <4>3, <4>5, <5>2, <6>1
        <5> QED
          BY <5>1, <5>2
      <4> QED
        BY <4>5, <4>6
    <3> QED
      BY <3>1, <3>2
  <2> HIDE DEF D
  <2>4. Nat \subseteq D
    BY <2>2, <2>3, SetInduction
  <2>5. n \in 1 .. n /\ Len(f[n]) = n /\ \A k \in 1 .. n : f[n][k] = r[k]
    BY <1>1, <1>5, <2>4 DEF D
  <2>6. f[n] \in Seq(S)
    BY <2>1, <2>5
  <2>7. f[n] = r
    BY <2>5, <2>6, SeqEqual DEF n
  <2> QED
    BY <2>1, <2>7 DEF s, n
<1> QED
  BY <1>4, <1>5

\* Slots, by how deep their boxes go.
Roles == {"agent", "shell", "panel", "editor"}
SlotsOver(K) == [role : Roles, size : Nat, dir : {"h", "v"}, kids : K]
Slots0 == SlotsOver({<<>>})
Slots1 == SlotsOver(Seq(Slots0))
Slots2 == SlotsOver(Seq(Slots1))
Slots3 == SlotsOver(Seq(Slots2))

\* A slot that goes less deep is one that may go deeper.
LEMMA SlotsGrow == Slots0 \subseteq Slots1 /\ Slots1 \subseteq Slots2 /\ Slots2 \subseteq Slots3
<1>1. \A K, L : K \subseteq L => SlotsOver(K) \subseteq SlotsOver(L)
  BY DEF SlotsOver
<1>2. \A S, T : S \subseteq T => Seq(S) \subseteq Seq(T)
  BY SeqMonotonic
<1>3. {<<>>} \subseteq Seq(Slots0)
  BY EmptySeq
<1>4. Slots0 \subseteq Slots1
  BY <1>1, <1>3 DEF Slots0, Slots1
<1>5. Slots1 \subseteq Slots2
  BY <1>1, <1>2, <1>4 DEF Slots1, Slots2
<1>6. Slots2 \subseteq Slots3
  BY <1>1, <1>2, <1>5 DEF Slots2, Slots3
<1> QED
  BY <1>4, <1>5, <1>6

\* The layouts that have a name go three deep at most.
LEMMA TreesFit ==
  /\ Split!Solo \in Slots3
  /\ \A name \in DOMAIN Split!Preset : Split!Preset[name] \in Slots3
  /\ Split!Custom \in Slots3
<1>1. \A role \in Roles, size \in Nat : Split!Leaf(role, size) \in Slots0
  BY DEF Split!Leaf, Split!Slot, Slots0, SlotsOver
<1>2. \A K : \A size \in Nat, dir \in {"h", "v"}, kids \in K : Split!Box(size, dir, kids) \in SlotsOver(K)
  BY DEF Split!Box, Split!Slot, SlotsOver, Roles
<1>3. \A S : \A a, b \in S : <<a, b>> \in Seq(S)
  OBVIOUS
<1>4. \A S : \A a, b, c \in S : <<a, b, c>> \in Seq(S)
  OBVIOUS
<1>5. {"agent", "shell", "panel", "editor"} = Roles
  BY DEF Roles
<1>6. \A size \in Nat : Split!Row(size) \in Slots1
  <2> SUFFICES ASSUME NEW size \in Nat  PROVE Split!Row(size) \in Slots1
    OBVIOUS
  <2>1. Split!Leaf("agent", 50) \in Slots0
    BY <1>1, <1>5
  <2>2. <<Split!Leaf("agent", 50), Split!Leaf("agent", 50)>> \in Seq(Slots0)
    BY <1>3, <2>1
  <2> QED
    BY <1>2, <2>2 DEF Split!Row, Slots1
<1>7. \A a, b \in Slots0 : \A size \in Nat, dir \in {"h", "v"} : Split!Box(size, dir, <<a, b>>) \in Slots1
  BY <1>2, <1>3 DEF Slots1
<1>8. \A a, b \in Slots1 : \A size \in Nat, dir \in {"h", "v"} : Split!Box(size, dir, <<a, b>>) \in Slots2
  BY <1>2, <1>3 DEF Slots2
<1>9. \A a, b \in Slots2 : \A size \in Nat, dir \in {"h", "v"} : Split!Box(size, dir, <<a, b>>) \in Slots3
  BY <1>2, <1>3 DEF Slots3
<1>10. Split!Solo \in Slots3
  BY <1>1, <1>5, SlotsGrow DEF Split!Solo
<1>11. Split!Pair \in Slots3
  <2>1. Split!Leaf("agent", 50) \in Slots0 /\ Split!Leaf("panel", 25) \in Slots2
    BY <1>1, <1>5, SlotsGrow
  <2>2. Split!Box(75, "v", <<Split!Leaf("agent", 50), Split!Leaf("agent", 50)>>) \in Slots2
    BY <1>7, <2>1, SlotsGrow
  <2> QED
    BY <1>9, <2>1, <2>2 DEF Split!Pair
<1>12. Split!Squad \in Slots3
  <2>1. Split!Leaf("agent", 33) \in Slots1 /\ Split!Leaf("panel", 25) \in Slots2 /\ Split!Row(66) \in Slots1
    BY <1>1, <1>5, <1>6, SlotsGrow
  <2>2. Split!Box(75, "v", <<Split!Row(66), Split!Leaf("agent", 33)>>) \in Slots2
    BY <1>8, <2>1
  <2> QED
    BY <1>9, <2>1, <2>2 DEF Split!Squad
<1>13. Split!Grid \in Slots3
  <2>1. Split!Row(50) \in Slots1
    BY <1>6
  <2>2. Split!Grid \in Slots2
    BY <1>8, <2>1 DEF Split!Grid
  <2> QED
    BY <2>2, SlotsGrow
<1>14. Split!WorkspaceTree \in Slots3
  <2>1. /\ Split!Leaf("agent", 80) \in Slots0 /\ Split!Leaf("shell", 20) \in Slots0
        /\ Split!Leaf("panel", 30) \in Slots2
    BY <1>1, <1>5, SlotsGrow
  <2>2. Split!Box(100, "v", <<Split!Leaf("agent", 80), Split!Leaf("shell", 20)>>) \in Slots2
    BY <1>7, <2>1, SlotsGrow
  <2> QED
    BY <1>9, <2>1, <2>2 DEF Split!WorkspaceTree
<1>15. Split!WorkspaceEditor \in Slots3
  <2>1. /\ Split!Leaf("editor", 50) \in Slots0 /\ Split!Leaf("agent", 50) \in Slots0
        /\ Split!Leaf("shell", 20) \in Slots1 /\ Split!Leaf("panel", 30) \in Slots2
    BY <1>1, <1>5, SlotsGrow
  <2>2. Split!Box(80, "h", <<Split!Leaf("editor", 50), Split!Leaf("agent", 50)>>) \in Slots1
    BY <1>7, <2>1
  <2>3. Split!Box(100, "v", <<Split!Box(80, "h", <<Split!Leaf("editor", 50), Split!Leaf("agent", 50)>>),
                              Split!Leaf("shell", 20)>>) \in Slots2
    BY <1>8, <2>1, <2>2
  <2> QED
    BY <1>9, <2>1, <2>3 DEF Split!WorkspaceEditor
<1>16. Split!Custom \in Slots3
  <2>1. /\ Split!Leaf("agent", 40) \in Slots2 /\ Split!Leaf("panel", 50) \in Slots0 /\ Split!Row(30) \in Slots2
    BY <1>1, <1>5, <1>6, SlotsGrow
  <2>2. <<Split!Leaf("panel", 50)>> \in Seq(Slots0)
    BY <2>1
  <2>3. Split!Box(30, "v", <<Split!Leaf("panel", 50)>>) \in Slots2
    BY <1>2, <2>2, SlotsGrow DEF Slots1
  <2>4. <<Split!Leaf("agent", 40), Split!Row(30), Split!Box(30, "v", <<Split!Leaf("panel", 50)>>)>> \in Seq(Slots2)
    BY <1>4, <2>1, <2>3
  <2> QED
    BY <1>2, <2>4 DEF Split!Custom, Slots3
<1>17. \A name \in DOMAIN Split!Preset : Split!Preset[name] \in Slots3
  <2> DEFINE t == Split!Preset
  <2>1. /\ t.solo \in Slots3 /\ t.pair \in Slots3 /\ t.squad \in Slots3 /\ t.grid \in Slots3
        /\ t.workspace \in Slots3 /\ t.workspace_editor \in Slots3
    BY <1>10, <1>11, <1>12, <1>13, <1>14, <1>15 DEF Split!Preset
  <2>2. DOMAIN t = {"solo", "pair", "squad", "grid", "workspace", "workspace_editor"}
    BY DEF Split!Preset
  <2> HIDE DEF t
  <2>3. \A name \in DOMAIN t : t[name] \in Slots3
    BY <2>1, <2>2
  <2> QED
    BY <2>3 DEF t
<1> QED
  BY <1>10, <1>16, <1>17

\* The leaves of a slot are its role or what the leaves of its kids flatten to,
\* three boxes deep.
LEMMA LeavesOfKids ==
  ASSUME NEW slot \in Slots3
  PROVE  /\ Split!Leaves(slot) \in Seq(Roles)
         /\ slot.kids = <<>> => Split!Leaves(slot) = <<slot.role>>
         /\ slot.kids # <<>> =>
              Split!Leaves(slot) = Split!FlattenSeq([i \in 1 .. Len(slot.kids) |-> Split!Leaves(slot.kids[i])])
<1>1. ASSUME NEW s \in Slots0  PROVE Split!InnerLeaves(s) = <<s.role>> /\ s.role \in Roles /\ s.kids = <<>>
  BY DEF Slots0, SlotsOver, Split!InnerLeaves
<1>2. ASSUME NEW s \in Slots1
      PROVE  Split!InnerLeaves(s) \in Seq(Roles) /\ Split!MiddleLeaves(s) = Split!InnerLeaves(s)
  <2> DEFINE n == Len(s.kids)
             r == [i \in 1 .. n |-> s.kids[i].role]
  <2>1. s.role \in Roles /\ s.kids \in Seq(Slots0)
    BY DEF Slots1, SlotsOver
  <2>2. n \in Nat /\ DOMAIN s.kids = 1 .. n /\ \A i \in 1 .. n : s.kids[i] \in Slots0
    BY <2>1, ElementOfSeq, LenProperties
  <2> HIDE DEF n
  <2>3. r \in Seq(Roles) /\ Len(r) = n
    BY <1>1, <2>2
  <2>4. CASE s.kids = <<>>
    BY <2>1, <2>4 DEF Split!InnerLeaves, Split!MiddleLeaves
  <2>5. CASE s.kids # <<>>
    <3>1. Split!InnerLeaves(s) = r
      BY <2>2, <2>5 DEF Split!InnerLeaves
    <3>2. [i \in DOMAIN s.kids |-> Split!InnerLeaves(s.kids[i])] = [i \in 1 .. Len(r) |-> <<r[i]>>]
      BY <1>1, <2>2, <2>3
    <3>3. Split!MiddleLeaves(s) = Split!FlattenSeq([i \in 1 .. Len(r) |-> <<r[i]>>])
      BY <2>5, <3>2 DEF Split!MiddleLeaves
    <3> HIDE DEF r
    <3>4. Split!MiddleLeaves(s) = r
      BY <2>3, <3>3, FlatSingles
    <3> QED
      BY <2>3, <3>1, <3>4
  <2> QED
    BY <2>4, <2>5
<1>3. ASSUME NEW s \in Slots2
      PROVE  Split!MiddleLeaves(s) \in Seq(Roles) /\ Split!Leaves(s) = Split!MiddleLeaves(s)
  <2> DEFINE n == Len(s.kids)
             l == [i \in 1 .. n |-> Split!InnerLeaves(s.kids[i])]
  <2>1. s.role \in Roles /\ s.kids \in Seq(Slots1)
    BY DEF Slots2, SlotsOver
  <2>2. n \in Nat /\ DOMAIN s.kids = 1 .. n /\ \A i \in 1 .. n : s.kids[i] \in Slots1
    BY <2>1, ElementOfSeq, LenProperties
  <2> HIDE DEF n
  <2>3. l \in Seq(Seq(Roles))
    BY <1>2, <2>2
  <2>4. CASE s.kids = <<>>
    BY <2>1, <2>4 DEF Split!MiddleLeaves, Split!Leaves
  <2>5. CASE s.kids # <<>>
    <3>1. Split!MiddleLeaves(s) = Split!FlattenSeq(l)
      BY <2>2, <2>5 DEF Split!MiddleLeaves
    <3>2. [i \in DOMAIN s.kids |-> Split!MiddleLeaves(s.kids[i])] = l
      BY <1>2, <2>2
    <3>3. Split!Leaves(s) = Split!FlattenSeq(l)
      BY <2>5, <3>2 DEF Split!Leaves
    <3> HIDE DEF l
    <3>4. Split!FlattenSeq(l) \in Seq(Roles)
      BY <2>3, FlatType
    <3> QED
      BY <3>1, <3>3, <3>4
  <2> QED
    BY <2>4, <2>5
<1> DEFINE n == Len(slot.kids)
           l == [i \in 1 .. n |-> Split!Leaves(slot.kids[i])]
<1>4. slot.role \in Roles /\ slot.kids \in Seq(Slots2)
  BY DEF Slots3, SlotsOver
<1>5. n \in Nat /\ DOMAIN slot.kids = 1 .. n /\ \A i \in 1 .. n : slot.kids[i] \in Slots2
  BY <1>4, ElementOfSeq, LenProperties
<1> HIDE DEF n
<1>6. l \in Seq(Seq(Roles))
  BY <1>3, <1>5
<1>7. CASE slot.kids = <<>>
  BY <1>4, <1>7 DEF Split!Leaves
<1>8. CASE slot.kids # <<>>
  <2>1. [i \in DOMAIN slot.kids |-> Split!MiddleLeaves(slot.kids[i])] = l
    BY <1>3, <1>5
  <2>2. Split!Leaves(slot) = Split!FlattenSeq(l)
    BY <1>8, <2>1 DEF Split!Leaves
  <2> HIDE DEF l
  <2>3. Split!FlattenSeq(l) \in Seq(Roles)
    BY <1>6, FlatType
  <2> QED
    BY <1>8, <2>2, <2>3 DEF l, n
<1> QED
  BY <1>7, <1>8

Rects == [x : Int, y : Int, w : Int, h : Int]
Works == [do : {"apply", "split"}, slot : Slots3, pane : Nat, dir : {"h", "v"}]
LayoutTypes ==
  /\ v1 \in [config : Split!Configs, panes : Seq(Rects), session : BOOLEAN]
  /\ v2 \in [at : {"none", "target", "slots", "done", "failed"}, name : Split!Names \cup {"none"},
             tree : Slots3, todo : Seq(Works), got : Seq(Roles \X Nat)]
  /\ v2.at \in {"none", "target"} => v2.got = <<>> /\ v2.todo = <<>>
  /\ v2.at = "done" => v2.todo = <<>>

\* The roles recorded, then those of what is still to be laid out, are the tree's.
RolesOf(got) == [i \in 1 .. Len(got) |-> got[i][1]]
LeavesOf(todo) == [i \in 1 .. Len(todo) |-> Split!Leaves(todo[i].slot)]
LeavesKept ==
  v2.at \in {"slots", "done"} =>
    RolesOf(v2.got) \o Split!FlattenSeq(LeavesOf(v2.todo)) = Split!Leaves(v2.tree)

\* Each pane is recorded, or about to be taken by the slot that comes next; what comes
\* after that splits a pane that is there.
Applying == v2.todo # <<>> /\ Head(v2.todo).do = "apply"
Taken(got) == {got[i][2] : i \in 1 .. Len(got)}
PanesTaken ==
  v2.at \in {"slots", "done"} =>
    /\ ~ Applying => Taken(v2.got) = 1 .. Len(v1.panes) /\ Len(v2.got) = Len(v1.panes)
    /\ Applying => Taken(v2.got) \cup {Head(v2.todo).pane} = 1 .. Len(v1.panes)
                   /\ Len(v2.got) + 1 = Len(v1.panes)
SplitsLeft ==
  \A i \in 1 .. Len(v2.todo) :
    /\ v2.todo[i].pane \in 1 .. Len(v1.panes)
    /\ i # 1 => v2.todo[i].do = "split"

LayoutInv == LayoutTypes /\ LeavesKept /\ PanesTaken /\ SplitsLeft

\* At first nothing is to be done.
LEMMA LayoutInit == Split!Init => LayoutInv
<1> SUFFICES ASSUME Split!Init  PROVE LayoutInv
  OBVIOUS
<1>1. PICK config \in Split!Configs, session \in BOOLEAN :
        v1 = [config |-> config, panes |-> <<>>, session |-> session]
  BY DEF Split!Init
<1>2. v2 = [at |-> "none", name |-> "none", tree |-> Split!Solo, todo |-> <<>>, got |-> <<>>]
  BY DEF Split!Init
<1>3. Split!Solo \in Slots3 /\ <<>> \in Seq(Rects) /\ <<>> \in Seq(Works) /\ <<>> \in Seq(Roles \X Nat)
  BY TreesFit, EmptySeq
<1>4. v2.at = "none" /\ v2.todo = <<>> /\ v2.got = <<>>
  BY <1>2
<1>5. LayoutTypes
  BY <1>1, <1>2, <1>3 DEF LayoutTypes
<1> QED
  BY <1>4, <1>5 DEF LayoutInv, LeavesKept, PanesTaken, SplitsLeft

\* A layout that is there by its name fits.
LEMMA LayoutLoads ==
  ASSUME LayoutInv, Split!Load
  PROVE  LayoutInv'
<1>1. PICK name \in Split!Names :
        v2' = IF v1.config = "unreadable" \/ Split!Found(name) = {}
              THEN [v2 EXCEPT !.at = "failed", !.name = name]
              ELSE [v2 EXCEPT !.at = "target", !.name = name, !.tree = CHOOSE t \in Split!Found(name) : TRUE]
  BY DEF Split!Load
<1>2. v1' = v1 /\ v2.at = "none" /\ v2.got = <<>> /\ v2.todo = <<>>
  BY DEF Split!Load, LayoutInv, LayoutTypes
<1>3. \A t \in Split!Found(name) : t \in Slots3
  BY TreesFit DEF Split!Found
<1>4. CASE v2' = [v2 EXCEPT !.at = "failed", !.name = name]
  <2>1. v2'.at = "failed" /\ v2'.todo = <<>> /\ LayoutTypes'
    BY <1>2, <1>4 DEF LayoutInv, LayoutTypes
  <2> QED
    BY <2>1 DEF LayoutInv, LeavesKept, PanesTaken, SplitsLeft
<1>5. CASE /\ Split!Found(name) # {}
           /\ v2' = [v2 EXCEPT !.at = "target", !.name = name, !.tree = CHOOSE t \in Split!Found(name) : TRUE]
  <2>1. PICK t \in Split!Found(name) : t = CHOOSE x \in Split!Found(name) : TRUE
    BY <1>5
  <2>2. v2' = [v2 EXCEPT !.at = "target", !.name = name, !.tree = t] /\ t \in Slots3
    BY <1>3, <1>5, <2>1
  <2>3. v2'.at = "target" /\ v2'.todo = <<>> /\ LayoutTypes'
    BY <1>2, <2>2 DEF LayoutInv, LayoutTypes
  <2> QED
    BY <2>3 DEF LayoutInv, LeavesKept, PanesTaken, SplitsLeft
<1> QED
  BY <1>1, <1>4, <1>5

\* A sequence's leaves are a sequence of sequences of roles.
LEMMA LeavesType ==
  ASSUME NEW todo \in Seq(Works)
  PROVE  LeavesOf(todo) \in Seq(Seq(Roles)) /\ Len(LeavesOf(todo)) = Len(todo)
<1>1. Len(todo) \in Nat /\ \A i \in 1 .. Len(todo) : todo[i] \in Works
  BY ElementOfSeq, LenProperties
<1>2. \A i \in 1 .. Len(todo) : todo[i].slot \in Slots3
  BY <1>1 DEF Works
<1>3. \A i \in 1 .. Len(todo) : Split!Leaves(todo[i].slot) \in Seq(Roles)
  BY <1>2, LeavesOfKids
<1> QED
  BY <1>1, <1>3 DEF LeavesOf

\* What goes before the rest flattens before it.
LEMMA LeavesJoin ==
  ASSUME NEW a \in Seq(Works), NEW b \in Seq(Works)
  PROVE  /\ a \o b \in Seq(Works)
         /\ Split!FlattenSeq(LeavesOf(a \o b)) =
              Split!FlattenSeq(LeavesOf(a)) \o Split!FlattenSeq(LeavesOf(b))
<1> DEFINE c == a \o b
           la == LeavesOf(a)
           lb == LeavesOf(b)
           lc == LeavesOf(c)
<1>1. /\ c \in Seq(Works) /\ Len(c) = Len(a) + Len(b) /\ Len(a) \in Nat /\ Len(b) \in Nat
      /\ \A i \in 1 .. Len(a) + Len(b) : c[i] = IF i <= Len(a) THEN a[i] ELSE b[i - Len(a)]
  BY ConcatProperties, LenProperties
<1> HIDE DEF c
<1>2. /\ la \in Seq(Seq(Roles)) /\ Len(la) = Len(a) /\ lb \in Seq(Seq(Roles)) /\ Len(lb) = Len(b)
      /\ lc \in Seq(Seq(Roles)) /\ Len(lc) = Len(c)
  BY <1>1, LeavesType
<1>3. /\ \A i \in 1 .. Len(a) : la[i] = Split!Leaves(a[i].slot)
      /\ \A i \in 1 .. Len(b) : lb[i] = Split!Leaves(b[i].slot)
      /\ \A i \in 1 .. Len(c) : lc[i] = Split!Leaves(c[i].slot)
  BY DEF LeavesOf
<1> HIDE DEF la, lb, lc
<1>4. /\ la \o lb \in Seq(Seq(Roles)) /\ Len(la \o lb) = Len(a) + Len(b)
      /\ \A i \in 1 .. Len(a) + Len(b) : (la \o lb)[i] = IF i <= Len(a) THEN la[i] ELSE lb[i - Len(a)]
  <2>1. /\ la \o lb \in Seq(Seq(Roles)) /\ Len(la \o lb) = Len(la) + Len(lb)
        /\ \A i \in 1 .. Len(la) + Len(lb) : (la \o lb)[i] = IF i <= Len(la) THEN la[i] ELSE lb[i - Len(la)]
    BY <1>2, ConcatProperties
  <2> QED
    BY <1>2, <2>1
<1>5. \A i \in 1 .. Len(lc) : lc[i] = (la \o lb)[i]
  <2> SUFFICES ASSUME NEW i \in 1 .. Len(lc)  PROVE lc[i] = (la \o lb)[i]
    OBVIOUS
  <2>1. i \in 1 .. Len(c) /\ i \in 1 .. Len(a) + Len(b)
    BY <1>1, <1>2
  <2>2. CASE i <= Len(a)
    <3>1. i \in 1 .. Len(a)
      BY <1>1, <2>1, <2>2
    <3> QED
      BY <1>1, <1>3, <1>4, <2>1, <2>2, <3>1
  <2>3. CASE ~ (i <= Len(a))
    <3>1. i - Len(a) \in 1 .. Len(b)
      BY <1>1, <2>1, <2>3
    <3> QED
      BY <1>1, <1>3, <1>4, <2>1, <2>3, <3>1
  <2> QED
    BY <2>2, <2>3
<1>6. lc = la \o lb
  BY <1>1, <1>2, <1>4, <1>5, SeqEqual
<1>7. Split!FlattenSeq(lc) = Split!FlattenSeq(la) \o Split!FlattenSeq(lb)
  BY <1>2, <1>6, FlatConcat
<1> QED
  BY <1>1, <1>7 DEF c, la, lb, lc

\* What is at the head comes first.
LEMMA LeavesHead ==
  ASSUME NEW todo \in Seq(Works), todo # <<>>
  PROVE  Split!FlattenSeq(LeavesOf(todo)) =
           Split!Leaves(Head(todo).slot) \o Split!FlattenSeq(LeavesOf(Tail(todo)))
<1>1. Head(todo) \in Works /\ Tail(todo) \in Seq(Works)
  BY HeadTail
<1>2. PICK one \in Seq(Works) : one = <<Head(todo)>> /\ Len(one) = 1 /\ one[1] = Head(todo)
  <2>1. <<Head(todo)>> \in Seq(Works)
    BY <1>1
  <2> QED
    BY <2>1
<1>3. todo = one \o Tail(todo)
  <2>1. /\ one \o Tail(todo) \in Seq(Works) /\ Len(one \o Tail(todo)) = 1 + Len(Tail(todo))
        /\ \A i \in 1 .. 1 + Len(Tail(todo)) :
             (one \o Tail(todo))[i] = IF i <= 1 THEN one[i] ELSE Tail(todo)[i - 1]
    BY <1>1, <1>2, ConcatProperties
  <2>2. /\ Len(todo) \in Nat /\ Len(todo) > 0 /\ Len(Tail(todo)) = Len(todo) - 1 /\ Head(todo) = todo[1]
        /\ \A i \in 2 .. Len(todo) : Tail(todo)[i - 1] = todo[i]
    BY HeadTail
  <2>3. \A i \in 1 .. Len(todo) : todo[i] = (one \o Tail(todo))[i]
    BY <1>2, <2>1, <2>2
  <2> QED
    BY <2>1, <2>2, <2>3, SeqEqual
<1>4. Split!FlattenSeq(LeavesOf(one)) = Split!Leaves(Head(todo).slot)
  <2>1. Head(todo).slot \in Slots3
    BY <1>1 DEF Works
  <2>2. PICK e \in Seq(Roles) : e = Split!Leaves(Head(todo).slot)
    BY <2>1, LeavesOfKids
  <2>3. LeavesOf(one) = <<e>>
    BY <1>2, <2>2 DEF LeavesOf
  <2> QED
    BY <2>2, <2>3, FlatOne
<1>5. Split!FlattenSeq(LeavesOf(one \o Tail(todo))) =
        Split!FlattenSeq(LeavesOf(one)) \o Split!FlattenSeq(LeavesOf(Tail(todo)))
  BY <1>1, LeavesJoin
<1> QED
  BY <1>3, <1>4, <1>5

\* Where the panes go: the current one, or a new window's.
LEMMA LayoutTargets ==
  ASSUME LayoutInv, Split!Target
  PROVE  LayoutInv'
<1>1. v2.at = "target" /\ v2.got = <<>> /\ v2.todo = <<>> /\ v2.tree \in Slots3
  BY DEF Split!Target, LayoutInv, LayoutTypes
<1>2. CASE v1' = v1 /\ v2' = [v2 EXCEPT !.at = "failed"]
  <2>1. v2'.at = "failed" /\ v2'.todo = <<>> /\ LayoutTypes'
    BY <1>1, <1>2 DEF LayoutInv, LayoutTypes
  <2> QED
    BY <2>1 DEF LayoutInv, LeavesKept, PanesTaken, SplitsLeft
<1>3. CASE /\ v1' = [v1 EXCEPT !.panes = <<Split!Window>>]
           /\ v2' = [v2 EXCEPT !.at = "slots", !.todo = <<Split!Apply(v2.tree, 1)>>]
  <2>1. Split!Apply(v2.tree, 1) \in Works /\ Split!Window \in Rects
    BY <1>1 DEF Split!Apply, Works, Split!Window, Rects
  <2>2. PICK todo \in Seq(Works) :
          /\ todo = <<Split!Apply(v2.tree, 1)>> /\ Len(todo) = 1 /\ todo[1] = Split!Apply(v2.tree, 1)
          /\ Head(todo) = Split!Apply(v2.tree, 1) /\ Tail(todo) = <<>> /\ todo # <<>>
    <3>1. PICK x \in Works : x = Split!Apply(v2.tree, 1)
      BY <2>1
    <3>2. <<x>> \in Seq(Works) /\ Len(<<x>>) = 1 /\ <<x>>[1] = x /\ <<x>> # <<>>
      OBVIOUS
    <3>3. Head(<<x>>) = x /\ Tail(<<x>>) = <<>>
      BY <3>2, HeadTail
    <3> QED
      BY <3>1, <3>2, <3>3
  <2>3. PICK panes \in Seq(Rects) : panes = <<Split!Window>> /\ Len(panes) = 1
    <3>1. <<Split!Window>> \in Seq(Rects)
      BY <2>1
    <3> QED
      BY <3>1
  <2>4. /\ v1'.panes = panes /\ v2'.at = "slots" /\ v2'.todo = todo /\ v2'.got = <<>> /\ v2'.tree = v2.tree
        /\ LayoutTypes'
    BY <1>1, <1>3, <2>2, <2>3 DEF LayoutInv, LayoutTypes
  <2>5. todo[1].do = "apply" /\ todo[1].slot = v2.tree /\ todo[1].pane = 1
    BY <2>2 DEF Split!Apply
  <2>6. LeavesKept'
    <3>1. Split!FlattenSeq(LeavesOf(todo)) = Split!Leaves(v2.tree) \o Split!FlattenSeq(LeavesOf(<<>>))
      BY <2>2, <2>5, LeavesHead
    <3>2. Split!Leaves(v2.tree) \in Seq(Roles)
      BY <1>1, LeavesOfKids
    <3>3. LeavesOf(<<>>) = <<>> /\ RolesOf(<<>>) = <<>>
      BY DEF LeavesOf, RolesOf
    <3>4. RolesOf(<<>>) \o Split!FlattenSeq(LeavesOf(todo)) = Split!Leaves(v2.tree)
      BY <3>1, <3>2, <3>3, FlatEmpty, ConcatEmptySeq
    <3> QED
      BY <2>4, <3>4 DEF LeavesKept
  <2>7. PanesTaken' /\ SplitsLeft'
    <3>1. Taken(<<>>) = {} /\ Len(<<>>) = 0
      BY DEF Taken
    <3>2. Applying' /\ Head(v2'.todo).pane = 1
      BY <2>2, <2>4, <2>5 DEF Applying
    <3> QED
      BY <2>2, <2>3, <2>4, <2>5, <3>1, <3>2 DEF PanesTaken, SplitsLeft
  <2> QED
    BY <2>4, <2>6, <2>7 DEF LayoutInv
<1> QED
  BY <1>2, <1>3 DEF Split!Target

\* What a step finds at the head.
LEMMA LayoutDoes ==
  ASSUME LayoutInv, NEW what, Split!Doing(what)
  PROVE  /\ v2.at = "slots" /\ v2.todo \in Seq(Works) /\ v2.todo # <<>> /\ Head(v2.todo).do = what
         /\ Head(v2.todo) \in Works /\ Head(v2.todo).pane \in 1 .. Len(v1.panes)
         /\ Tail(v2.todo) \in Seq(Works)
         /\ \A i \in 1 .. Len(Tail(v2.todo)) :
              Tail(v2.todo)[i].do = "split" /\ Tail(v2.todo)[i].pane \in 1 .. Len(v1.panes)
         /\ Tail(v2.todo) # <<>> => Head(Tail(v2.todo)).do = "split"
<1> DEFINE todo == v2.todo
<1>1. v2.at = "slots" /\ todo \in Seq(Works) /\ todo # <<>> /\ Head(todo).do = what
  BY DEF Split!Doing, Split!Next1, LayoutInv, LayoutTypes
<1>2. \A i \in 1 .. Len(todo) : todo[i].pane \in 1 .. Len(v1.panes) /\ (i # 1 => todo[i].do = "split")
  BY DEF LayoutInv, SplitsLeft
<1> HIDE DEF todo
<1>3. /\ Len(todo) \in Nat /\ Len(todo) > 0 /\ Head(todo) = todo[1] /\ todo[1] \in Works
      /\ Tail(todo) \in Seq(Works)
      /\ \A i \in 1 .. Len(Tail(todo)) : i + 1 \in 1 .. Len(todo) /\ Tail(todo)[i] = todo[i + 1]
  BY <1>1, HeadTail
<1>4. \A i \in 1 .. Len(Tail(todo)) : Tail(todo)[i].do = "split" /\ Tail(todo)[i].pane \in 1 .. Len(v1.panes)
  BY <1>2, <1>3
<1>5. Tail(todo) # <<>> => Head(Tail(todo)).do = "split"
  <2>1. Tail(todo) # <<>> => 1 \in 1 .. Len(Tail(todo)) /\ Head(Tail(todo)) = Tail(todo)[1]
    BY <1>3, HeadTail
  <2> QED
    BY <1>4, <2>1
<1>6. Head(todo).pane \in 1 .. Len(v1.panes)
  BY <1>2, <1>3
<1> QED
  BY <1>1, <1>3, <1>4, <1>5, <1>6 DEF todo

\* What is recorded comes last.
LEMMA RecordedOne ==
  ASSUME NEW got \in Seq(Roles \X Nat), NEW r \in Roles, NEW p \in Nat
  PROVE  /\ Append(got, <<r, p>>) \in Seq(Roles \X Nat) /\ Len(Append(got, <<r, p>>)) = Len(got) + 1
         /\ RolesOf(got) \in Seq(Roles)
         /\ RolesOf(Append(got, <<r, p>>)) = RolesOf(got) \o <<r>>
         /\ Taken(Append(got, <<r, p>>)) = Taken(got) \cup {p}
<1> DEFINE n == Len(got)
           new == Append(got, <<r, p>>)
           one == <<r>>
<1>1. PICK e \in Roles \X Nat : e = <<r, p>> /\ e[1] = r /\ e[2] = p
  <2>1. <<r, p>> \in Roles \X Nat
    OBVIOUS
  <2>2. <<r, p>>[1] = r /\ <<r, p>>[2] = p
    OBVIOUS
  <2> QED
    BY <2>1, <2>2
<1>2. n \in Nat /\ \A i \in 1 .. n : got[i] \in Roles \X Nat
  BY ElementOfSeq, LenProperties
<1>3. /\ new \in Seq(Roles \X Nat) /\ Len(new) = n + 1 /\ new[n + 1] = e
      /\ \A i \in 1 .. n : new[i] = got[i]
  BY <1>1, AppendProperties
<1>4. one \in Seq(Roles) /\ Len(one) = 1 /\ one[1] = r
  OBVIOUS
<1> HIDE DEF n, new, one
<1>5. \A i \in 1 .. n : got[i][1] \in Roles
  BY <1>2
<1>6. RolesOf(got) \in Seq(Roles) /\ Len(RolesOf(got)) = n /\ \A i \in 1 .. n : RolesOf(got)[i] = got[i][1]
  BY <1>2, <1>5 DEF RolesOf, n
<1>7. /\ RolesOf(got) \o one \in Seq(Roles) /\ Len(RolesOf(got) \o one) = n + 1
      /\ \A i \in 1 .. n + 1 : (RolesOf(got) \o one)[i] = IF i <= n THEN RolesOf(got)[i] ELSE one[i - n]
  <2>1. /\ RolesOf(got) \o one \in Seq(Roles) /\ Len(RolesOf(got) \o one) = Len(RolesOf(got)) + Len(one)
        /\ \A i \in 1 .. Len(RolesOf(got)) + Len(one) :
             (RolesOf(got) \o one)[i] = IF i <= Len(RolesOf(got)) THEN RolesOf(got)[i] ELSE one[i - Len(RolesOf(got))]
    BY <1>4, <1>6, ConcatProperties
  <2> QED
    BY <1>4, <1>6, <2>1
<1>8. \A i \in 1 .. n + 1 : new[i][1] = (RolesOf(got) \o one)[i]
  <2> SUFFICES ASSUME NEW i \in 1 .. n + 1  PROVE new[i][1] = (RolesOf(got) \o one)[i]
    OBVIOUS
  <2>1. CASE i <= n
    <3>1. i \in 1 .. n
      BY <1>2, <2>1
    <3> QED
      BY <1>3, <1>6, <1>7, <2>1, <3>1
  <2>2. CASE ~ (i <= n)
    <3>1. i = n + 1 /\ i - n = 1
      BY <1>2, <2>2
    <3> QED
      BY <1>1, <1>3, <1>4, <1>7, <2>2, <3>1
  <2> QED
    BY <2>1, <2>2
<1>9. /\ RolesOf(new) \in Seq(Roles) /\ Len(RolesOf(new)) = n + 1
      /\ \A i \in 1 .. n + 1 : RolesOf(new)[i] = new[i][1]
  <2>1. n + 1 \in Nat
    BY <1>2
  <2>2. \A i \in 1 .. n + 1 : new[i] \in Roles \X Nat
    BY <1>3, ElementOfSeq
  <2>3. \A i \in 1 .. n + 1 : new[i][1] \in Roles
    BY <2>2
  <2>4. RolesOf(new) = [i \in 1 .. n + 1 |-> new[i][1]]
    BY <1>3 DEF RolesOf
  <2>5. \A f : f = [i \in 1 .. n + 1 |-> new[i][1]] =>
          f \in Seq(Roles) /\ Len(f) = n + 1 /\ \A i \in 1 .. n + 1 : f[i] = new[i][1]
    BY <2>1, <2>3, SMTT(30)
  <2> QED
    BY <2>4, <2>5
<1>10. RolesOf(new) = RolesOf(got) \o one
  <2>1. \A i \in 1 .. Len(RolesOf(new)) : RolesOf(new)[i] = (RolesOf(got) \o one)[i]
    BY <1>8, <1>9
  <2>2. Len(RolesOf(new)) = Len(RolesOf(got) \o one)
    BY <1>7, <1>9
  <2>3. RolesOf(new) \in Seq(Roles) /\ RolesOf(got) \o one \in Seq(Roles)
    BY <1>7, <1>9
  <2> QED
    BY ONLY <2>1, <2>2, <2>3, SeqEqual
<1>11. Taken(new) = Taken(got) \cup {p}
  <2>1. \A i \in 1 .. n + 1 : i \in 1 .. n \/ i = n + 1
    BY <1>2
  <2>2. n + 1 \in 1 .. n + 1 /\ \A i \in 1 .. n : i \in 1 .. n + 1
    BY <1>2
  <2> QED
    BY <1>1, <1>3, <2>1, <2>2, SMTT(30) DEF Taken, n
<1> QED
  BY <1>3, <1>6, <1>10, <1>11 DEF n, new, one

\* What is put in front comes first.
LEMMA PutFirst ==
  ASSUME NEW S, NEW x \in S, NEW t \in Seq(S)
  PROVE  /\ <<x>> \o t \in Seq(S) /\ <<x>> \o t # <<>> /\ Head(<<x>> \o t) = x /\ Tail(<<x>> \o t) = t
         /\ Len(<<x>> \o t) = Len(t) + 1
         /\ \A i \in 1 .. Len(<<x>> \o t) : i # 1 => i - 1 \in 1 .. Len(t) /\ (<<x>> \o t)[i] = t[i - 1]
         /\ (<<x>> \o t)[1] = x
<1> DEFINE one == <<x>>
           u == one \o t
<1>1. one \in Seq(S) /\ Len(one) = 1 /\ one[1] = x /\ Len(t) \in Nat
  BY LenProperties
<1> HIDE DEF one
<1>2. /\ u \in Seq(S) /\ Len(u) = Len(one) + Len(t)
      /\ \A i \in 1 .. Len(one) + Len(t) : u[i] = IF i <= Len(one) THEN one[i] ELSE t[i - Len(one)]
  BY <1>1, ConcatProperties
<1> HIDE DEF u
<1>3. /\ Len(u) = Len(t) + 1 /\ u[1] = x
      /\ \A i \in 1 .. Len(u) : i # 1 => i - 1 \in 1 .. Len(t) /\ u[i] = t[i - 1]
  BY <1>1, <1>2
<1>4. u # <<>>
  BY <1>1, <1>3, EmptySeq
<1>5. /\ Head(u) = u[1] /\ Tail(u) \in Seq(S) /\ Len(Tail(u)) = Len(u) - 1
      /\ \A i \in 1 .. Len(Tail(u)) : i + 1 \in 1 .. Len(u) /\ Tail(u)[i] = u[i + 1]
  BY <1>2, <1>4, HeadTail
<1>6. Tail(u) = t
  <2>1. Len(Tail(u)) = Len(t)
    BY <1>1, <1>3, <1>5
  <2>2. \A i \in 1 .. Len(t) : Tail(u)[i] = t[i]
    <3> SUFFICES ASSUME NEW i \in 1 .. Len(t)  PROVE Tail(u)[i] = t[i]
      OBVIOUS
    <3>1. i + 1 \in 1 .. Len(u) /\ i + 1 # 1 /\ (i + 1) - 1 = i
      BY <1>1, <1>3
    <3> QED
      BY <1>3, <1>5, <2>1, <3>1
  <2> QED
    BY <1>5, <2>1, <2>2, SeqEqual
<1> QED
  BY <1>2, <1>3, <1>4, <1>5, <1>6 DEF u, one

\* A leaf is recorded with its pane.
LEMMA LayoutLeaf ==
  ASSUME LayoutInv, Split!ApplySlot, Split!Next1.slot.kids = <<>>
  PROVE  LayoutInv'
<1> DEFINE next == Head(v2.todo)
           rest == Tail(v2.todo)
<1>1. /\ v2.at = "slots" /\ v2.todo \in Seq(Works) /\ v2.todo # <<>> /\ next.do = "apply" /\ next \in Works
      /\ rest \in Seq(Works)
      /\ \A i \in 1 .. Len(rest) : rest[i].do = "split" /\ rest[i].pane \in 1 .. Len(v1.panes)
      /\ rest # <<>> => Head(rest).do = "split"
  BY LayoutDoes DEF Split!ApplySlot
<1>2. next.slot \in Slots3 /\ next.pane \in Nat /\ next.slot.kids = <<>>
  BY <1>1 DEF Works, Split!Next1
<1>3. PICK r \in Roles, p \in Nat : r = next.slot.role /\ p = next.pane
  BY <1>2 DEF Slots3, SlotsOver
<1>4. v1' = v1 /\ v2' = [v2 EXCEPT !.todo = rest, !.got = Append(v2.got, <<r, p>>)]
  BY <1>2, <1>3 DEF Split!ApplySlot, Split!Next1
<1>5. v2.got \in Seq(Roles \X Nat) /\ v2 = [v2 EXCEPT !.at = "slots"]
  BY <1>1 DEF LayoutInv, LayoutTypes
<1> DEFINE got == v2.got
           new == Append(got, <<r, p>>)
<1>6. /\ new \in Seq(Roles \X Nat) /\ Len(new) = Len(got) + 1 /\ RolesOf(got) \in Seq(Roles)
      /\ RolesOf(new) = RolesOf(got) \o <<r>> /\ Taken(new) = Taken(got) \cup {p}
  <2>1. got \in Seq(Roles \X Nat)
    BY <1>5
  <2> QED
    BY ONLY <2>1, r \in Roles, p \in Nat, RecordedOne
<1>7. v2'.at = "slots" /\ v2'.todo = rest /\ v2'.got = new /\ v2'.tree = v2.tree /\ LayoutTypes'
  <2>1. v2' = [v2 EXCEPT !.todo = rest, !.got = new]
    BY <1>4
  <2> HIDE DEF rest, new
  <2> QED
    BY <1>1, <1>4, <1>6, <2>1 DEF LayoutInv, LayoutTypes
<1>8. LeavesKept'
  <2> DEFINE after == Split!FlattenSeq(LeavesOf(rest))
  <2>1. Split!FlattenSeq(LeavesOf(v2.todo)) = <<r>> \o after
    BY <1>1, <1>2, <1>3, LeavesHead, LeavesOfKids
  <2>2. RolesOf(got) \o (<<r>> \o after) = Split!Leaves(v2.tree)
    BY <1>1, <2>1 DEF LayoutInv, LeavesKept
  <2>3. after \in Seq(Roles) /\ <<r>> \in Seq(Roles)
    <3>1. LeavesOf(rest) \in Seq(Seq(Roles))
      BY <1>1, LeavesType
    <3>2. after \in Seq(Roles)
      BY ONLY <3>1, FlatType
    <3>3. <<r>> \in Seq(Roles)
      OBVIOUS
    <3> QED
      BY <3>2, <3>3
  <2>4. (RolesOf(got) \o <<r>>) \o after = RolesOf(got) \o (<<r>> \o after)
    <3>1. \A a, b, c \in Seq(Roles) : (a \o b) \o c = a \o (b \o c)
      BY ConcatAssociative
    <3> QED
      BY ONLY <1>6, <2>3, <3>1, Zenon
  <2>5. RolesOf(new) \o after = Split!Leaves(v2.tree)
    BY <1>6, <2>2, <2>4
  <2> HIDE DEF rest, new
  <2> QED
    BY <1>7, <2>5 DEF LeavesKept
<1>9. ~ Applying'
  BY <1>1, <1>7 DEF Applying
<1>10. Taken(got) \cup {p} = 1 .. Len(v1.panes) /\ Len(got) + 1 = Len(v1.panes)
  BY <1>1, <1>3 DEF LayoutInv, PanesTaken, Applying
<1> HIDE DEF rest, new, next
<1>11. PanesTaken'
  BY <1>4, <1>6, <1>7, <1>9, <1>10 DEF PanesTaken
<1>12. SplitsLeft'
  BY <1>1, <1>4, <1>7 DEF SplitsLeft
<1> QED
  BY <1>7, <1>8, <1>11, <1>12 DEF LayoutInv

\* A box's first child takes its pane, and the others are to split it.
LEMMA LayoutBox ==
  ASSUME LayoutInv, Split!ApplySlot, Split!Next1.slot.kids # <<>>
  PROVE  LayoutInv'
<1> DEFINE next == Head(v2.todo)
           rest == Tail(v2.todo)
           kids == next.slot.kids
           work == [i \in 1 .. Len(kids) |->
                      IF i = 1 THEN Split!Apply(kids[1], next.pane)
                      ELSE Split!SplitOff(kids[i], next.pane, next.slot.dir)]
           todo == work \o rest
<1>1. /\ v2.at = "slots" /\ v2.todo \in Seq(Works) /\ v2.todo # <<>> /\ next.do = "apply" /\ next \in Works
      /\ rest \in Seq(Works) /\ next.pane \in 1 .. Len(v1.panes)
      /\ \A i \in 1 .. Len(rest) : rest[i].do = "split" /\ rest[i].pane \in 1 .. Len(v1.panes)
  BY LayoutDoes DEF Split!ApplySlot
<1>2. next.slot \in Slots3 /\ next.pane \in Nat /\ kids # <<>>
  BY <1>1 DEF Works, Split!Next1
<1>3. kids \in Seq(Slots2) /\ next.slot.dir \in {"h", "v"}
  BY <1>2 DEF Slots3, SlotsOver
<1>4. Len(kids) \in Nat /\ Len(kids) > 0 /\ \A i \in 1 .. Len(kids) : kids[i] \in Slots3
  <2>1. Len(kids) \in Nat /\ Len(kids) > 0 /\ \A i \in 1 .. Len(kids) : kids[i] \in Slots2
    BY <1>2, <1>3, ElementOfSeq, EmptySeq
  <2> QED
    BY <2>1, SlotsGrow
<1>5. v1' = v1 /\ v2' = [v2 EXCEPT !.todo = todo]
  BY <1>2 DEF Split!ApplySlot, Split!Next1
<1> HIDE DEF kids
<1>6. /\ work \in Seq(Works) /\ Len(work) = Len(kids)
      /\ \A i \in 1 .. Len(kids) : work[i].slot = kids[i] /\ work[i].pane = next.pane
                                   /\ (i # 1 => work[i].do = "split")
      /\ work[1].do = "apply"
  <2>1. \A k \in Slots3, dir \in {"h", "v"}, p \in Nat :
          Split!Apply(k, p) \in Works /\ Split!SplitOff(k, p, dir) \in Works
    BY DEF Split!Apply, Split!SplitOff, Works
  <2>2. \A i \in 1 .. Len(kids) : work[i] \in Works
    BY <1>2, <1>3, <1>4, <2>1
  <2>3. DOMAIN work = 1 .. Len(kids)
    OBVIOUS
  <2>4. work \in Seq(Works) /\ Len(work) = Len(kids)
    <3> HIDE DEF next
    <3>1. work \in [1 .. Len(kids) -> Works]
      BY <2>2
    <3> HIDE DEF work
    <3> QED
      BY <1>4, <3>1
  <2> QED
    BY <1>4, <2>4 DEF Split!Apply, Split!SplitOff
<1>7. Split!FlattenSeq(LeavesOf(work)) = Split!Leaves(next.slot)
  <2>1. LeavesOf(work) = [i \in 1 .. Len(kids) |-> Split!Leaves(kids[i])]
    <3> HIDE DEF work
    <3> QED
      BY <1>6 DEF LeavesOf
  <2>2. Split!Leaves(next.slot) = Split!FlattenSeq([i \in 1 .. Len(kids) |-> Split!Leaves(kids[i])])
    BY <1>2, LeavesOfKids DEF kids
  <2> HIDE DEF work
  <2> QED
    BY <2>1, <2>2
<1> HIDE DEF work, rest, next
<1>8. todo \in Seq(Works) /\ Split!FlattenSeq(LeavesOf(todo)) = Split!FlattenSeq(LeavesOf(v2.todo))
  <2>1. /\ todo \in Seq(Works)
        /\ Split!FlattenSeq(LeavesOf(todo)) =
             Split!FlattenSeq(LeavesOf(work)) \o Split!FlattenSeq(LeavesOf(rest))
    BY <1>1, <1>6, LeavesJoin
  <2>2. Split!FlattenSeq(LeavesOf(v2.todo)) = Split!Leaves(next.slot) \o Split!FlattenSeq(LeavesOf(rest))
    BY <1>1, LeavesHead DEF next, rest
  <2> QED
    BY <1>7, <2>1, <2>2
<1>9. /\ Len(todo) = Len(work) + Len(rest) /\ Len(rest) \in Nat
      /\ \A i \in 1 .. Len(work) + Len(rest) : todo[i] = IF i <= Len(work) THEN work[i] ELSE rest[i - Len(work)]
  <2>1. work \in Seq(Works) /\ rest \in Seq(Works)
    BY <1>1, <1>6
  <2> QED
    BY ONLY <2>1, ConcatProperties, LenProperties
<1> HIDE DEF todo
<1>10. todo # <<>> /\ Head(todo) = work[1]
  <2>1. Len(todo) > 0 /\ todo[1] = work[1]
    BY <1>4, <1>6, <1>9
  <2>2. todo # <<>>
    BY <2>1, EmptySeq
  <2> QED
    BY <1>8, <2>1, <2>2, HeadTail
<1>11. v2'.at = "slots" /\ v2'.todo = todo /\ v2'.got = v2.got /\ v2'.tree = v2.tree /\ LayoutTypes'
  BY <1>1, <1>5, <1>8 DEF LayoutInv, LayoutTypes
<1>12. LeavesKept'
  BY <1>1, <1>8, <1>11 DEF LayoutInv, LeavesKept
<1>13. Applying /\ Applying' /\ Head(v2'.todo).pane = Head(v2.todo).pane
  <2>1. work[1].pane = next.pane
    BY <1>4, <1>6
  <2> QED
    BY <1>1, <1>6, <1>10, <1>11, <2>1 DEF Applying, next
<1>14. PanesTaken'
  <2>1. Taken(v2.got) \cup {Head(v2.todo).pane} = 1 .. Len(v1.panes) /\ Len(v2.got) + 1 = Len(v1.panes)
    BY <1>1, <1>13 DEF LayoutInv, PanesTaken
  <2> QED
    BY <1>5, <1>11, <1>13, <2>1 DEF PanesTaken
<1>15. \A i \in 1 .. Len(todo) : todo[i].pane \in 1 .. Len(v1.panes) /\ (i # 1 => todo[i].do = "split")
  <2> SUFFICES ASSUME NEW i \in 1 .. Len(todo)
               PROVE  todo[i].pane \in 1 .. Len(v1.panes) /\ (i # 1 => todo[i].do = "split")
    OBVIOUS
  <2>1. CASE i <= Len(work)
    <3>1. i \in 1 .. Len(kids) /\ todo[i] = work[i]
      BY <1>4, <1>6, <1>9, <2>1
    <3> QED
      BY <1>1, <1>6, <3>1
  <2>2. CASE ~ (i <= Len(work))
    <3>1. i - Len(work) \in 1 .. Len(rest) /\ todo[i] = rest[i - Len(work)]
      BY <1>4, <1>6, <1>9, <2>2
    <3> QED
      BY <1>1, <3>1
  <2> QED
    BY <2>1, <2>2
<1>16. SplitsLeft'
  BY <1>5, <1>11, <1>15 DEF SplitsLeft
<1> QED
  BY <1>11, <1>12, <1>14, <1>16 DEF LayoutInv

\* A pane is split and the new one taken at once, or the command ends.
LEMMA LayoutSplits ==
  ASSUME LayoutInv, Split!SplitWindow
  PROVE  LayoutInv'
<1> DEFINE next == Head(v2.todo)
           rest == Tail(v2.todo)
           n == Len(v1.panes)
<1>1. /\ v2.at = "slots" /\ v2.todo \in Seq(Works) /\ v2.todo # <<>> /\ next.do = "split" /\ next \in Works
      /\ rest \in Seq(Works) /\ next.pane \in 1 .. n
      /\ \A i \in 1 .. Len(rest) : rest[i].do = "split" /\ rest[i].pane \in 1 .. n
  BY LayoutDoes DEF Split!SplitWindow
<1>2. v1.panes \in Seq(Rects) /\ n \in Nat
  BY LenProperties DEF LayoutInv, LayoutTypes
<1>3. PICK old \in Rects : old = v1.panes[next.pane]
  BY <1>1, <1>2, ElementOfSeq
<1>4. PICK size \in Nat : size = next.slot.size
  BY <1>1 DEF Works, Slots3, SlotsOver
<1>5. \A a \in Int : (a * size) \div 100 \in Int
  <2>1. \A a \in Int : a * size \in Int
    OBVIOUS
  <2>2. \A a \in Int : a \div 100 \in Int
    OBVIOUS
  <2> QED
    BY <2>1, <2>2
<1>6. CASE v2' = [v2 EXCEPT !.at = "failed", !.todo = <<>>] /\ v1' = v1
  <2>1. <<>> \in Seq(Works)
    BY EmptySeq
  <2>2. v2'.at = "failed" /\ v2'.todo = <<>> /\ LayoutTypes'
    BY <1>6, <2>1 DEF LayoutInv, LayoutTypes
  <2> QED
    BY <2>2 DEF LayoutInv, LeavesKept, PanesTaken, SplitsLeft
<1>7. CASE \E kept, new \in Rects :
             /\ v1' = [v1 EXCEPT !.panes = Append([v1.panes EXCEPT ![next.pane] = kept], new)]
             /\ v2' = [v2 EXCEPT !.todo = <<Split!Apply(next.slot, n + 1)>> \o rest]
  <2>1. PICK kept \in Rects, new \in Rects :
          /\ v1' = [v1 EXCEPT !.panes = Append([v1.panes EXCEPT ![next.pane] = kept], new)]
          /\ v2' = [v2 EXCEPT !.todo = <<Split!Apply(next.slot, n + 1)>> \o rest]
    BY <1>7
  <2>2. PICK cut \in Seq(Rects) : cut = [v1.panes EXCEPT ![next.pane] = kept] /\ Len(cut) = n
    <3> DEFINE c == [v1.panes EXCEPT ![next.pane] = kept]
    <3>1. next.pane \in 1 .. Len(v1.panes) /\ v1.panes \in Seq(Rects)
      BY <1>1, <1>2
    <3>2. c \in Seq(Rects) /\ Len(c) = Len(v1.panes)
      BY ONLY <3>1, kept \in Rects, ExceptSeq
    <3> HIDE DEF c
    <3>3. \E x \in Seq(Rects) : x = c /\ Len(x) = n
      BY <3>2
    <3> QED
      BY <3>3 DEF c
  <2>3. PICK panes \in Seq(Rects) : panes = Append(cut, new) /\ Len(panes) = n + 1
    <3>1. Append(cut, new) \in Seq(Rects) /\ Len(Append(cut, new)) = Len(cut) + 1
      BY ONLY cut \in Seq(Rects), new \in Rects, AppendProperties
    <3>2. \E x \in Seq(Rects) : x = Append(cut, new) /\ Len(x) = n + 1
      BY <2>2, <3>1
    <3> QED
      BY <3>2
  <2>4. PICK first \in Works : first = Split!Apply(next.slot, n + 1)
    <3>1. Split!Apply(next.slot, n + 1) \in Works
      BY <1>1, <1>2 DEF Split!Apply, Works
    <3> QED
      BY <3>1
  <2>5. first.do = "apply" /\ first.slot = next.slot /\ first.pane = n + 1
    BY <2>4 DEF Split!Apply
  <2> DEFINE todo == <<first>> \o rest
  <2>6. /\ todo \in Seq(Works) /\ todo # <<>> /\ Head(todo) = first /\ Tail(todo) = rest
        /\ \A i \in 1 .. Len(todo) : i # 1 => i - 1 \in 1 .. Len(rest) /\ todo[i] = rest[i - 1]
        /\ todo[1] = first
    <3>1. rest \in Seq(Works)
      BY <1>1
    <3> HIDE DEF rest
    <3> QED
      BY ONLY <3>1, first \in Works, PutFirst
  <2>7. v1' = [v1 EXCEPT !.panes = panes] /\ v2' = [v2 EXCEPT !.todo = todo]
    BY <2>1, <2>2, <2>3, <2>4
  <2>8. Split!FlattenSeq(LeavesOf(todo)) = Split!FlattenSeq(LeavesOf(v2.todo))
    <3>1. Split!FlattenSeq(LeavesOf(v2.todo)) = Split!Leaves(next.slot) \o Split!FlattenSeq(LeavesOf(rest))
      BY <1>1, LeavesHead
    <3> HIDE DEF todo
    <3>2. Split!FlattenSeq(LeavesOf(todo)) = Split!Leaves(first.slot) \o Split!FlattenSeq(LeavesOf(rest))
      BY <2>6, LeavesHead
    <3> QED
      BY <2>5, <3>1, <3>2
  <2> HIDE DEF todo, rest, next, n
  <2>9. /\ v1'.panes = panes /\ v2'.at = "slots" /\ v2'.todo = todo /\ v2'.got = v2.got /\ v2'.tree = v2.tree
        /\ LayoutTypes'
    BY <1>1, <2>6, <2>7 DEF LayoutInv, LayoutTypes
  <2>10. LeavesKept'
    BY <1>1, <2>8, <2>9 DEF LayoutInv, LeavesKept
  <2>11. ~ Applying /\ Applying' /\ Head(v2'.todo).pane = n + 1
    BY <1>1, <2>5, <2>6, <2>9 DEF Applying, next
  <2>12. PanesTaken'
    <3>1. Taken(v2.got) = 1 .. n /\ Len(v2.got) = n
      BY <1>1, <2>11 DEF LayoutInv, PanesTaken, n
    <3>2. (1 .. n) \cup {n + 1} = 1 .. n + 1
      BY <1>2
    <3> QED
      BY <2>3, <2>9, <2>11, <3>1, <3>2 DEF PanesTaken
  <2>13. \A i \in 1 .. Len(todo) : todo[i].pane \in 1 .. n + 1 /\ (i # 1 => todo[i].do = "split")
    <3> SUFFICES ASSUME NEW i \in 1 .. Len(todo)
                 PROVE  todo[i].pane \in 1 .. n + 1 /\ (i # 1 => todo[i].do = "split")
      OBVIOUS
    <3>1. CASE i = 1
      BY <1>2, <2>5, <2>6, <3>1
    <3>2. CASE i # 1
      <4>1. todo[i].do = "split" /\ todo[i].pane \in 1 .. n
        BY <1>1, <2>6, <3>2
      <4> QED
        BY <1>2, <4>1
    <3> QED
      BY <3>1, <3>2
  <2>14. SplitsLeft'
    BY <2>3, <2>9, <2>13 DEF SplitsLeft
  <2> QED
    BY <2>9, <2>10, <2>12, <2>14 DEF LayoutInv
<1> DEFINE side == IF next.dir = "h" THEN (old.w * size) \div 100 ELSE (old.h * size) \div 100
           kept == IF next.dir = "h" THEN [old EXCEPT !.w = @ - side] ELSE [old EXCEPT !.h = @ - side]
           new == IF next.dir = "h" THEN [old EXCEPT !.x = @ + kept.w, !.w = side]
                  ELSE [old EXCEPT !.y = @ + kept.h, !.h = side]
<1>8. kept \in Rects /\ new \in Rects
  <2>1. side \in Int
    BY <1>5 DEF Rects
  <2> HIDE DEF side
  <2>2. kept \in Rects
    BY <2>1 DEF Rects
  <2> HIDE DEF kept
  <2>3. /\ kept.w \in Int /\ kept.h \in Int /\ old.x \in Int /\ old.y \in Int
        /\ old = [x |-> old.x, y |-> old.y, w |-> old.w, h |-> old.h] /\ old.w \in Int /\ old.h \in Int
    BY <2>2 DEF Rects
  <2>4. old.x + kept.w \in Int /\ old.y + kept.h \in Int
    BY <2>3
  <2>5. \A a, b \in Int : [old EXCEPT !.x = a, !.w = b] \in Rects /\ [old EXCEPT !.y = a, !.h = b] \in Rects
    BY DEF Rects
  <2>6. new \in Rects
    BY <2>1, <2>4, <2>5
  <2> QED
    BY <2>2, <2>6
<1>9. \/ /\ v1' = [v1 EXCEPT !.panes = Append([v1.panes EXCEPT ![next.pane] = kept], new)]
         /\ v2' = [v2 EXCEPT !.todo = <<Split!Apply(next.slot, n + 1)>> \o rest]
      \/ v2' = [v2 EXCEPT !.at = "failed", !.todo = <<>>] /\ v1' = v1
  BY <1>3, <1>4, Zenon DEF Split!SplitWindow, Split!Next1
<1> HIDE DEF kept, new, side
<1> QED
  BY <1>6, <1>7, <1>8, <1>9, SMTT(30)

\* Whatever the step, the invariant of layout stays.
LEMMA LayoutKeepsInv ==
  ASSUME LayoutInv, [Split!Next]_<<v1, v2>>
  PROVE  LayoutInv'
<1>1. CASE UNCHANGED <<v1, v2>>
  BY <1>1 DEF LayoutInv, LayoutTypes, LeavesKept, PanesTaken, SplitsLeft, Applying
<1>2. CASE Split!Finish
  <2>1. v2.at = "slots" /\ v2.todo = <<>> /\ v1' = v1 /\ v2' = [v2 EXCEPT !.at = "done"]
    BY <1>2 DEF Split!Finish
  <2>2. /\ v2'.at = "done" /\ v2'.todo = <<>> /\ v2'.got = v2.got /\ v2'.tree = v2.tree /\ LayoutTypes'
    BY <2>1 DEF LayoutInv, LayoutTypes
  <2>3. LeavesKept' /\ SplitsLeft'
    BY <2>1, <2>2 DEF LayoutInv, LeavesKept, SplitsLeft
  <2>4. ~ Applying /\ ~ Applying'
    BY <2>1, <2>2 DEF Applying
  <2>5. PanesTaken'
    BY <2>1, <2>2, <2>4 DEF LayoutInv, PanesTaken
  <2> QED
    BY <2>2, <2>3, <2>5 DEF LayoutInv
<1> QED
  BY <1>1, <1>2, LayoutLoads, LayoutTargets, LayoutLeaf, LayoutBox, LayoutSplits DEF Split!Next

\* When nothing is left to do, the leaves have the panes.
LEMMA LayoutDone == LayoutInv => Split!LeavesGetPanes
<1> SUFFICES ASSUME LayoutInv, v2.at = "done"
             PROVE  /\ RolesOf(v2.got) = Split!Leaves(v2.tree)
                    /\ Taken(v2.got) = 1 .. Len(v1.panes)
                    /\ Len(v2.got) = Len(v1.panes)
  BY DEF Split!LeavesGetPanes, RolesOf, Taken
<1>1. v2.todo = <<>> /\ v2.got \in Seq(Roles \X Nat)
  BY DEF LayoutInv, LayoutTypes
<1>2. ~ Applying
  BY <1>1 DEF Applying
<1>3. LeavesOf(<<>>) = <<>>
  BY DEF LeavesOf
<1>4. RolesOf(v2.got) \in Seq(Roles)
  <2>1. PICK got \in Seq(Roles \X Nat) : got = v2.got
    BY <1>1
  <2>2. Len(got) \in Nat /\ \A i \in 1 .. Len(got) : got[i] \in Roles \X Nat
    BY ElementOfSeq, LenProperties
  <2>3. \A i \in 1 .. Len(got) : got[i][1] \in Roles
    BY <2>2
  <2> QED
    BY <2>1, <2>2, <2>3 DEF RolesOf
<1>5. RolesOf(v2.got) \o <<>> = Split!Leaves(v2.tree)
  BY <1>1, <1>3, FlatEmpty DEF LayoutInv, LeavesKept
<1>6. RolesOf(v2.got) \o <<>> = RolesOf(v2.got)
  BY <1>4, ConcatEmptySeq
<1> QED
  BY <1>2, <1>5, <1>6 DEF LayoutInv, PanesTaken

-----------------------------------------------------------------------------
(* TuiApp and TuiTree.  The App is v1; v2 to v6 are what it is told and what  *)
(* its keys have asked.  First what a tree is: its lines of agents, the       *)
(* groups above them, and so its nodes and its rows.                          *)

\* A function that starts with a value and goes on from each.
Recurs(f, start, g) == f[0] = start /\ \A n \in Nat : f[n + 1] = g[f[n]]

\* There is one.
LEMMA NatRec ==
  ASSUME NEW S, NEW start \in S, NEW g \in [S -> S]
  PROVE  \E f \in [Nat -> S] : Recurs(f, start, g)
<1> DEFINE Upto(f, n) == f[0] = start /\ \A i \in 0 .. n - 1 : f[i + 1] = g[f[i]]
           Reached(n) == \E f \in [0 .. n -> S] : Upto(f, n)
           N == {n \in Nat : Reached(n)}
<1>1. Reached(0)
  <2>1. [i \in 0 .. 0 |-> start] \in [0 .. 0 -> S] /\ Upto([i \in 0 .. 0 |-> start], 0)
    OBVIOUS
  <2> QED
    BY <2>1
<1>2. ASSUME NEW n \in Nat, Reached(n)  PROVE Reached(n + 1)
  <2>1. PICK f \in [0 .. n -> S] : Upto(f, n)
    BY <1>2
  <2>2. PICK h : h = [i \in 0 .. n + 1 |-> IF i = n + 1 THEN g[f[n]] ELSE f[i]]
    OBVIOUS
  <2>3. f[n] \in S /\ g[f[n]] \in S
    OBVIOUS
  <2>4. h \in [0 .. n + 1 -> S] /\ h[n + 1] = g[f[n]] /\ \A i \in 0 .. n : h[i] = f[i]
    BY <2>2, <2>3
  <2>5. ASSUME NEW i \in 0 .. (n + 1) - 1  PROVE h[i + 1] = g[h[i]]
    <3>1. CASE i = n
      BY <2>4, <3>1
    <3>2. CASE i # n
      <4>1. i \in 0 .. n - 1 /\ i \in 0 .. n /\ i + 1 \in 0 .. n
        BY <3>2
      <4> QED
        BY <2>1, <2>4, <4>1
    <3> QED
      BY <3>1, <3>2
  <2>6. Upto(h, n + 1)
    BY <2>1, <2>4, <2>5
  <2> QED
    BY <2>4, <2>6
<1> HIDE DEF Reached
<1>3. \A n \in Nat : Reached(n)
  <2> HIDE DEF N
  <2>1. 0 \in N /\ \A n \in Nat : n \in N => n + 1 \in N
    BY <1>1, <1>2 DEF N
  <2>2. Nat \subseteq N
    BY <2>1, SetInduction
  <2> QED
    BY <2>2 DEF N
<1>4. PICK h : h = [n \in Nat |-> CHOOSE f \in [0 .. n -> S] : Upto(f, n)]
  OBVIOUS
<1>5. \A n \in Nat : h[n] \in [0 .. n -> S] /\ Upto(h[n], n)
  <2> SUFFICES ASSUME NEW n \in Nat  PROVE h[n] \in [0 .. n -> S] /\ Upto(h[n], n)
    OBVIOUS
  <2>1. \E f \in [0 .. n -> S] : Upto(f, n)
    BY <1>3 DEF Reached
  <2> HIDE DEF Upto
  <2>2. h[n] = CHOOSE f \in [0 .. n -> S] : Upto(f, n)
    BY <1>4
  <2> QED
    BY <2>1, <2>2
<1>6. \A n \in Nat : h[n + 1][n] = h[n][n]
  <2> SUFFICES ASSUME NEW n \in Nat  PROVE h[n + 1][n] = h[n][n]
    OBVIOUS
  <2>1. PICK a \in [0 .. n -> S] : a = h[n] /\ Upto(a, n)
    BY <1>5
  <2>2. n + 1 \in Nat
    OBVIOUS
  <2>3. PICK b \in [0 .. n + 1 -> S] : b = h[n + 1] /\ Upto(b, n + 1)
    BY <1>5, <2>2
  <2> DEFINE A == {i \in Nat : i <= n => a[i] = b[i]}
  <2>4. 0 \in A
    BY <2>1, <2>3
  <2>5. ASSUME NEW i \in Nat, i \in A  PROVE i + 1 \in A
    <3> SUFFICES ASSUME i + 1 <= n  PROVE a[i + 1] = b[i + 1]
      OBVIOUS
    <3>1. i \in 0 .. n - 1 /\ i \in 0 .. (n + 1) - 1 /\ a[i] = b[i]
      BY <2>5
    <3> QED
      BY <2>1, <2>3, <3>1
  <2> HIDE DEF A
  <2>6. Nat \subseteq A
    BY <2>4, <2>5, SetInduction
  <2>7. a[n] = b[n]
    BY <2>6 DEF A
  <2> QED
    BY <2>1, <2>3, <2>7
<1>7. PICK f : f = [n \in Nat |-> h[n][n]]
  OBVIOUS
<1>8. f \in [Nat -> S]
  <2>1. \A n \in Nat : h[n][n] \in S
    BY <1>5
  <2> QED
    BY <1>7, <2>1
<1>9. f[0] = start
  <2>1. h[0][0] = start
    BY <1>5
  <2> QED
    BY <1>7, <2>1
<1>10. ASSUME NEW n \in Nat  PROVE f[n + 1] = g[f[n]]
  <2>1. n + 1 \in Nat /\ n \in 0 .. (n + 1) - 1
    OBVIOUS
  <2>2. Upto(h[n + 1], n + 1)
    BY <1>5, <2>1
  <2>3. h[n + 1][n + 1] = g[h[n + 1][n]]
    BY <2>1, <2>2
  <2>4. f[n + 1] = h[n + 1][n + 1] /\ f[n] = h[n][n]
    BY <1>7, <2>1
  <2> QED
    BY <1>6, <2>3, <2>4
<1> QED
  BY <1>8, <1>9, <1>10 DEF Recurs

\* An update's view of the world: listed sessions only, each after its parent.
ViewsSound(w) == DOMAIN w \subseteq TuiSessions /\ \A s \in DOMAIN w : w[s] \in Views(s)

\* There are finitely many of them, and no agent is older than its parent.
LEMMA ParentsFirst ==
  ASSUME NEW w, ViewsSound(w)
  PROVE  /\ IsFiniteSet(DOMAIN w) /\ DOMAIN w \subseteq Nat \ {0}
         /\ \A s \in DOMAIN w : w[s].parent \in Nat /\ w[s].parent < s
<1>1. IsFiniteSet(DOMAIN w)
  BY PartsAssumption, FS_Subset DEF ViewsSound
<1> QED
  BY <1>1, PartsAssumption DEF ViewsSound

\* A filter selects among the listed sessions, and every match.
LEMMA SelectedListed ==
  ASSUME NEW w, NEW q, ViewsSound(w)
  PROVE  Tui!Selected(w, q) \subseteq DOMAIN w /\ Tui!Matched(w, q) \subseteq Tui!Selected(w, q)
<1> DEFINE S == {u \in SUBSET DOMAIN w : Tui!Matched(w, q) \subseteq u}
           More(u) == u \cup {w[s].parent : s \in u \cap Tui!Nested(w)}
           M == Tui!Matched(w, q)
           Rec(f) == f = [n \in Nat |-> IF n = 0 THEN M ELSE f[n - 1] \cup {w[s].parent : s \in f[n - 1] \cap Tui!Nested(w)}]
<1>1. M \in S /\ \A u \in S : More(u) \in S
  BY DEF Tui!Matched, Tui!Nested, Tui!Present
<1>2. PICK g : g = [u \in S |-> More(u)]
  OBVIOUS
<1>3. g \in [S -> S] /\ \A u \in S : g[u] = More(u)
  BY <1>1, <1>2
<1> HIDE DEF More
<1>4. PICK f \in [Nat -> S] : Recurs(f, M, g)
  <2> HIDE DEF S, M
  <2> QED
    BY <1>1, <1>3, NatRec
<1>5. Rec(f)
  <2>1. \A n \in Nat : f[n] = IF n = 0 THEN M ELSE f[n - 1] \cup {w[s].parent : s \in f[n - 1] \cap Tui!Nested(w)}
    <3> SUFFICES ASSUME NEW n \in Nat, n # 0  PROVE f[n] = More(f[n - 1])
      BY <1>4 DEF Recurs, More
    <3>1. n - 1 \in Nat /\ (n - 1) + 1 = n
      OBVIOUS
    <3> QED
      BY <1>3, <1>4, <3>1 DEF Recurs
  <2> QED
    BY <2>1
<1>6. PICK up : up = CHOOSE u : Rec(u)
  OBVIOUS
<1>7. Rec(up)
  BY <1>5, <1>6
<1> DEFINE A == {n \in Nat : up[n] \in S}
<1>8. 0 \in A
  BY <1>1, <1>7
<1>9. ASSUME NEW n \in Nat, n \in A  PROVE n + 1 \in A
  <2>1. up[n + 1] = More(up[n])
    BY <1>7 DEF More
  <2> QED
    BY <1>1, <1>9, <2>1
<1> HIDE DEF A
<1>10. Nat \subseteq A
  BY <1>8, <1>9, SetInduction
<1>11. PICK c : c = Cardinality(DOMAIN w)
  OBVIOUS
<1>12. c \in Nat
  BY <1>11, ParentsFirst, FS_CardinalityType
<1>13. Tui!Selected(w, q) = up[c]
  BY <1>6, <1>11 DEF Tui!Selected, Tui!Cardinality, Cardinality
<1> QED
  BY <1>10, <1>12, <1>13 DEF A

\* The first elements of a sequence are a sequence.
LEMMA Prefix ==
  ASSUME NEW S, NEW s \in Seq(S), NEW n \in Nat, n <= Len(s)
  PROVE  /\ SubSeq(s, 1, n) \in Seq(S) /\ Len(SubSeq(s, 1, n)) = n
         /\ \A i \in 1 .. n : SubSeq(s, 1, n)[i] = s[i]
<1>1. PICK m \in Nat : m = Len(s)
  BY LenProperties
<1>2. \A i \in 1 .. n : s[i] \in S
  BY <1>1, ElementOfSeq
<1>3. /\ SubSeq(s, 1, n) \in Seq(S)
      /\ Len(SubSeq(s, 1, n)) = IF 1 <= n THEN n - 1 + 1 ELSE 0
      /\ \A i \in 1 .. n - 1 + 1 : SubSeq(s, 1, n)[i] = s[1 + i - 1]
  BY <1>2, SubSeqProperties
<1>4. ASSUME NEW i \in 1 .. n  PROVE SubSeq(s, 1, n)[i] = s[i]
  <2>1. i \in 1 .. n - 1 + 1 /\ 1 + i - 1 = i
    OBVIOUS
  <2> QED
    BY <1>3, <2>1
<1> QED
  BY <1>3, <1>4

\* The agents from a top-level one to its descendants.
Line(w, l) ==
  /\ l \in Seq(DOMAIN w) /\ Len(l) > 0 /\ l[1] \in Tui!TopLevel(w)
  /\ \A i \in 2 .. Len(l) : w[l[i]].parent = l[i - 1]

\* Lines are those of no more agents than there are.
LEMMA LinesAre ==
  ASSUME NEW w, ViewsSound(w), NEW c \in Nat, c = Cardinality(DOMAIN w), NEW l
  PROVE  l \in Tui!Lines(w) <=> Line(w, l) /\ Len(l) <= c
<1> DEFINE D == DOMAIN w
           T == Tui!TopLevel(w)
           S == SUBSET Seq(D)
           More(L) == {Append(k, s) : k \in L, s \in D}
           Start == {<<s>> : s \in T}
           Rec(f) == f = [n \in Nat |-> IF n = 0 THEN Start ELSE More(f[n - 1])]
           Long(n) == {k \in Seq(D) : Len(k) = n + 1 /\ k[1] \in T}
<1>1. T \subseteq D
  BY DEF Tui!TopLevel
<1>2. \A L, x : x \in More(L) <=> \E k \in L, s \in D : x = Append(k, s)
  OBVIOUS
<1>3. \A x : x \in Start <=> \E s \in T : x = <<s>>
  OBVIOUS
<1>4. ASSUME NEW s \in T  PROVE <<s>> \in Seq(D) /\ Len(<<s>>) = 1 /\ <<s>>[1] = s
  BY <1>1
<1>5. PICK line : line = CHOOSE u : Rec(u)
  OBVIOUS
<1>6. Tui!Lines(w) = {k \in UNION {line[n] : n \in 0 .. c - 1} : \A i \in 2 .. Len(k) : w[k[i]].parent = k[i - 1]}
  BY <1>5 DEF Tui!Lines, Tui!Cardinality, Cardinality
<1> HIDE DEF More, Start
<1>7. Start \in S /\ \A L \in S : More(L) \in S
  <2>1. \A x \in Start : x \in Seq(D)
    BY <1>3, <1>4
  <2>2. ASSUME NEW L \in S, NEW x \in More(L)  PROVE x \in Seq(D)
    <3>1. PICK k \in L, s \in D : x = Append(k, s)
      BY <1>2
    <3>2. k \in Seq(D)
      OBVIOUS
    <3> QED
      BY <3>1, <3>2, AppendProperties
  <2> QED
    BY <2>1, <2>2
<1>8. PICK g : g = [L \in S |-> More(L)]
  OBVIOUS
<1>9. g \in [S -> S] /\ \A L \in S : g[L] = More(L)
  BY <1>7, <1>8
<1>10. PICK f \in [Nat -> S] : Recurs(f, Start, g)
  <2> HIDE DEF S, Start
  <2> QED
    BY <1>7, <1>9, NatRec
<1>11. Rec(f)
  <2>1. ASSUME NEW n \in Nat  PROVE f[n] = IF n = 0 THEN Start ELSE More(f[n - 1])
    <3>1. CASE n = 0
      BY <1>10, <3>1 DEF Recurs
    <3>2. CASE n # 0
      <4>1. n - 1 \in Nat /\ (n - 1) + 1 = n
        BY <3>2
      <4>2. f[n - 1] \in S
        BY <4>1
      <4>3. f[n] = g[f[n - 1]]
        BY <1>10, <4>1 DEF Recurs
      <4> HIDE DEF S, More
      <4> QED
        BY <1>9, <3>2, <4>2, <4>3
    <3> QED
      BY <3>1, <3>2
  <2>2. f = [n \in Nat |-> f[n]]
    OBVIOUS
  <2> QED
    BY <2>1, <2>2
<1>12. Rec(line)
  BY <1>11, <1>5
<1>13. line[0] = Start /\ \A n \in Nat : line[n + 1] = More(line[n])
  <2>1. line[0] = Start
    BY <1>12
  <2>2. ASSUME NEW n \in Nat  PROVE line[n + 1] = More(line[n])
    <3>1. n + 1 \in Nat /\ n + 1 # 0 /\ (n + 1) - 1 = n
      OBVIOUS
    <3> QED
      BY <1>12, <3>1
  <2> QED
    BY <2>1, <2>2
<1> DEFINE A == {n \in Nat : line[n] = Long(n)}
<1>14. 0 \in A
  <2>1. ASSUME NEW k \in Start  PROVE k \in Long(0)
    <3>1. PICK s \in T : k = <<s>>
      BY <1>3
    <3> QED
      BY <1>4, <3>1
  <2>2. ASSUME NEW k \in Long(0)  PROVE k \in Start
    <3>1. k \in Seq(D) /\ Len(k) = 1 /\ k[1] \in T
      OBVIOUS
    <3>2. PICK s \in T : s = k[1]
      BY <3>1
    <3>3. k = <<s>>
      BY <1>4, <3>1, <3>2, SeqEqual
    <3> QED
      BY <1>3, <3>3
  <2>3. Start = Long(0)
    BY <2>1, <2>2
  <2> QED
    BY <1>13, <2>3
<1>15. ASSUME NEW n \in Nat, n \in A  PROVE n + 1 \in A
  <2>1. line[n + 1] = More(Long(n))
    BY <1>13, <1>15
  <2>2. ASSUME NEW k \in Long(n), NEW s \in D  PROVE Append(k, s) \in Long(n + 1)
    <3>1. k \in Seq(D) /\ Len(k) = n + 1 /\ k[1] \in T
      OBVIOUS
    <3>2. Append(k, s) \in Seq(D) /\ Len(Append(k, s)) = (n + 1) + 1 /\ Append(k, s)[1] = k[1]
      BY <3>1, AppendProperties
    <3> QED
      BY <3>1, <3>2
  <2>3. ASSUME NEW k \in Long(n + 1)  PROVE k \in More(Long(n))
    <3>1. k \in Seq(D) /\ Len(k) = n + 2 /\ k[1] \in T
      OBVIOUS
    <3>2. PICK p : p = SubSeq(k, 1, n + 1)
      OBVIOUS
    <3>3. n + 1 \in Nat /\ n + 1 <= Len(k)
      BY <3>1
    <3>4. p \in Seq(D) /\ Len(p) = n + 1 /\ \A i \in 1 .. n + 1 : p[i] = k[i]
      BY <3>1, <3>2, <3>3, Prefix
    <3>5. PICK s \in D : s = k[n + 2]
      BY <3>1, ElementOfSeq
    <3>6. PICK r : r = Append(p, s)
      OBVIOUS
    <3>7. r \in Seq(D) /\ Len(r) = n + 2 /\ (\A i \in 1 .. n + 1 : r[i] = p[i]) /\ r[n + 2] = s
      <4>1. (n + 1) + 1 = n + 2
        OBVIOUS
      <4> QED
        BY <3>4, <3>6, <4>1, AppendProperties
    <3>8. \A i \in 1 .. Len(r) : r[i] = k[i]
      BY <3>4, <3>5, <3>7
    <3>9. r = k
      BY <3>1, <3>7, <3>8, SeqEqual
    <3>10. p \in Long(n)
      BY <3>1, <3>4
    <3> HIDE DEF Long
    <3> QED
      BY <1>2, <3>6, <3>9, <3>10
  <2> HIDE DEF Long
  <2>4. ASSUME NEW x \in More(Long(n))  PROVE x \in Long(n + 1)
    <3>1. PICK k \in Long(n), s \in D : x = Append(k, s)
      BY <1>2
    <3> QED
      BY <2>2, <3>1
  <2>5. More(Long(n)) = Long(n + 1)
    BY <2>3, <2>4
  <2> QED
    BY <2>1, <2>5
<1>16. \A n \in Nat : line[n] = Long(n)
  <2> HIDE DEF A
  <2>1. Nat \subseteq A
    BY <1>14, <1>15, SetInduction
  <2> QED
    BY <2>1 DEF A
<1>17. ASSUME l \in Tui!Lines(w)  PROVE Line(w, l) /\ Len(l) <= c
  <2>1. PICK n \in 0 .. c - 1 : l \in line[n]
    BY <1>6, <1>17
  <2>2. l \in Long(n)
    BY <1>16, <2>1
  <2> QED
    BY <1>6, <1>17, <2>2 DEF Line
<1>18. ASSUME Line(w, l), Len(l) <= c  PROVE l \in Tui!Lines(w)
  <2>1. PICK n \in 0 .. c - 1 : Len(l) = n + 1
    <3>1. Len(l) \in Nat /\ Len(l) > 0
      BY <1>18, LenProperties DEF Line
    <3>2. Len(l) - 1 \in 0 .. c - 1
      BY <1>18, <3>1
    <3> QED
      BY <3>1, <3>2
  <2>2. l \in line[n]
    BY <1>16, <1>18, <2>1 DEF Line
  <2> QED
    BY <1>6, <1>18, <2>1, <2>2 DEF Line
<1> QED
  BY <1>17, <1>18

\* A line's agents start one after the other, and its beginnings are lines.
LEMMA LineRises ==
  ASSUME NEW w, ViewsSound(w), NEW l, Line(w, l)
  PROVE  /\ \A i \in 1 .. Len(l) : l[i] \in DOMAIN w /\ l[i] \in Nat \ {0}
         /\ \A i, j \in 1 .. Len(l) : i < j => l[i] < l[j]
<1>1. PICK n \in Nat : n = Len(l)
  BY LenProperties DEF Line
<1>2. \A i \in 1 .. n : l[i] \in DOMAIN w /\ l[i] \in Nat \ {0}
  <2>1. \A i \in 1 .. n : l[i] \in DOMAIN w
    BY <1>1, ElementOfSeq DEF Line
  <2> QED
    BY <2>1, ParentsFirst
<1>3. \A i \in 2 .. n : l[i - 1] < l[i]
  BY <1>1, <1>2, ParentsFirst DEF Line
<1> DEFINE A == {k \in Nat : \A i \in 1 .. n : i + k + 1 \in 1 .. n => l[i] < l[i + k + 1]}
<1>4. 0 \in A
  <2>1. ASSUME NEW i \in 1 .. n, i + 1 \in 1 .. n  PROVE l[i] < l[i + 1]
    <3>1. i + 1 \in 2 .. n /\ (i + 1) - 1 = i
      BY <2>1
    <3> QED
      BY <1>3, <3>1
  <2> QED
    BY <2>1
<1>5. ASSUME NEW k \in Nat, k \in A  PROVE k + 1 \in A
  <2>1. ASSUME NEW i \in 1 .. n, i + (k + 1) + 1 \in 1 .. n  PROVE l[i] < l[i + (k + 1) + 1]
    <3>1. PICK m \in 2 .. n : m = i + (k + 1) + 1
      BY <2>1
    <3>2. m - 1 \in 1 .. n /\ m - 1 = i + k + 1
      BY <3>1
    <3>3. l[i] < l[m - 1]
      BY <1>5, <3>2
    <3>4. l[m - 1] < l[m]
      BY <1>3
    <3>5. l[i] \in Nat /\ l[m - 1] \in Nat /\ l[m] \in Nat
      BY <1>2, <3>2
    <3> QED
      BY <3>1, <3>3, <3>4, <3>5
  <2> QED
    BY <2>1
<1> HIDE DEF A
<1>6. Nat \subseteq A
  BY <1>4, <1>5, SetInduction
<1>7. ASSUME NEW i \in 1 .. n, NEW j \in 1 .. n, i < j  PROVE l[i] < l[j]
  <2>1. PICK k \in Nat : j = i + k + 1
    <3>1. j - i - 1 \in Nat /\ j = i + (j - i - 1) + 1
      BY <1>7
    <3> QED
      BY <3>1
  <2> QED
    BY <1>6, <2>1 DEF A
<1> QED
  BY <1>1, <1>2, <1>7

\* No line is longer than there are agents.
LEMMA LineFits ==
  ASSUME NEW w, ViewsSound(w), NEW l, Line(w, l)
  PROVE  l \in Tui!Lines(w)
<1>1. PICK n \in Nat : n = Len(l)
  BY LenProperties DEF Line
<1>2. PICK c \in Nat : c = Cardinality(DOMAIN w)
  BY ParentsFirst, FS_CardinalityType
<1>3. PICK f : f = [i \in 1 .. n |-> l[i]]
  OBVIOUS
<1>4. /\ \A i \in 1 .. n : l[i] \in DOMAIN w /\ l[i] \in Nat \ {0}
      /\ \A i, j \in 1 .. n : i < j => l[i] < l[j]
  BY <1>1, LineRises
<1>5. f \in Injection(1 .. n, DOMAIN w)
  <2>1. f \in [1 .. n -> DOMAIN w]
    BY <1>3, <1>4
  <2>2. ASSUME NEW i \in 1 .. n, NEW j \in 1 .. n, f[i] = f[j]  PROVE i = j
    BY <1>3, <1>4, <2>2
  <2> QED
    BY <2>1, <2>2, Fun_IsInj
<1>6. Cardinality(1 .. n) <= c
  BY <1>2, <1>5, ParentsFirst, FS_Injection
<1>7. Cardinality(1 .. n) = n
  BY FS_Interval
<1> QED
  BY <1>1, <1>2, <1>6, <1>7, LinesAre

\* Two lines that end in the same agent are one.
LEMMA LineIsOne ==
  ASSUME NEW w, ViewsSound(w), NEW l, NEW m, Line(w, l), Line(w, m), l[Len(l)] = m[Len(m)]
  PROVE  l = m
<1> DEFINE D == DOMAIN w
<1>1. ASSUME NEW a, NEW b, Line(w, a), Line(w, b), a[Len(a)] = b[Len(b)], Len(a) <= Len(b)  PROVE a = b
  <2>1. PICK n \in Nat, k \in Nat : Len(a) = n /\ Len(b) = n + k /\ n > 0
    <3>1. Len(a) \in Nat /\ Len(b) \in Nat /\ Len(a) > 0
      BY <1>1, LenProperties DEF Line
    <3>2. Len(b) - Len(a) \in Nat /\ Len(b) = Len(a) + (Len(b) - Len(a))
      BY <1>1, <3>1
    <3> QED
      BY <3>1, <3>2
  <2> DEFINE A == {i \in Nat : i < n => a[n - i] = b[n + k - i]}
  <2>2. 0 \in A
    BY <1>1, <2>1
  <2>3. ASSUME NEW i \in Nat, i \in A  PROVE i + 1 \in A
    <3> SUFFICES ASSUME i + 1 < n  PROVE a[n - (i + 1)] = b[n + k - (i + 1)]
      OBVIOUS
    <3>1. a[n - i] = b[n + k - i]
      BY <2>3
    <3>2. n - i \in 2 .. n /\ (n - i) - 1 = n - (i + 1)
      OBVIOUS
    <3>3. n + k - i \in 2 .. n + k /\ (n + k - i) - 1 = n + k - (i + 1)
      OBVIOUS
    <3>4. w[a[n - i]].parent = a[n - (i + 1)]
      BY <1>1, <2>1, <3>2 DEF Line
    <3>5. w[b[n + k - i]].parent = b[n + k - (i + 1)]
      BY <1>1, <2>1, <3>3 DEF Line
    <3> QED
      BY <3>1, <3>4, <3>5
  <2> HIDE DEF A
  <2>4. Nat \subseteq A
    BY <2>2, <2>3, SetInduction
  <2>5. \A i \in 1 .. n : a[i] = b[i + k]
    <3> SUFFICES ASSUME NEW i \in 1 .. n  PROVE a[i] = b[i + k]
      OBVIOUS
    <3>1. n - i \in Nat /\ n - i < n /\ n - (n - i) = i /\ n + k - (n - i) = i + k
      OBVIOUS
    <3> QED
      BY <2>4, <3>1 DEF A
  <2>6. k = 0
    <3> SUFFICES ASSUME k # 0  PROVE FALSE
      OBVIOUS
    <3>1. a[1] = b[1 + k] /\ a[1] \in Tui!TopLevel(w)
      BY <1>1, <2>1, <2>5 DEF Line
    <3>2. 1 + k \in 2 .. Len(b) /\ (1 + k) - 1 = k /\ k \in 1 .. Len(b)
      BY <2>1
    <3>3. w[b[1 + k]].parent = b[k]
      BY <1>1, <3>2 DEF Line
    <3>4. b[k] \in D
      BY <1>1, <3>2, ElementOfSeq DEF Line
    <3> QED
      BY <3>1, <3>3, <3>4 DEF Tui!TopLevel, Tui!Nested, Tui!Present
  <2>7. \A i \in 1 .. Len(a) : a[i] = b[i]
    BY <2>1, <2>5, <2>6
  <2>8. a \in Seq(D) /\ b \in Seq(D) /\ Len(a) = Len(b)
    BY <1>1, <2>1, <2>6 DEF Line
  <2> QED
    BY <2>7, <2>8, SeqEqual
<1>2. Len(l) \in Nat /\ Len(m) \in Nat
  BY LenProperties DEF Line
<1>3. CASE Len(l) <= Len(m)
  BY <1>1, <1>3
<1>4. CASE Len(m) <= Len(l)
  BY <1>1, <1>4
<1> QED
  BY <1>2, <1>3, <1>4

\* Each agent ends a line.
LEMMA LineEnds ==
  ASSUME NEW w, ViewsSound(w), NEW s \in DOMAIN w
  PROVE  \E l : Line(w, l) /\ l[Len(l)] = s
<1> DEFINE D == DOMAIN w
           Ends(t) == \E l : Line(w, l) /\ l[Len(l)] = t
           A == {n \in Nat : \A t \in D : t <= n => Ends(t)}
<1> HIDE DEF Ends
<1>1. D \subseteq Nat \ {0} /\ \A t \in D : w[t].parent \in Nat /\ w[t].parent < t
  BY ParentsFirst
<1>2. 0 \in A
  BY <1>1
<1>3. ASSUME NEW n \in Nat, n \in A  PROVE n + 1 \in A
  <2> SUFFICES ASSUME NEW t \in D, t = n + 1  PROVE Ends(t)
    BY <1>1, <1>3
  <2>1. CASE w[t].parent \in D
    <3>1. PICK p \in D : p = w[t].parent /\ p <= n
      BY <1>1, <2>1
    <3>2. PICK l : Line(w, l) /\ l[Len(l)] = p
      BY <1>3, <3>1 DEF Ends
    <3>3. PICK k \in Nat : k = Len(l) /\ k > 0 /\ l \in Seq(D) /\ l[1] \in Tui!TopLevel(w)
      BY <3>2, LenProperties DEF Line
    <3>4. PICK m : m = Append(l, t)
      OBVIOUS
    <3>5. m \in Seq(D) /\ Len(m) = k + 1 /\ (\A i \in 1 .. k : m[i] = l[i]) /\ m[k + 1] = t
      BY <3>3, <3>4, AppendProperties
    <3>6. ASSUME NEW i \in 2 .. k + 1  PROVE w[m[i]].parent = m[i - 1]
      <4>1. CASE i = k + 1
        <5>1. i - 1 = k /\ k \in 1 .. k
          BY <3>3, <4>1
        <5> QED
          BY <3>1, <3>2, <3>3, <3>5, <4>1, <5>1
      <4>2. CASE i # k + 1
        <5>1. i \in 2 .. k /\ i \in 1 .. k /\ i - 1 \in 1 .. k
          BY <4>2
        <5> QED
          BY <3>2, <3>3, <3>5, <5>1 DEF Line
      <4> QED
        BY <4>1, <4>2
    <3>7. Line(w, m)
      BY <3>3, <3>5, <3>6 DEF Line
    <3> QED
      BY <3>5, <3>7 DEF Ends
  <2>2. CASE w[t].parent \notin D
    <3>1. t \in Tui!TopLevel(w)
      BY <2>2 DEF Tui!TopLevel, Tui!Nested, Tui!Present
    <3>2. <<t>> \in Seq(D) /\ Len(<<t>>) = 1 /\ <<t>>[1] = t
      OBVIOUS
    <3>3. Line(w, <<t>>)
      BY <3>1, <3>2 DEF Line
    <3> QED
      BY <3>2, <3>3 DEF Ends
  <2> QED
    BY <2>1, <2>2
<1> HIDE DEF A
<1>4. Nat \subseteq A
  BY <1>2, <1>3, SetInduction
<1>5. s \in Nat /\ s <= s
  BY <1>1
<1> QED
  BY <1>4, <1>5 DEF A, Ends

\* The values of a function with finitely many arguments are finitely many.
LEMMA ImageFinite ==
  ASSUME NEW S, IsFiniteSet(S), NEW f, f = [x \in S |-> f[x]]
  PROVE  IsFiniteSet({f[x] : x \in S})
<1>1. PICK T : T = {f[x] : x \in S}
  OBVIOUS
<1>2. f \in [S -> T]
  BY <1>1
<1>3. f \in Surjection(S, T)
  BY <1>1, <1>2, Fun_IsSurj
<1> QED
  BY <1>1, <1>3, FS_Surjection

\* The nodes of an update's tree, and the path to the last agent of a line.
Nodes(w) ==
  {"project", "worktree", "agent"} \X
    (DOMAIN w \cup {w[s].project : s \in DOMAIN w} \cup {w[s].worktree : s \in DOMAIN w})
AgentPath(w, l) == Tui!Groups(w, l[1]) \o [i \in 1 .. Len(l) |-> <<"agent", l[i]>>]
Beginnings(p) == {SubSeq(p, 1, i) : i \in 1 .. Len(p)}

\* An agent is in one group or two.
LEMMA GroupsAre ==
  ASSUME NEW w, NEW s \in DOMAIN w
  PROVE  /\ Tui!Groups(w, s) \in Seq(Nodes(w)) /\ Len(Tui!Groups(w, s)) \in 1 .. 2
         /\ \A i \in 1 .. Len(Tui!Groups(w, s)) : Tui!Groups(w, s)[i][1] \in {"project", "worktree"}
<1>1. PICK p : p = <<"project", w[s].project>>
  OBVIOUS
<1>2. PICK q : q = <<"worktree", w[s].worktree>>
  OBVIOUS
<1>3. p \in Nodes(w) /\ q \in Nodes(w) /\ p[1] = "project" /\ q[1] = "worktree"
  BY <1>1, <1>2 DEF Nodes
<1>4. Tui!Groups(w, s) \in {<<p>>, <<p, q>>}
  BY <1>1, <1>2 DEF Tui!Groups
<1>5. PICK g : g = Tui!Groups(w, s)
  OBVIOUS
<1>6. CASE g = <<p>>
  <2>1. <<p>> \in Seq(Nodes(w)) /\ Len(<<p>>) = 1 /\ <<p>>[1] = p
    BY <1>3
  <2>2. Len(g) = 1 /\ \A i \in 1 .. 1 : g[i] = p
    BY <1>6, <2>1
  <2> QED
    BY <1>3, <1>5, <1>6, <2>1, <2>2
<1>7. CASE g = <<p, q>>
  <2>1. <<p, q>> \in Seq(Nodes(w)) /\ Len(<<p, q>>) = 2 /\ <<p, q>>[1] = p /\ <<p, q>>[2] = q
    BY <1>3
  <2>2. Len(g) = 2 /\ \A i \in 1 .. 2 : g[i] = p \/ g[i] = q
    BY <1>7, <2>1
  <2> QED
    BY <1>3, <1>5, <1>7, <2>1, <2>2
<1> QED
  BY <1>4, <1>5, <1>6, <1>7

\* A path has the groups of its first agent, and then its agents.
LEMMA PathIs ==
  ASSUME NEW w, NEW l, Line(w, l)
  PROVE  \E n \in 1 .. 2 :
           /\ n = Len(Tui!Groups(w, l[1]))
           /\ AgentPath(w, l) \in Seq(Nodes(w)) /\ Len(AgentPath(w, l)) = n + Len(l)
           /\ \A i \in 1 .. n :
                AgentPath(w, l)[i] = Tui!Groups(w, l[1])[i] /\ AgentPath(w, l)[i][1] \in {"project", "worktree"}
           /\ \A i \in 1 .. Len(l) : AgentPath(w, l)[n + i] = <<"agent", l[i]>>
<1>1. PICK k \in Nat : k = Len(l) /\ k > 0 /\ l \in Seq(DOMAIN w)
  BY LenProperties DEF Line
<1>2. \A i \in 1 .. k : l[i] \in DOMAIN w
  BY <1>1, ElementOfSeq
<1>3. PICK g : g = Tui!Groups(w, l[1])
  OBVIOUS
<1>4. g \in Seq(Nodes(w)) /\ Len(g) \in 1 .. 2 /\ \A i \in 1 .. Len(g) : g[i][1] \in {"project", "worktree"}
  <2>1. l[1] \in DOMAIN w
    BY <1>1, <1>2
  <2> QED
    BY <1>3, <2>1, GroupsAre
<1>5. PICK a : a = [i \in 1 .. k |-> <<"agent", l[i]>>]
  OBVIOUS
<1>6. a \in Seq(Nodes(w)) /\ Len(a) = k /\ \A i \in 1 .. k : a[i] = <<"agent", l[i]>>
  <2>1. \A i \in 1 .. k : <<"agent", l[i]>> \in Nodes(w)
    BY <1>2 DEF Nodes
  <2>2. a \in [1 .. k -> Nodes(w)]
    BY <1>5, <2>1
  <2> QED
    BY <1>5, <2>2
<1>7. AgentPath(w, l) = g \o a
  BY <1>1, <1>3, <1>5 DEF AgentPath
<1>8. PICK p : p = AgentPath(w, l)
  OBVIOUS
<1>9. PICK n \in 1 .. 2 : n = Len(g)
  BY <1>4
<1>10. /\ g \o a \in Seq(Nodes(w)) /\ Len(g \o a) = n + k
       /\ \A i \in 1 .. n : (g \o a)[i] = g[i]
       /\ \A i \in 1 .. k : (g \o a)[n + i] = a[i]
  <2>1. PICK N : N = Nodes(w)
    OBVIOUS
  <2>2. g \in Seq(N) /\ a \in Seq(N)
    BY <1>4, <1>6, <2>1
  <2>3. /\ g \o a \in Seq(N) /\ Len(g \o a) = Len(g) + Len(a)
        /\ \A i \in 1 .. Len(g) : (g \o a)[i] = g[i]
        /\ \A i \in 1 .. Len(a) : (g \o a)[Len(g) + i] = a[i]
    BY ONLY <2>2, Concat
  <2> QED
    BY ONLY <1>6, <1>9, <2>1, <2>3
<1>11. p = g \o a
  BY <1>7, <1>8
<1>12. /\ n = Len(g) /\ p \in Seq(Nodes(w)) /\ Len(p) = n + k
       /\ \A i \in 1 .. n : p[i] = g[i] /\ p[i][1] \in {"project", "worktree"}
       /\ \A i \in 1 .. k : p[n + i] = <<"agent", l[i]>>
  BY <1>4, <1>6, <1>9, <1>10, <1>11
<1> HIDE DEF AgentPath
<1> QED
  BY ONLY <1>1, <1>3, <1>8, <1>12

\* The tree's nodes are the beginnings of these paths.
LEMMA TreeIs ==
  ASSUME NEW w, ViewsSound(w)
  PROVE  \A p : p \in Tui!BuildTree(w) <=> \E l : Line(w, l) /\ p \in Beginnings(AgentPath(w, l))
<1>1. PICK c \in Nat : c = Cardinality(DOMAIN w)
  BY ParentsFirst, FS_CardinalityType
<1>2. \A l : l \in Tui!Lines(w) <=> Line(w, l)
  <2> SUFFICES ASSUME NEW l  PROVE l \in Tui!Lines(w) <=> Line(w, l)
    OBVIOUS
  <2> QED
    BY <1>1, LinesAre, LineFits
<1>3. Tui!BuildTree(w) = UNION {Beginnings(p) : p \in {AgentPath(w, l) : l \in Tui!Lines(w)}}
  BY DEF Tui!BuildTree, Beginnings, AgentPath
<1> QED
  BY <1>2, <1>3

\* A tree is finite.
LEMMA TreeFinite ==
  ASSUME NEW w, ViewsSound(w)
  PROVE  IsFiniteSet(Tui!BuildTree(w))
<1> DEFINE D == DOMAIN w
<1>1. PICK f : f = [s \in D |-> Beginnings(AgentPath(w, CHOOSE l : Line(w, l) /\ l[Len(l)] = s))]
  OBVIOUS
<1>2. ASSUME NEW s \in D
      PROVE  \E l : Line(w, l) /\ l[Len(l)] = s /\ f[s] = Beginnings(AgentPath(w, l))
  <2>1. PICK l : l = CHOOSE k : Line(w, k) /\ k[Len(k)] = s
    OBVIOUS
  <2>2. Line(w, l) /\ l[Len(l)] = s
    BY <2>1, LineEnds
  <2> QED
    BY <1>1, <2>1, <2>2
<1>3. PICK G : G = {f[s] : s \in D}
  OBVIOUS
<1>4. IsFiniteSet(G)
  <2>1. f = [s \in D |-> f[s]]
    BY <1>1
  <2> QED
    BY <1>3, <2>1, ParentsFirst, ImageFinite
<1>5. ASSUME NEW T \in G  PROVE IsFiniteSet(T)
  <2>1. PICK l : Line(w, l) /\ T = Beginnings(AgentPath(w, l))
    BY <1>2, <1>3
  <2>2. PICK p \in Seq(Nodes(w)) : p = AgentPath(w, l)
    BY <2>1, PathIs
  <2>3. PICK m \in Nat : m = Len(p)
    BY LenProperties
  <2>4. PICK h : h = [i \in 1 .. m |-> SubSeq(p, 1, i)]
    OBVIOUS
  <2>5. h = [i \in 1 .. m |-> h[i]] /\ T = {h[i] : i \in 1 .. m}
    BY <2>1, <2>2, <2>3, <2>4 DEF Beginnings
  <2>6. IsFiniteSet(1 .. m)
    BY FS_Interval
  <2> QED
    BY <2>5, <2>6, ImageFinite
<1>6. Tui!BuildTree(w) = UNION G
  <2>1. ASSUME NEW p \in Tui!BuildTree(w)  PROVE p \in UNION G
    <3>1. PICK l : Line(w, l) /\ p \in Beginnings(AgentPath(w, l))
      BY <2>1, TreeIs
    <3>2. PICK s \in D : s = l[Len(l)]
      <4>1. Len(l) \in 1 .. Len(l) /\ l \in Seq(D)
        BY <3>1, LenProperties DEF Line
      <4> QED
        BY <4>1, ElementOfSeq
    <3>3. PICK k : Line(w, k) /\ k[Len(k)] = s /\ f[s] = Beginnings(AgentPath(w, k))
      BY <1>2
    <3>4. k = l
      BY <3>1, <3>2, <3>3, LineIsOne
    <3> QED
      BY <1>3, <3>1, <3>3, <3>4
  <2>2. ASSUME NEW p \in UNION G  PROVE p \in Tui!BuildTree(w)
    BY <1>2, <1>3, TreeIs
  <2> QED
    BY <2>1, <2>2
<1> QED
  BY <1>4, <1>5, <1>6, FS_UNION

\* The beginning of a line is a line.
LEMMA LineStarts ==
  ASSUME NEW w, NEW m, Line(w, m), NEW j \in 1 .. Len(m)
  PROVE  Line(w, SubSeq(m, 1, j)) /\ Len(SubSeq(m, 1, j)) = j /\ \A i \in 1 .. j : SubSeq(m, 1, j)[i] = m[i]
<1>1. PICK k \in Nat : k = Len(m) /\ m \in Seq(DOMAIN w)
  BY LenProperties DEF Line
<1>2. j \in Nat /\ j > 0 /\ j <= k
  BY <1>1
<1>3. PICK l : l = SubSeq(m, 1, j)
  OBVIOUS
<1>4. l \in Seq(DOMAIN w) /\ Len(l) = j /\ \A i \in 1 .. j : l[i] = m[i]
  BY <1>1, <1>2, <1>3, Prefix
<1>5. \A i \in 2 .. j : i \in 1 .. j /\ i - 1 \in 1 .. j /\ i \in 2 .. Len(m)
  BY <1>1, <1>2
<1>6. Line(w, l)
  BY <1>2, <1>4, <1>5 DEF Line
<1> QED
  BY <1>3, <1>4, <1>6

\* Each listed agent has one node: the path to it.
LEMMA AgentOnce ==
  ASSUME NEW w, ViewsSound(w), NEW s \in DOMAIN w
  PROVE  Cardinality({p \in Tui!BuildTree(w) : Tui!NodeId(p) = <<"agent", s>>}) = 1
<1>1. PICK l : Line(w, l) /\ l[Len(l)] = s
  BY LineEnds
<1>2. PICK k \in Nat : k = Len(l) /\ k > 0
  BY <1>1, LenProperties DEF Line
<1>3. PICK r : r = AgentPath(w, l)
  OBVIOUS
<1>4. PICK g : g = Tui!Groups(w, l[1])
  OBVIOUS
<1>5. PICK n \in 1 .. 2 :
        /\ n = Len(g) /\ r \in Seq(Nodes(w)) /\ Len(r) = n + k
        /\ \A i \in 1 .. n : r[i] = g[i]
        /\ \A i \in 1 .. k : r[n + i] = <<"agent", l[i]>>
  BY <1>1, <1>2, <1>3, <1>4, PathIs
<1>6. r \in Tui!BuildTree(w)
  <2>1. n + k \in Nat /\ n + k <= Len(r) /\ n + k \in 1 .. Len(r)
    BY <1>2, <1>5
  <2>2. PICK t : t = SubSeq(r, 1, n + k)
    OBVIOUS
  <2>3. t \in Seq(Nodes(w)) /\ Len(t) = n + k /\ \A i \in 1 .. n + k : t[i] = r[i]
    BY <1>5, <2>1, <2>2, Prefix
  <2>4. t = r
    BY <1>5, <2>3, SeqEqual
  <2>5. r \in Beginnings(r)
    BY <2>1, <2>2, <2>4 DEF Beginnings
  <2> QED
    BY <1>1, <1>3, <2>5, TreeIs
<1>7. Tui!NodeId(r) = <<"agent", s>>
  BY <1>1, <1>2, <1>5 DEF Tui!NodeId
<1>8. ASSUME NEW q \in Tui!BuildTree(w), Tui!NodeId(q) = <<"agent", s>>  PROVE q = r
  <2>1. PICK m : Line(w, m) /\ q \in Beginnings(AgentPath(w, m))
    BY TreeIs
  <2>2. PICK t : t = AgentPath(w, m)
    OBVIOUS
  <2>3. PICK h : h = Tui!Groups(w, m[1])
    OBVIOUS
  <2>4. PICK d \in Nat : d = Len(m)
    BY <2>1, LenProperties DEF Line
  <2>5. PICK o \in 1 .. 2 :
          /\ o = Len(h) /\ t \in Seq(Nodes(w)) /\ Len(t) = o + d
          /\ \A i \in 1 .. o : t[i] = h[i] /\ t[i][1] \in {"project", "worktree"}
          /\ \A i \in 1 .. d : t[o + i] = <<"agent", m[i]>>
    BY <2>1, <2>2, <2>3, <2>4, PathIs
  <2>6. PICK i \in 1 .. o + d : q = SubSeq(t, 1, i)
    BY <2>1, <2>2, <2>5 DEF Beginnings
  <2>7. q \in Seq(Nodes(w)) /\ Len(q) = i /\ \A x \in 1 .. i : q[x] = t[x]
    <3>1. i \in Nat /\ i <= Len(t)
      BY <2>4, <2>5
    <3> QED
      BY <2>5, <2>6, <3>1, Prefix
  <2>8. t[i] = <<"agent", s>>
    BY <1>8, <2>7 DEF Tui!NodeId
  <2>9. i > o
    <3>1. ASSUME i \in 1 .. o  PROVE FALSE
      <4>1. t[i][1] = "agent"
        BY <2>8
      <4> QED
        BY <2>5, <3>1, <4>1
    <3> QED
      BY <3>1
  <2>10. PICK j \in 1 .. d : i = o + j
    <3>1. i - o \in 1 .. d /\ i = o + (i - o)
      BY <2>4, <2>9
    <3> QED
      BY <3>1
  <2>11. m[j] = s
    <3>1. t[o + j] = <<"agent", m[j]>>
      BY <2>5
    <3> QED
      BY <2>8, <2>10, <3>1
  <2>12. SubSeq(m, 1, j) = l /\ k = j /\ \A x \in 1 .. j : l[x] = m[x]
    <3>1. j \in 1 .. Len(m)
      BY <2>4
    <3>2. PICK b : b = SubSeq(m, 1, j)
      OBVIOUS
    <3>3. Line(w, b) /\ Len(b) = j /\ \A x \in 1 .. j : b[x] = m[x]
      BY <2>1, <3>1, <3>2, LineStarts
    <3>4. b[Len(b)] = s
      BY <2>11, <3>1, <3>3
    <3>5. b = l
      BY <1>1, <3>3, <3>4, LineIsOne
    <3> QED
      BY <1>2, <3>2, <3>3, <3>5
  <2>13. h = g /\ o = n
    BY <1>4, <1>5, <2>3, <2>5, <2>12
  <2>14. Len(q) = n + k
    BY <2>7, <2>10, <2>12, <2>13
  <2>15. ASSUME NEW x \in 1 .. n + k  PROVE q[x] = r[x]
    <3>1. q[x] = t[x]
      BY <2>7, <2>14
    <3>2. CASE x \in 1 .. n
      BY <1>5, <2>5, <2>13, <3>1, <3>2
    <3>3. CASE x \notin 1 .. n
      <4>1. PICK y \in 1 .. k : x = n + y
        <5>1. x - n \in 1 .. k /\ x = n + (x - n)
          BY <3>3
        <5> QED
          BY <5>1
      <4>2. r[x] = <<"agent", l[y]>>
        BY <1>5, <4>1
      <4>3. t[x] = <<"agent", m[y]>>
        <5>1. y \in 1 .. d /\ x = o + y
          BY <2>4, <2>12, <2>13, <4>1
        <5> QED
          BY <2>5, <5>1
      <4> QED
        BY <2>12, <3>1, <4>1, <4>2, <4>3
    <3> QED
      BY <3>2, <3>3
  <2> QED
    BY <1>5, <2>7, <2>14, <2>15, SeqEqual
<1>9. {p \in Tui!BuildTree(w) : Tui!NodeId(p) = <<"agent", s>>} = {r}
  BY <1>6, <1>7, <1>8
<1> QED
  BY <1>9, FS_Singleton

\* The last row's place, or the first where there is none.
LastRow(rows) == IF rows = <<>> THEN 1 ELSE Len(rows)

\* There are as many rows as nodes.
LEMMA RowsCount ==
  ASSUME NEW nodes, IsFiniteSet(nodes)
  PROVE  /\ Len(Tui!InOrder(nodes)) = Cardinality(nodes) /\ Cardinality(nodes) \in Nat
         /\ Tui!InOrder(nodes) = <<>> <=> Cardinality(nodes) = 0
<1>1. PICK n \in Nat : n = Cardinality(nodes)
  BY FS_CardinalityType
<1>2. PICK rows : rows = Tui!InOrder(nodes)
  OBVIOUS
<1>3. \E f : rows = [i \in 1 .. n |-> f[i]]
  <2>1. PICK place : place = [p \in nodes |-> Tui!Cardinality({q \in nodes : q # p /\ Tui!Precedes(q, p)})]
    OBVIOUS
  <2>2. PICK f : f = [i \in 1 .. n |-> CHOOSE p \in nodes : place[p] = i - 1]
    OBVIOUS
  <2>3. Tui!Cardinality(nodes) = n
    BY <1>1 DEF Tui!Cardinality, Cardinality
  <2>4. rows = f
    BY <1>2, <2>1, <2>2, <2>3 DEF Tui!InOrder
  <2> QED
    BY <2>2, <2>4
<1>4. PICK S : S = {rows[i] : i \in 1 .. n}
  OBVIOUS
<1>5. rows \in [1 .. n -> S]
  BY <1>3, <1>4
<1>6. rows \in Seq(S) /\ Len(rows) = n
  BY <1>5
<1>7. rows = <<>> <=> n = 0
  BY <1>6, EmptySeq
<1> QED
  BY <1>1, <1>2, <1>6, <1>7

\* The nodes that no fold hides.
Opened(tree, open) == {p \in tree : \A i \in 1 .. Len(p) - 1 : p[i] \in open}

\* Folds that hide no more nodes show no fewer rows.
LEMMA RowsGrow ==
  ASSUME NEW tree, IsFiniteSet(tree), NEW closed, NEW open, Opened(tree, closed) \subseteq Opened(tree, open)
  PROVE  /\ Len(Tui!Flatten(tree, closed)) \in Nat /\ Len(Tui!Flatten(tree, open)) \in Nat
         /\ Len(Tui!Flatten(tree, closed)) <= Len(Tui!Flatten(tree, open))
         /\ LastRow(Tui!Flatten(tree, closed)) \in Nat \ {0}
         /\ LastRow(Tui!Flatten(tree, closed)) <= LastRow(Tui!Flatten(tree, open))
<1>1. PICK few : few = Opened(tree, closed)
  OBVIOUS
<1>2. PICK many : many = Opened(tree, open)
  OBVIOUS
<1>3. few \in SUBSET many /\ many \in SUBSET tree
  BY <1>1, <1>2 DEF Opened
<1>4. IsFiniteSet(many)
  BY <1>3, FS_Subset
<1>5. IsFiniteSet(few) /\ Cardinality(few) <= Cardinality(many)
  BY <1>3, <1>4, FS_Subset
<1>6. Tui!Flatten(tree, closed) = Tui!InOrder(few) /\ Tui!Flatten(tree, open) = Tui!InOrder(many)
  BY <1>1, <1>2 DEF Tui!Flatten, Opened
<1>7. PICK r : r = Tui!InOrder(few)
  OBVIOUS
<1>8. PICK t : t = Tui!InOrder(many)
  OBVIOUS
<1>9. Len(r) = Cardinality(few) /\ Len(r) \in Nat /\ (r = <<>> <=> Len(r) = 0)
  BY <1>5, <1>7, RowsCount
<1>10. Len(t) = Cardinality(many) /\ Len(t) \in Nat /\ (t = <<>> <=> Len(t) = 0)
  BY <1>4, <1>8, RowsCount
<1>11. Len(r) <= Len(t)
  BY <1>5, <1>9, <1>10
<1>12. LastRow(r) \in Nat \ {0} /\ LastRow(r) <= LastRow(t)
  BY <1>9, <1>10, <1>11 DEF LastRow
<1> QED
  BY <1>6, <1>7, <1>8, <1>9, <1>10, <1>11, <1>12

\* What the App holds.
AppFields ==
  {"state", "sessions", "scoped", "panes", "tree", "rows", "expanded", "sel", "last", "query", "searching",
   "matches", "saved", "help", "target", "output"}

\* Of two states of the App: what moves and folds leave alone.
Kept(a, b) ==
  /\ b.sessions = a.sessions /\ b.scoped = a.scoped /\ b.panes = a.panes /\ b.query = a.query
  /\ b.tree = a.tree /\ b.matches = a.matches /\ b.saved = a.saved /\ b.target = a.target /\ b.output = a.output

\* The rows are the tree's, and the cursor is on one.
Flat(a) == IsFiniteSet(a.tree) /\ a.rows = Tui!Flatten(a.tree, a.expanded)
OnScreen(a) == a.sel \in 1 .. LastRow(a.rows)

\* The tree is of what is shown, the output of the target, and a filter keeps the folds of before it.
AppSound(a) ==
  /\ DOMAIN a = AppFields /\ ViewsSound(a.sessions) /\ a.query \in Nat /\ a.output \in {0, a.target}
  /\ Flat(a) /\ OnScreen(a) /\ a.tree = Tui!BuildTree(Tui!Shown(a))
  /\ a.matches.on = (a.query > 0) /\ a.saved.on = (a.query > 0)

\* A list shown is one of listed agents.
LEMMA ShownSound ==
  ASSUME NEW a, ViewsSound(a.sessions)
  PROVE  ViewsSound(Tui!Shown(a)) /\ IsFiniteSet(Tui!BuildTree(Tui!Shown(a)))
<1>1. PICK w : w = Tui!InScope(a)
  OBVIOUS
<1>2. ViewsSound(w)
  BY <1>1 DEF Tui!InScope, ViewsSound
<1>3. Tui!Selected(w, a.query) \subseteq DOMAIN w
  BY <1>2, SelectedListed
<1>4. PICK k : k = Tui!Selected(w, a.query)
  OBVIOUS
<1>5. Tui!Shown(a) = IF a.query = 0 THEN w ELSE [s \in k |-> w[s]]
  BY <1>1, <1>4 DEF Tui!Shown
<1>6. ViewsSound(Tui!Shown(a))
  BY <1>2, <1>3, <1>4, <1>5 DEF ViewsSound
<1> QED
  BY <1>6, TreeFinite

\* What is shown depends on the list, its scope and the filter.
LEMMA ShownSame ==
  ASSUME NEW a, NEW b, b.sessions = a.sessions, b.scoped = a.scoped, b.panes = a.panes, b.query = a.query
  PROVE  Tui!InScope(b) = Tui!InScope(a) /\ Tui!Shown(b) = Tui!Shown(a)
<1>1. Tui!InScope(b) = Tui!InScope(a)
  BY DEF Tui!InScope
<1> QED
  BY <1>1 DEF Tui!Shown

\* A move or a fold that leaves rows of the tree and a cursor on them is sound.
LEMMA MovedSound ==
  ASSUME NEW a, AppSound(a), NEW b, DOMAIN b = AppFields, Kept(a, b), b.rows = Tui!Flatten(b.tree, b.expanded), OnScreen(b)
  PROVE  AppSound(b)
<1>1. Tui!Shown(b) = Tui!Shown(a)
  BY ShownSame DEF Kept
<1> QED
  BY <1>1 DEF AppSound, Kept, Flat

\* Of a set of rows there is a first.
LEMMA FirstOne ==
  ASSUME NEW n \in Nat, NEW T \in SUBSET (1 .. n), T # {}
  PROVE  /\ \E i \in T : \A j \in T : i <= j
         /\ (CHOOSE i \in T : \A j \in T : i <= j) \in T
<1> DEFINE S == {k \in Nat : (\E j \in T : j <= k) => \E i \in T : \A j \in T : i <= j}
<1>1. 0 \in S
  OBVIOUS
<1>2. ASSUME NEW k \in Nat, k \in S  PROVE k + 1 \in S
  <2>1. CASE \E j \in T : j <= k
    BY <1>2, <2>1
  <2>2. CASE ~ \E j \in T : j <= k
    <3>1. \A j \in T : j > k
      BY <2>2
    <3> QED
      BY <3>1
  <2> QED
    BY <2>1, <2>2
<1> HIDE DEF S
<1>3. Nat \subseteq S
  BY <1>1, <1>2, SetInduction
<1>4. \E i \in T : \A j \in T : i <= j
  <2>1. PICK j \in T : TRUE
    OBVIOUS
  <2>2. j \in Nat /\ j <= j
    OBVIOUS
  <2>3. j \in S
    BY <1>3, <2>2
  <2> QED
    BY <2>2, <2>3 DEF S
<1> QED
  BY <1>4

\* clamp_selection puts the cursor on a row.
LEMMA Clamped ==
  ASSUME NEW a, DOMAIN a = AppFields, a.sel \in Nat \ {0}, Len(a.rows) \in Nat, a.rows = <<>> <=> Len(a.rows) = 0
  PROVE  /\ DOMAIN Tui!Clamp(a) = AppFields /\ Kept(a, Tui!Clamp(a)) /\ OnScreen(Tui!Clamp(a))
         /\ Tui!Clamp(a).rows = a.rows /\ Tui!Clamp(a).expanded = a.expanded
<1>1. PICK i : i = IF Len(a.rows) = 0 THEN 1 ELSE IF a.sel > Len(a.rows) THEN Len(a.rows) ELSE a.sel
  OBVIOUS
<1>2. Tui!Clamp(a) = [a EXCEPT !.sel = i]
  BY <1>1 DEF Tui!Clamp, AppFields
<1>3. PICK b : b = [a EXCEPT !.sel = i]
  OBVIOUS
<1>4. DOMAIN b = AppFields /\ b.sel = i /\ b.rows = a.rows /\ b.expanded = a.expanded /\ Kept(a, b)
  BY <1>3 DEF AppFields, Kept
<1>5. i \in 1 .. LastRow(a.rows)
  BY <1>1 DEF LastRow
<1> QED
  BY <1>2, <1>3, <1>4, <1>5 DEF OnScreen

\* A jump to a node, or to the first match, moves the cursor, to a row.
LEMMA Jumped ==
  ASSUME NEW a, NEW id, DOMAIN a = AppFields, Len(a.rows) \in Nat, a.rows = <<>> <=> Len(a.rows) = 0,
         NEW b, b = Tui!PutOn(a, id) \/ b = Tui!FirstMatch(a)
  PROVE  /\ DOMAIN b = AppFields /\ Kept(a, b) /\ b.rows = a.rows /\ b.expanded = a.expanded
         /\ b.sel = a.sel \/ OnScreen(b)
<1>1. PICK n \in Nat : n = Len(a.rows)
  OBVIOUS
<1>2. PICK T \in SUBSET (1 .. n) : b = IF T = {} THEN a ELSE [a EXCEPT !.sel = CHOOSE i \in T : \A j \in T : i <= j]
  <2>1. CASE b = Tui!PutOn(a, id)
    <3>1. PICK T : T = {i \in 1 .. n : Tui!NodeId(a.rows[i]) = id}
      OBVIOUS
    <3>2. T \in SUBSET (1 .. n)
      BY <3>1
    <3>3. b = IF T = {} THEN a ELSE [a EXCEPT !.sel = CHOOSE i \in T : \A j \in T : i <= j]
      BY <1>1, <2>1, <3>1 DEF Tui!PutOn
    <3> QED
      BY ONLY <3>2, <3>3
  <2>2. CASE b = Tui!FirstMatch(a)
    <3>1. PICK T : T = {i \in 1 .. n :
                         Tui!NodeId(a.rows[i])[1] = "agent" /\ Tui!NodeId(a.rows[i])[2] \in a.matches.ids}
      OBVIOUS
    <3>2. T \in SUBSET (1 .. n)
      BY <3>1
    <3>3. b = IF T = {} THEN a ELSE [a EXCEPT !.sel = CHOOSE i \in T : \A j \in T : i <= j]
      BY <1>1, <2>2, <3>1 DEF Tui!FirstMatch
    <3> QED
      BY ONLY <3>2, <3>3
  <2> QED
    BY <2>1, <2>2
<1>3. CASE T = {}
  BY <1>2, <1>3 DEF Kept
<1>4. CASE T # {}
  <2>1. PICK k : k = CHOOSE i \in T : \A j \in T : i <= j
    OBVIOUS
  <2>2. k \in 1 .. n
    BY <1>4, <2>1, FirstOne
  <2>3. b = [a EXCEPT !.sel = k]
    BY <1>2, <1>4, <2>1
  <2>4. DOMAIN b = AppFields /\ b.sel = k /\ b.rows = a.rows /\ b.expanded = a.expanded /\ Kept(a, b)
    BY <2>3 DEF AppFields, Kept
  <2>5. LastRow(b.rows) = n
    BY <1>1, <2>2, <2>4 DEF LastRow
  <2>6. OnScreen(b)
    BY ONLY <2>2, <2>4, <2>5 DEF OnScreen
  <2> QED
    BY <2>4, <2>6
<1> QED
  BY <1>3, <1>4

\* The rows of other folds.
LEMMA Refolded ==
  ASSUME NEW a, DOMAIN a = AppFields, IsFiniteSet(a.tree), NEW open, NEW c, c = [a EXCEPT !.expanded = open],
         NEW b, b = Tui!Reflatten(c)
  PROVE  /\ DOMAIN b = AppFields /\ Kept(a, b) /\ b.expanded = open /\ b.sel = a.sel
         /\ b.rows = Tui!Flatten(b.tree, b.expanded)
         /\ Len(b.rows) \in Nat /\ (b.rows = <<>> <=> Len(b.rows) = 0)
<1>1. DOMAIN c = AppFields /\ Kept(a, c) /\ c.expanded = open /\ c.sel = a.sel
  BY DEF AppFields, Kept
<1>2. PICK rows : rows = Tui!Flatten(c.tree, c.expanded)
  OBVIOUS
<1>3. b = [c EXCEPT !.rows = rows]
  BY <1>2 DEF Tui!Reflatten
<1>4. DOMAIN b = AppFields /\ Kept(c, b) /\ b.expanded = c.expanded /\ b.sel = c.sel /\ b.rows = rows
  BY <1>1, <1>3 DEF AppFields, Kept
<1>5. Kept(a, b) /\ b.expanded = open /\ b.sel = a.sel /\ b.rows = Tui!Flatten(b.tree, b.expanded)
  BY <1>1, <1>2, <1>4 DEF Kept
<1>6. IsFiniteSet(b.tree)
  BY <1>5 DEF Kept
<1>7. Len(b.rows) \in Nat /\ (b.rows = <<>> <=> Len(b.rows) = 0)
  <2>1. PICK nodes : nodes = {p \in b.tree : \A i \in 1 .. Len(p) - 1 : p[i] \in b.expanded}
    OBVIOUS
  <2>2. IsFiniteSet(nodes)
    BY <1>6, <2>1, FS_Subset
  <2>3. b.rows = Tui!InOrder(nodes)
    BY <1>5, <2>1 DEF Tui!Flatten
  <2> QED
    BY <2>2, <2>3, RowsCount
<1> QED
  BY <1>4, <1>5, <1>7

\* The matches of a list, and what rebuild_tree opens.
MatchesOf(a) ==
  [on |-> a.query > 0, ids |-> IF a.query > 0 THEN Tui!Matched(Tui!InScope(a), a.query) ELSE {}]
Unfolded(a, b) ==
  b.expanded = (IF a.expanded = {} THEN Tui!AllNodeIds(b.tree) ELSE a.expanded) \cup Tui!GroupsToOpen(a, b.matches, b.tree)

\* What rebuild_tree makes of an App.
LEMMA RebuildIs ==
  ASSUME NEW a, DOMAIN a = AppFields, ViewsSound(a.sessions), a.sel \in Nat \ {0}, NEW b, b = Tui!Rebuild(a)
  PROVE  /\ DOMAIN b = AppFields /\ IsFiniteSet(b.tree) /\ OnScreen(b)
         /\ b.sessions = a.sessions /\ b.scoped = a.scoped /\ b.panes = a.panes /\ b.query = a.query
         /\ b.saved = a.saved /\ b.target = a.target /\ b.output = a.output
         /\ b.tree = Tui!BuildTree(Tui!Shown(a)) /\ b.matches = MatchesOf(a)
         /\ b.rows = Tui!Flatten(b.tree, b.expanded) /\ Unfolded(a, b)
<1>1. PICK tree : tree = Tui!BuildTree(Tui!Shown(a))
  OBVIOUS
<1>2. PICK ids : ids = IF a.query > 0 THEN Tui!Matched(Tui!InScope(a), a.query) ELSE {}
  OBVIOUS
<1>3. PICK matches : matches = [on |-> a.query > 0, ids |-> ids]
  OBVIOUS
<1>5. PICK last : last = IF Tui!Cursor(a) = Tui!NoNode THEN a.last ELSE Tui!Cursor(a)
  OBVIOUS
<1>6. PICK open : open = (IF a.expanded = {} THEN Tui!AllNodeIds(tree) ELSE a.expanded) \cup Tui!GroupsToOpen(a, matches, tree)
  OBVIOUS
<1>7. PICK c : c = [a EXCEPT !.last = last, !.matches = matches, !.tree = tree]
  OBVIOUS
<1>8. /\ DOMAIN c = AppFields /\ c.sessions = a.sessions /\ c.scoped = a.scoped /\ c.panes = a.panes /\ c.query = a.query
      /\ c.saved = a.saved /\ c.target = a.target /\ c.output = a.output /\ c.sel = a.sel
      /\ c.tree = tree /\ c.matches = matches
  BY <1>7 DEF AppFields
<1>9. [a EXCEPT !.last = last, !.matches = matches, !.tree = tree, !.expanded = open] = [c EXCEPT !.expanded = open]
  BY <1>7 DEF AppFields
<1>10. Tui!Rebuild(a) =
         Tui!Clamp(Tui!Reflatten([a EXCEPT !.last = last, !.matches = matches, !.tree = tree, !.expanded = open]))
  <2>1. [a EXCEPT !.last = last, !.matches = matches, !.tree = tree, !.expanded = open] =
          [a EXCEPT !.last = IF Tui!Cursor(a) = Tui!NoNode THEN @ ELSE Tui!Cursor(a), !.matches = matches,
                    !.tree = tree, !.expanded = open]
    BY <1>5
  <2> QED
    BY <1>1, <1>2, <1>3, <1>6, <2>1 DEF Tui!Rebuild
<1>11. IsFiniteSet(tree)
  BY <1>1, ShownSound
<1>12. PICK e : e = [c EXCEPT !.expanded = open]
  OBVIOUS
<1>13. PICK d : d = Tui!Reflatten(e)
  OBVIOUS
<1>14. /\ DOMAIN d = AppFields /\ Kept(c, d) /\ d.sel = c.sel /\ d.expanded = open
       /\ d.rows = Tui!Flatten(d.tree, d.expanded)
       /\ Len(d.rows) \in Nat /\ (d.rows = <<>> <=> Len(d.rows) = 0)
  <2>1. DOMAIN c = AppFields /\ IsFiniteSet(c.tree)
    BY <1>8, <1>11
  <2>2. /\ DOMAIN d = AppFields /\ Kept(c, d) /\ d.sel = c.sel
        /\ d.rows = Tui!Flatten(d.tree, d.expanded)
        /\ Len(d.rows) \in Nat /\ (d.rows = <<>> <=> Len(d.rows) = 0)
    BY ONLY <1>12, <1>13, <2>1, Refolded
  <2>3. d.expanded = open
    <3>1. e.expanded = open /\ DOMAIN e = AppFields
      BY <1>8, <1>12 DEF AppFields
    <3>2. d = [e EXCEPT !.rows = Tui!Flatten(e.tree, e.expanded)]
      BY <1>13 DEF Tui!Reflatten
    <3> QED
      BY <3>1, <3>2 DEF AppFields
  <2> QED
    BY ONLY <2>2, <2>3
<1>15. b = Tui!Clamp(d)
  BY <1>9, <1>10, <1>12, <1>13
<1>16. DOMAIN b = AppFields /\ Kept(d, b) /\ OnScreen(b) /\ b.rows = d.rows /\ b.expanded = d.expanded
  <2>1. d.sel \in Nat \ {0}
    BY <1>8, <1>14
  <2> QED
    BY <1>14, <1>15, <2>1, Clamped
<1>17. /\ b.sessions = a.sessions /\ b.scoped = a.scoped /\ b.panes = a.panes /\ b.query = a.query
       /\ b.saved = a.saved /\ b.target = a.target /\ b.output = a.output /\ b.tree = tree /\ b.matches = matches
  BY <1>8, <1>14, <1>16 DEF Kept
<1>18. b.rows = Tui!Flatten(b.tree, b.expanded) /\ b.expanded = open
  BY <1>14, <1>16 DEF Kept
<1>19. Unfolded(a, b)
  BY <1>6, <1>17, <1>18 DEF Unfolded
<1>20. b.matches = MatchesOf(a)
  BY <1>2, <1>3, <1>17 DEF MatchesOf
<1> QED
  BY <1>1, <1>11, <1>16, <1>17, <1>18, <1>19, <1>20

\* rebuild_tree makes the App sound, whatever tree, rows and cursor it had.
LEMMA Rebuilt ==
  ASSUME NEW a, DOMAIN a = AppFields, ViewsSound(a.sessions), a.query \in Nat, a.sel \in Nat \ {0},
         a.output \in {0, a.target}, a.saved.on = (a.query > 0)
  PROVE  AppSound(Tui!Rebuild(a)) /\ Tui!Rebuild(a).query = a.query
<1>1. PICK b : b = Tui!Rebuild(a)
  OBVIOUS
<1>2. /\ DOMAIN b = AppFields /\ IsFiniteSet(b.tree) /\ OnScreen(b)
      /\ b.sessions = a.sessions /\ b.scoped = a.scoped /\ b.panes = a.panes /\ b.query = a.query
      /\ b.saved = a.saved /\ b.target = a.target /\ b.output = a.output
      /\ b.tree = Tui!BuildTree(Tui!Shown(a)) /\ b.matches = MatchesOf(a)
      /\ b.rows = Tui!Flatten(b.tree, b.expanded)
  BY <1>1, RebuildIs
<1>3. b.tree = Tui!BuildTree(Tui!Shown(b))
  BY <1>2, ShownSame
<1>4. b.matches.on = (a.query > 0)
  BY <1>2 DEF MatchesOf
<1>5. AppSound(b)
  BY <1>2, <1>3, <1>4 DEF AppSound, Flat
<1> QED
  BY <1>1, <1>2, <1>5

\* Other folds, a jump to a node or a match, and a clamp keep the App sound.
LEMMA FoldedSound ==
  ASSUME NEW a, AppSound(a), NEW open, NEW id, NEW c, NEW b, NEW d,
         c = [a EXCEPT !.expanded = open], b = Tui!Reflatten(c),
         d = b \/ d = Tui!PutOn(b, id) \/ d = Tui!FirstMatch(b)
  PROVE  /\ AppSound(Tui!Clamp(d)) /\ (Opened(a.tree, a.expanded) \subseteq Opened(a.tree, open) => AppSound(d))
         /\ Tui!Clamp(d).query = a.query /\ d.query = a.query
<1>1. /\ DOMAIN b = AppFields /\ Kept(a, b) /\ b.expanded = open /\ b.sel = a.sel
      /\ b.rows = Tui!Flatten(b.tree, b.expanded)
      /\ Len(b.rows) \in Nat /\ (b.rows = <<>> <=> Len(b.rows) = 0)
  <2>1. DOMAIN a = AppFields /\ IsFiniteSet(a.tree)
    BY DEF AppSound, Flat
  <2>2. c = [a EXCEPT !.expanded = open]
    OBVIOUS
  <2>3. b = Tui!Reflatten(c)
    OBVIOUS
  <2>4. DOMAIN b = AppFields /\ Kept(a, b)
    BY ONLY <2>1, <2>2, <2>3, Refolded
  <2>5. DOMAIN c = AppFields /\ c.tree = a.tree /\ c.expanded = open /\ c.sel = a.sel
    BY <2>1, <2>2 DEF AppFields
  <2>6. b = [c EXCEPT !.rows = Tui!Flatten(c.tree, c.expanded)]
    BY <2>3 DEF Tui!Reflatten
  <2>7. b.expanded = open /\ b.sel = a.sel /\ b.rows = Tui!Flatten(b.tree, b.expanded)
    BY <2>5, <2>6 DEF AppFields
  <2>8. Len(b.rows) \in Nat /\ (b.rows = <<>> <=> Len(b.rows) = 0)
    BY ONLY <2>1, <2>2, <2>3, Refolded
  <2> QED
    BY ONLY <2>4, <2>8, <2>7
<1>2. DOMAIN d = AppFields /\ Kept(b, d) /\ d.rows = b.rows /\ d.expanded = b.expanded /\ (d.sel = b.sel \/ OnScreen(d))
  <2>1. CASE d = b
    BY <1>1, <2>1 DEF Kept
  <2>2. CASE d = Tui!PutOn(b, id) \/ d = Tui!FirstMatch(b)
    BY <1>1, <2>2, Jumped
  <2> QED
    BY <2>1, <2>2
<1>3. Kept(a, d) /\ d.rows = Tui!Flatten(d.tree, d.expanded) /\ Len(d.rows) \in Nat /\ (d.rows = <<>> <=> Len(d.rows) = 0)
  BY <1>1, <1>2 DEF Kept
<1>4. a.rows = Tui!Flatten(a.tree, a.expanded) /\ IsFiniteSet(a.tree) /\ a.sel \in 1 .. LastRow(a.rows)
  BY DEF AppSound, Flat, OnScreen
<1>5. LastRow(a.rows) \in Nat \ {0}
  BY <1>4, RowsGrow
<1>6. ASSUME Opened(a.tree, a.expanded) \subseteq Opened(a.tree, open)  PROVE AppSound(d)
  <2>1. d.rows = Tui!Flatten(a.tree, open)
    BY <1>1, <1>2 DEF Kept
  <2>2. LastRow(a.rows) <= LastRow(d.rows) /\ LastRow(d.rows) \in Nat
    <3>1. LastRow(Tui!Flatten(a.tree, open)) \in Nat
      BY <1>4, RowsGrow
    <3> QED
      BY <1>4, <1>6, <2>1, <3>1, RowsGrow
  <2>3. OnScreen(d)
    <3>1. CASE d.sel = b.sel
      BY <1>1, <1>4, <1>5, <2>2, <3>1 DEF OnScreen
    <3> QED
      BY <1>2, <3>1
  <2> QED
    BY <1>2, <1>3, <2>3, MovedSound
<1>7. d.sel \in Nat \ {0}
  <2>1. CASE d.sel = b.sel
    BY <1>1, <1>4, <1>5, <2>1
  <2>2. CASE OnScreen(d)
    BY <1>3, <2>2 DEF OnScreen, LastRow
  <2> QED
    BY <1>2, <2>1, <2>2
<1>8. PICK e : e = Tui!Clamp(d)
  OBVIOUS
<1>9. DOMAIN e = AppFields /\ Kept(d, e) /\ OnScreen(e) /\ e.rows = d.rows /\ e.expanded = d.expanded
  BY <1>2, <1>3, <1>7, <1>8, Clamped
<1>10. Kept(a, e) /\ e.rows = Tui!Flatten(e.tree, e.expanded)
  BY <1>3, <1>9 DEF Kept
<1>11. AppSound(e) /\ e.query = a.query
  BY <1>9, <1>10, MovedSound DEF Kept
<1>12. d.query = a.query
  BY <1>3 DEF Kept
<1> QED
  BY <1>6, <1>8, <1>11, <1>12

\* Every node above another one is a node.
LEMMA TreeClosed ==
  ASSUME NEW w, ViewsSound(w)
  PROVE  \A open : Opened(Tui!BuildTree(w), open) \subseteq Opened(Tui!BuildTree(w), Tui!AllNodeIds(Tui!BuildTree(w)))
<1> SUFFICES ASSUME NEW p \in Tui!BuildTree(w), NEW i \in 1 .. Len(p) - 1
             PROVE  p[i] \in Tui!AllNodeIds(Tui!BuildTree(w))
  BY DEF Opened
<1>1. PICK l : Line(w, l) /\ p \in Beginnings(AgentPath(w, l))
  BY TreeIs
<1>2. PICK r \in Seq(Nodes(w)) : r = AgentPath(w, l)
  BY <1>1, PathIs
<1>3. PICK n \in Nat : n = Len(r)
  BY LenProperties
<1>4. PICK k \in 1 .. n : p = SubSeq(r, 1, k)
  BY <1>1, <1>2, <1>3 DEF Beginnings
<1>5. Len(p) = k /\ \A j \in 1 .. k : p[j] = r[j]
  <2>1. k \in Nat /\ k <= Len(r)
    BY <1>3
  <2> QED
    BY <1>4, <2>1, Prefix
<1>6. i \in Nat /\ i \in 1 .. n /\ i \in 1 .. k
  BY <1>3, <1>5
<1>7. PICK q : q = SubSeq(r, 1, i)
  OBVIOUS
<1>8. Len(q) = i /\ \A j \in 1 .. i : q[j] = r[j]
  <2>1. i <= Len(r)
    BY <1>3, <1>6
  <2> QED
    BY <1>6, <1>7, <2>1, Prefix
<1>9. q \in Tui!BuildTree(w)
  <2>1. q \in Beginnings(r)
    BY <1>3, <1>6, <1>7 DEF Beginnings
  <2> QED
    BY <1>1, <1>2, <2>1, TreeIs
<1>10. Tui!NodeId(q) = p[i]
  BY <1>5, <1>6, <1>8 DEF Tui!NodeId
<1> QED
  BY <1>9, <1>10 DEF Tui!AllNodeIds

\* zo, zc, za, zM, zR, h and l, and n and N: the rows are refolded and the cursor is on one.
LEMMA FoldSound ==
  ASSUME NEW a, AppSound(a), NEW id, NEW open
  PROVE  AppSound(Tui!SetNodeExpanded(a, id, open)) /\ Tui!SetNodeExpanded(a, id, open).query = a.query
<1>1. PICK e : e = IF open THEN a.expanded \cup {id} ELSE a.expanded \ {id}
  OBVIOUS
<1>2. PICK c : c = [a EXCEPT !.expanded = e]
  OBVIOUS
<1>3. PICK b : b = Tui!Reflatten(c)
  OBVIOUS
<1>4. PICK d : d = Tui!PutOn(b, id)
  OBVIOUS
<1>5. Tui!SetNodeExpanded(a, id, open) = IF id = Tui!NoNode THEN a ELSE Tui!Clamp(d)
  BY <1>1, <1>2, <1>3, <1>4 DEF Tui!SetNodeExpanded
<1>6. AppSound(Tui!Clamp(d)) /\ Tui!Clamp(d).query = a.query
  BY <1>2, <1>3, <1>4, FoldedSound
<1> QED
  BY <1>5, <1>6

\* zo, zc, za, zM and zR.
LEMMA FoldsSound ==
  ASSUME NEW a, AppSound(a),
         NEW d, d \in {Tui!OpenFold(a), Tui!CloseFold(a), Tui!ToggleFold(a), Tui!CollapseAll(a), Tui!ExpandAll(a)}
  PROVE  AppSound(d) /\ d.query = a.query
<1>1. CASE d = Tui!OpenFold(a)
  <2>1. PICK c : c = [a EXCEPT !.expanded = a.expanded \cup {Tui!Cursor(a)}]
    OBVIOUS
  <2>2. PICK b : b = Tui!Reflatten(c)
    OBVIOUS
  <2>3. d = b \/ d = a
    BY <1>1, <2>1, <2>2 DEF Tui!OpenFold
  <2>4. Opened(a.tree, a.expanded) \subseteq Opened(a.tree, a.expanded \cup {Tui!Cursor(a)})
    BY DEF Opened
  <2>5. AppSound(b) /\ b.query = a.query
    BY <2>1, <2>2, <2>4, FoldedSound
  <2> QED
    BY <2>3, <2>5
<1>2. CASE d = Tui!CloseFold(a)
  <2>1. \/ d = Tui!SetNodeExpanded(a, Tui!Cursor(a), FALSE) \/ d = a
        \/ d = Tui!SetNodeExpanded(a, Tui!NearestAncestor(a), FALSE)
    BY <1>2 DEF Tui!CloseFold
  <2> QED
    BY <2>1, FoldSound
<1>3. CASE d = Tui!ToggleFold(a)
  <2>1. \E id, open : d = Tui!SetNodeExpanded(a, id, open) \/ d = a
    BY <1>3 DEF Tui!ToggleFold
  <2> QED
    BY <2>1, FoldSound
<1>4. CASE d = Tui!CollapseAll(a)
  <2>1. PICK c : c = [a EXCEPT !.expanded = {}]
    OBVIOUS
  <2>2. PICK b : b = Tui!Reflatten(c)
    OBVIOUS
  <2>3. PICK id : id = Tui!SelectedPath(a)[1]
    OBVIOUS
  <2>4. PICK e : e = IF Tui!OnRow(a) THEN Tui!PutOn(b, id) ELSE b
    OBVIOUS
  <2>5. d = Tui!Clamp(e)
    BY <1>4, <2>1, <2>2, <2>3, <2>4 DEF Tui!CollapseAll
  <2>6. e = b \/ e = Tui!PutOn(b, id)
    BY <2>4
  <2>7. AppSound(Tui!Clamp(e)) /\ Tui!Clamp(e).query = a.query
    BY <2>1, <2>2, <2>6, FoldedSound
  <2> QED
    BY <2>5, <2>7
<1>5. CASE d = Tui!ExpandAll(a)
  <2>1. PICK open : open = Tui!AllNodeIds(a.tree)
    OBVIOUS
  <2>2. PICK c : c = [a EXCEPT !.expanded = open]
    OBVIOUS
  <2>3. PICK b : b = Tui!Reflatten(c)
    OBVIOUS
  <2>4. d = b
    BY <1>5, <2>1, <2>2, <2>3 DEF Tui!ExpandAll
  <2>5. Opened(a.tree, a.expanded) \subseteq Opened(a.tree, open)
    <3>1. PICK w : w = Tui!Shown(a)
      OBVIOUS
    <3>2. ViewsSound(w) /\ a.tree = Tui!BuildTree(w)
      BY <3>1, ShownSound DEF AppSound
    <3> QED
      BY <2>1, <3>2, TreeClosed
  <2>6. AppSound(b) /\ b.query = a.query
    BY <2>2, <2>3, <2>5, FoldedSound
  <2> QED
    BY <2>4, <2>6
<1> QED
  BY <1>1, <1>2, <1>3, <1>4, <1>5

\* The jump to an agent that waits for its user opens the folds around it.
LEMMA AttendSound ==
  ASSUME NEW a, AppSound(a), NEW forward
  PROVE  AppSound(Tui!SelectAttention(a, forward)) /\ Tui!SelectAttention(a, forward).query = a.query
<1>1. \E id, open :
        \/ Tui!SelectAttention(a, forward) = a
        \/ Tui!SelectAttention(a, forward) = Tui!PutOn(Tui!Reflatten([a EXCEPT !.expanded = a.expanded \cup open]), id)
  BY Zenon DEF Tui!SelectAttention
<1>2. PICK id, open :
        \/ Tui!SelectAttention(a, forward) = a
        \/ Tui!SelectAttention(a, forward) = Tui!PutOn(Tui!Reflatten([a EXCEPT !.expanded = a.expanded \cup open]), id)
  BY <1>1
<1>3. PICK c : c = [a EXCEPT !.expanded = a.expanded \cup open]
  OBVIOUS
<1>4. PICK b : b = Tui!Reflatten(c)
  OBVIOUS
<1>5. PICK d : d = Tui!PutOn(b, id)
  OBVIOUS
<1>6. Opened(a.tree, a.expanded) \subseteq Opened(a.tree, a.expanded \cup open)
  BY DEF Opened
<1>7. AppSound(d) /\ d.query = a.query
  BY <1>3, <1>4, <1>5, <1>6, FoldedSound
<1>8. Tui!SelectAttention(a, forward) \in {a, d}
  BY <1>2, <1>3, <1>4, <1>5, Zenon
<1> QED
  BY <1>7, <1>8

\* j, k, gg, G and Ctrl-d move the cursor to a row.
LEMMA MoveSound ==
  ASSUME NEW a, AppSound(a), NEW n \in Nat \ {0},
         NEW b, b \in {Tui!SelectDown(a, n), Tui!SelectUp(a, n), Tui!GoTo(a, n)}
  PROVE  AppSound(b) /\ b.query = a.query
<1>1. a.rows = Tui!Flatten(a.tree, a.expanded) /\ IsFiniteSet(a.tree) /\ a.sel \in 1 .. LastRow(a.rows) /\ DOMAIN a = AppFields
  BY DEF AppSound, Flat, OnScreen
<1>2. PICK m \in Nat : m = Len(a.rows) /\ (a.rows = <<>> <=> m = 0)
  <2>1. PICK nodes : nodes = Opened(a.tree, a.expanded)
    OBVIOUS
  <2>2. IsFiniteSet(nodes)
    BY <1>1, <2>1, FS_Subset DEF Opened
  <2>3. a.rows = Tui!InOrder(nodes)
    BY <1>1, <2>1 DEF Tui!Flatten, Opened
  <2> QED
    BY <2>2, <2>3, RowsCount
<1>3. LastRow(a.rows) = IF m = 0 THEN 1 ELSE m
  BY <1>2 DEF LastRow
<1>4. a.sel \in Nat \ {0} /\ a.sel <= LastRow(a.rows)
  BY <1>1, <1>3
<1>5. PICK k \in 1 .. LastRow(a.rows) : b = [a EXCEPT !.sel = k]
  <2>1. ASSUME NEW i \in Nat \ {0}, b = Tui!GoTo(a, i)  PROVE \E k \in 1 .. LastRow(a.rows) : b = [a EXCEPT !.sel = k]
    <3>1. PICK k : k = IF m = 0 THEN 1 ELSE IF i < m THEN i ELSE m
      OBVIOUS
    <3>2. b = [a EXCEPT !.sel = k]
      BY <1>2, <2>1, <3>1 DEF Tui!GoTo
    <3>3. k \in 1 .. LastRow(a.rows)
      BY <1>3, <3>1
    <3> QED
      BY <3>2, <3>3
  <2>2. CASE b = Tui!SelectUp(a, n)
    <3>1. PICK k : k = IF a.sel > n THEN a.sel - n ELSE 1
      OBVIOUS
    <3>2. b = [a EXCEPT !.sel = k]
      BY <2>2, <3>1 DEF Tui!SelectUp
    <3>3. k \in 1 .. LastRow(a.rows)
      BY <1>3, <1>4, <3>1
    <3> QED
      BY <3>2, <3>3
  <2>3. CASE b = Tui!SelectDown(a, n)
    <3>1. a.sel + n \in Nat \ {0}
      BY <1>4
    <3> QED
      BY <2>1, <2>3, <3>1 DEF Tui!SelectDown
  <2> QED
    BY <2>1, <2>2, <2>3
<1>6. DOMAIN b = AppFields /\ Kept(a, b) /\ b.rows = a.rows /\ b.expanded = a.expanded /\ b.sel = k
  BY <1>1, <1>5 DEF AppFields, Kept
<1>7. b.rows = Tui!Flatten(b.tree, b.expanded) /\ OnScreen(b)
  BY <1>1, <1>6 DEF Kept, OnScreen
<1> QED
  BY <1>6, <1>7, MovedSound DEF Kept

\* What rebuild_tree needs of the App.
Rebuildable(a) ==
  /\ DOMAIN a = AppFields /\ ViewsSound(a.sessions) /\ a.query \in Nat /\ a.sel \in Nat \ {0}
  /\ a.output \in {0, a.target}

\* A sound App has it.
LEMMA SoundRebuildable ==
  ASSUME NEW a, AppSound(a)
  PROVE  Rebuildable(a) /\ a.saved.on = (a.query > 0)
<1>1. a.rows = Tui!Flatten(a.tree, a.expanded) /\ IsFiniteSet(a.tree) /\ a.sel \in 1 .. LastRow(a.rows)
  BY DEF AppSound, Flat, OnScreen
<1>2. LastRow(a.rows) \in Nat
  BY <1>1, RowsGrow
<1> QED
  BY <1>1, <1>2 DEF AppSound, Rebuildable

\* A filter that grows or shrinks: the folds of before it are kept aside, and the tree is opened.
LEMMA FilterSound ==
  ASSUME NEW a, Rebuildable(a), a.query > 0, a.saved.on \in BOOLEAN
  PROVE  AppSound(Tui!ApplyFilterChange(a)) /\ Tui!ApplyFilterChange(a).query = a.query
<1>1. PICK folds : folds = [on |-> TRUE, ids |-> a.expanded, all |-> a.tree = {}]
  OBVIOUS
<1>2. folds.on = TRUE
  BY <1>1
<1>3. PICK kept : kept = IF a.saved.on THEN a ELSE [a EXCEPT !.saved = folds]
  OBVIOUS
<1>4. Rebuildable(kept) /\ kept.query = a.query /\ kept.saved.on = TRUE
  BY <1>2, <1>3 DEF Rebuildable, AppFields
<1>5. kept.saved.on = (kept.query > 0)
  BY <1>4
<1>6. PICK new : new = Tui!Rebuild(kept)
  OBVIOUS
<1>7. AppSound(new) /\ new.query = a.query
  BY <1>4, <1>5, <1>6, Rebuilt DEF Rebuildable
<1>8. PICK c : c = [new EXCEPT !.expanded = new.expanded \cup Tui!AllNodeIds(new.tree)]
  OBVIOUS
<1>9. PICK b : b = Tui!Reflatten(c)
  OBVIOUS
<1>10. PICK d : d = Tui!FirstMatch(b)
  OBVIOUS
<1>11. AppSound(Tui!Clamp(d)) /\ Tui!Clamp(d).query = a.query
  BY <1>7, <1>8, <1>9, <1>10, FoldedSound
<1>12. Tui!ApplyFilterChange(a) = Tui!Clamp(d)
  BY <1>1, <1>3, <1>6, <1>8, <1>9, <1>10 DEF Tui!ApplyFilterChange
<1> QED
  BY <1>11, <1>12

\* A sound App, then the folds around a node opened and the cursor put on it.
Ended(e, id) ==
  \E new, open, c, b, d :
    /\ AppSound(new) /\ Tui!Ancestors(Tui!PathTo(new.tree, id)) \subseteq open
    /\ c = [new EXCEPT !.expanded = open] /\ b = Tui!Reflatten(c) /\ d = Tui!PutOn(b, id) /\ e = Tui!Clamp(d)

\* A filter that ends: the folds come back, the cursor's opened.
LEMMA FilterEndIs ==
  ASSUME NEW a, Rebuildable(a), a.query = 0, a.saved.on = TRUE,
         NEW id, id = IF Tui!Cursor(a) = Tui!NoNode THEN a.last ELSE Tui!Cursor(a)
  PROVE  Ended(Tui!EndFilter(a), id)
<1>2. PICK k : k = [a EXCEPT !.saved = Tui!NoFolds]
  OBVIOUS
<1>3. Rebuildable(k) /\ k.query = 0 /\ k.saved.on = FALSE
  BY <1>2 DEF Rebuildable, AppFields, Tui!NoFolds
<1>4. k.saved.on = (k.query > 0)
  <2>1. (k.query > 0) = FALSE
    BY <1>3
  <2> QED
    BY <1>3, <2>1, Zenon
<1>5. PICK new : new = Tui!Rebuild(k)
  OBVIOUS
<1>6. AppSound(new)
  BY <1>3, <1>4, <1>5, Rebuilt DEF Rebuildable
<1>7. PICK open : open = (IF a.saved.all THEN Tui!AllNodeIds(new.tree) ELSE a.saved.ids)
                           \cup Tui!Ancestors(Tui!PathTo(new.tree, id))
  OBVIOUS
<1>8. PICK c : c = [new EXCEPT !.expanded = open]
  OBVIOUS
<1>9. PICK b : b = Tui!Reflatten(c)
  OBVIOUS
<1>10. PICK d : d = Tui!PutOn(b, id)
  OBVIOUS
<1>11. Tui!EndFilter(a) = Tui!Clamp(d)
  BY <1>2, <1>5, <1>7, <1>8, <1>9, <1>10 DEF Tui!EndFilter
<1> QED
  BY <1>6, <1>7, <1>8, <1>9, <1>10, <1>11 DEF Ended

\* The App stays sound.
LEMMA FilterEnds ==
  ASSUME NEW a, Rebuildable(a), a.query = 0, a.saved.on = TRUE
  PROVE  AppSound(Tui!EndFilter(a))
<1>1. PICK id : id = IF Tui!Cursor(a) = Tui!NoNode THEN a.last ELSE Tui!Cursor(a)
  OBVIOUS
<1>2. Ended(Tui!EndFilter(a), id)
  BY <1>1, FilterEndIs
<1>3. PICK new, open, c, b, d :
        /\ AppSound(new) /\ c = [new EXCEPT !.expanded = open] /\ b = Tui!Reflatten(c) /\ d = Tui!PutOn(b, id)
        /\ Tui!EndFilter(a) = Tui!Clamp(d)
  BY <1>2 DEF Ended
<1>4. AppSound(Tui!Clamp(d))
  BY <1>3, FoldedSound
<1> QED
  BY <1>3, <1>4

\* The keys of the filter.
LEMMA QuerySound ==
  ASSUME NEW a, AppSound(a)
  PROVE  /\ AppSound(Tui!ApplyFilterChange([a EXCEPT !.query = @ + 1]))
         /\ AppSound(Tui!PopSearchChar(a)) /\ AppSound(Tui!ClearFilter(a))
<1>1. Rebuildable(a) /\ a.saved.on = (a.query > 0) /\ DOMAIN a = AppFields /\ a.query \in Nat
  BY SoundRebuildable DEF AppSound
<1>2. a.saved.on \in BOOLEAN
  BY <1>1
<1>3. AppSound(Tui!ApplyFilterChange([a EXCEPT !.query = @ + 1]))
  <2>1. PICK b : b = [a EXCEPT !.query = @ + 1]
    OBVIOUS
  <2>2. Rebuildable(b) /\ b.query > 0 /\ b.saved = a.saved
    BY <1>1, <2>1 DEF Rebuildable, AppFields
  <2>3. AppSound(Tui!ApplyFilterChange(b))
    BY <1>2, <2>2, FilterSound
  <2> QED
    BY <2>1, <2>3
<1>4. AppSound(Tui!PopSearchChar(a))
  <2>1. CASE a.query = 0
    BY <2>1 DEF Tui!PopSearchChar
  <2>2. CASE a.query # 0
    <3>1. PICK b : b = [a EXCEPT !.query = @ - 1]
      OBVIOUS
    <3>2. Rebuildable(b) /\ b.query = a.query - 1 /\ b.query \in Nat /\ b.saved = a.saved
      BY <1>1, <2>2, <3>1 DEF Rebuildable, AppFields
    <3>3. a.saved.on = TRUE
      <4>1. a.query > 0
        BY <1>1, <2>2
      <4> QED
        BY <1>1, <4>1, Zenon
    <3>4. Tui!PopSearchChar(a) = IF b.query = 0 THEN Tui!EndFilter(b) ELSE Tui!ApplyFilterChange(b)
      BY <2>2, <3>1 DEF Tui!PopSearchChar
    <3>5. CASE b.query = 0
      <4>1. AppSound(Tui!EndFilter(b))
        BY <3>2, <3>3, <3>5, FilterEnds
      <4> QED
        BY <3>4, <3>5, <4>1
    <3>6. CASE b.query # 0
      <4>1. b.query > 0
        <5>1. b.query \in Nat
          BY <3>2
        <5> QED
          BY ONLY <3>6, <5>1
      <4>2. b.saved.on \in BOOLEAN
        BY <1>2, <3>2
      <4>3. AppSound(Tui!ApplyFilterChange(b))
        BY <3>2, <4>1, <4>2, FilterSound
      <4> QED
        BY <3>4, <3>6, <4>3
    <3> QED
      BY <3>5, <3>6
  <2> QED
    BY <2>1, <2>2
<1>5. AppSound(Tui!ClearFilter(a))
  <2>1. PICK b : b = [a EXCEPT !.searching = FALSE, !.query = 0]
    OBVIOUS
  <2>2. Rebuildable(b) /\ b.query = 0 /\ b.saved = a.saved
    BY <1>1, <2>1 DEF Rebuildable, AppFields
  <2>3. CASE a.query > 0
    <3>1. AppSound(Tui!EndFilter(b))
      BY <1>1, <2>2, <2>3, FilterEnds
    <3> QED
      BY <2>1, <3>1 DEF Tui!ClearFilter
  <2>4. CASE ~ a.query > 0
    <3>1. Tui!EndFilter(b) = b
      BY <1>1, <2>2, <2>4 DEF Tui!EndFilter
    <3>2. Kept(a, b) /\ DOMAIN b = AppFields /\ b.rows = a.rows /\ b.expanded = a.expanded /\ b.sel = a.sel
      BY <1>1, <2>1, <2>4 DEF Kept, AppFields
    <3>3. b.rows = Tui!Flatten(b.tree, b.expanded) /\ OnScreen(b)
      BY <3>2 DEF AppSound, Flat, Kept, OnScreen
    <3>4. AppSound(b)
      BY <3>2, <3>3, MovedSound
    <3> QED
      BY <2>1, <3>1, <3>4 DEF Tui!ClearFilter
  <2> QED
    BY <2>3, <2>4
<1> QED
  BY <1>3, <1>4, <1>5

\* A new list, or a new scope.
LEMMA NewsSound ==
  ASSUME NEW a, AppSound(a), NEW b, DOMAIN b = AppFields, ViewsSound(b.sessions), b.query = a.query, b.sel = a.sel,
         b.output = a.output, b.target = a.target, b.saved = a.saved
  PROVE  AppSound(Tui!Rebuild(b)) /\ Tui!Rebuild(b).query = a.query
<1>1. Rebuildable(b) /\ b.saved.on = (b.query > 0)
  BY SoundRebuildable DEF Rebuildable
<1> QED
  BY <1>1, Rebuilt DEF Rebuildable

\* What no row depends on may change.
LEMMA TouchSound ==
  ASSUME NEW a, AppSound(a), NEW x, NEW b,
         b \in {[a EXCEPT !.help = x], [a EXCEPT !.searching = x], [a EXCEPT !.state = x]}
  PROVE  AppSound(b) /\ b.query = a.query
<1>1. DOMAIN a = AppFields
  BY DEF AppSound
<1>2. Kept(a, b) /\ DOMAIN b = AppFields /\ b.rows = a.rows /\ b.expanded = a.expanded /\ b.sel = a.sel
  BY <1>1 DEF Kept, AppFields
<1>3. b.rows = Tui!Flatten(b.tree, b.expanded) /\ OnScreen(b)
  BY <1>2 DEF AppSound, Flat, Kept, OnScreen
<1> QED
  BY <1>2, <1>3, MovedSound DEF Kept

\* The capture task's target is the pane of the agent under the cursor.
ScreenInv == AppSound(v1) /\ v1.target = Tui!Pane(v1, Tui!SelectedSession(v1))

\* Each frame points the capture task at the selection, and drops what it read of another.
LEMMA FrameSound ==
  ASSUME NEW a, AppSound(a), v1' = Tui!Frame(a)
  PROVE  ScreenInv' /\ v1'.query = a.query
<1>1. PICK pane : pane = Tui!Pane(a, Tui!SelectedSession(a))
  OBVIOUS
<1>2. PICK b : b = Tui!Frame(a)
  OBVIOUS
<1>3. b = IF a.target = pane THEN a ELSE [a EXCEPT !.target = pane, !.output = 0]
  BY <1>1, <1>2 DEF Tui!Frame
<1>4. DOMAIN a = AppFields
  BY DEF AppSound
<1>5. /\ DOMAIN b = AppFields /\ b.sessions = a.sessions /\ b.scoped = a.scoped /\ b.panes = a.panes /\ b.query = a.query
      /\ b.tree = a.tree /\ b.matches = a.matches /\ b.saved = a.saved /\ b.rows = a.rows /\ b.expanded = a.expanded
      /\ b.sel = a.sel /\ b.target = pane
  BY <1>3, <1>4 DEF AppFields
<1>6. b.output \in {0, b.target}
  BY <1>3, <1>4 DEF AppFields, AppSound
<1>7. Tui!Shown(b) = Tui!Shown(a)
  BY <1>5, ShownSame
<1>8. AppSound(b)
  BY <1>5, <1>6, <1>7 DEF AppSound, Flat, OnScreen
<1>9. Tui!Pane(b, Tui!SelectedSession(b)) = pane
  BY <1>1, <1>5 DEF Tui!Pane, Tui!SelectedSession, Tui!Cursor
<1>10. v1' = b
  BY <1>2
<1> QED
  BY <1>5, <1>8, <1>9, <1>10 DEF ScreenInv

\* The App starts with an empty tree.
LEMMA ScreenInit == Tui!Init => ScreenInv
<1> SUFFICES ASSUME Tui!Init  PROVE ScreenInv
  OBVIOUS
<1>1. PICK scoped \in BOOLEAN : v1 = Tui!Start(scoped)
  BY DEF Tui!Init
<1>2. PICK none : none = [s \in {} |-> {}]
  OBVIOUS
<1>3. /\ DOMAIN v1 = AppFields /\ v1.sessions = none /\ v1.scoped = scoped /\ v1.tree = {} /\ v1.rows = <<>>
      /\ v1.expanded = {} /\ v1.sel = 1 /\ v1.query = 0 /\ v1.target = 0 /\ v1.output = 0
      /\ v1.matches.on = FALSE /\ v1.saved.on = FALSE
  BY <1>1, <1>2 DEF Tui!Start, Tui!NoFolds, AppFields
<1>4. DOMAIN none = {} /\ ViewsSound(none)
  BY <1>2 DEF ViewsSound
<1>5. PICK w : w = Tui!Shown(v1)
  OBVIOUS
<1>6. DOMAIN w = {} /\ ViewsSound(w)
  <2>1. w = Tui!InScope(v1)
    BY <1>3, <1>5 DEF Tui!Shown
  <2>2. DOMAIN w = {}
    BY <1>3, <1>4, <2>1 DEF Tui!InScope
  <2> QED
    BY <2>2 DEF ViewsSound
<1>7. v1.tree = Tui!BuildTree(w)
  <2>1. ASSUME NEW p \in Tui!BuildTree(w)  PROVE FALSE
    <3>1. PICK l : Line(w, l)
      BY <1>6, <2>1, TreeIs
    <3> QED
      BY <1>6, <3>1 DEF Line, Tui!TopLevel
  <2> QED
    BY <1>3, <2>1
<1>8. Flat(v1)
  <2>1. IsFiniteSet({}) /\ Cardinality({}) = 0
    BY FS_EmptySet
  <2>2. Tui!Flatten({}, {}) = Tui!InOrder({})
    BY DEF Tui!Flatten
  <2>3. Tui!InOrder({}) = <<>>
    BY <2>1, RowsCount
  <2> QED
    BY <1>3, <2>1, <2>2, <2>3 DEF Flat
<1>9. OnScreen(v1)
  BY <1>3 DEF OnScreen, LastRow
<1>10. v1.matches.on = (v1.query > 0) /\ v1.saved.on = (v1.query > 0)
  <2>1. (v1.query > 0) = FALSE
    BY <1>3
  <2> QED
    BY <1>3, <2>1, Zenon
<1>11. Tui!SelectedSession(v1) = 0
  BY <1>3 DEF Tui!SelectedSession, Tui!Cursor, Tui!NoNode
<1>12. v1.target = Tui!Pane(v1, Tui!SelectedSession(v1))
  BY <1>3, <1>11 DEF Tui!Pane
<1> QED
  BY <1>3, <1>4, <1>5, <1>7, <1>8, <1>9, <1>10, <1>12 DEF ScreenInv, AppSound

\* What the user types.
LEMMA UserSound ==
  ASSUME ScreenInv,
         \/ Tui!ToggleHelp \/ Tui!StartSearch \/ Tui!TypeChar \/ Tui!Backspace \/ Tui!ConfirmSearch
         \/ Tui!EscapeFilter \/ Tui!Move \/ Tui!Attend \/ Tui!Fold \/ Tui!Jump \/ Tui!Quit
  PROVE  ScreenInv' /\ (v1'.query = v1.query \/ Tui!TypeChar \/ Tui!Backspace \/ Tui!EscapeFilter)
<1>1. AppSound(v1)
  BY DEF ScreenInv
<1>2. CASE Tui!ToggleHelp
  <2>1. v1' = Tui!Frame([v1 EXCEPT !.help = ~ @])
    BY <1>2 DEF Tui!ToggleHelp, Tui!User
  <2>2. PICK b : b = [v1 EXCEPT !.help = ~ @]
    OBVIOUS
  <2>3. AppSound(b) /\ b.query = v1.query
    BY <1>1, <2>2, TouchSound
  <2> QED
    BY <2>1, <2>2, <2>3, FrameSound
<1>3. CASE Tui!StartSearch \/ Tui!ConfirmSearch
  <2>1. PICK x : v1' = Tui!Frame([v1 EXCEPT !.searching = x])
    BY <1>3 DEF Tui!StartSearch, Tui!ConfirmSearch, Tui!User
  <2>2. PICK b : b = [v1 EXCEPT !.searching = x]
    OBVIOUS
  <2>3. AppSound(b) /\ b.query = v1.query
    BY <1>1, <2>2, TouchSound
  <2> QED
    BY <2>1, <2>2, <2>3, FrameSound
<1>4. CASE Tui!TypeChar \/ Tui!Backspace \/ Tui!EscapeFilter
  <2>1. \/ v1' = Tui!Frame(Tui!ApplyFilterChange([v1 EXCEPT !.query = @ + 1]))
        \/ v1' = Tui!Frame(Tui!PopSearchChar(v1)) \/ v1' = Tui!Frame(Tui!ClearFilter(v1))
    BY <1>4 DEF Tui!TypeChar, Tui!Backspace, Tui!EscapeFilter, Tui!User
  <2>2. /\ AppSound(Tui!ApplyFilterChange([v1 EXCEPT !.query = @ + 1]))
        /\ AppSound(Tui!PopSearchChar(v1)) /\ AppSound(Tui!ClearFilter(v1))
    BY <1>1, QuerySound
  <2>3. PICK b : v1' = Tui!Frame(b) /\ AppSound(b)
    BY <2>1, <2>2
  <2> QED
    BY <1>4, <2>3, FrameSound
<1>5. CASE Tui!Move
  <2>1. PICK n \in 1 .. 2 : \/ v1' = Tui!Frame(Tui!SelectDown(v1, n)) \/ v1' = Tui!Frame(Tui!SelectUp(v1, n))
                            \/ v1' = Tui!Frame(Tui!GoTo(v1, n))
    BY <1>5 DEF Tui!Move, Tui!User
  <2>2. PICK b : v1' = Tui!Frame(b) /\ b \in {Tui!SelectDown(v1, n), Tui!SelectUp(v1, n), Tui!GoTo(v1, n)}
    BY <2>1
  <2>3. AppSound(b) /\ b.query = v1.query
    BY <1>1, <2>2, MoveSound
  <2> QED
    BY <2>2, <2>3, FrameSound
<1>6. CASE Tui!Attend
  <2>1. PICK forward \in BOOLEAN : v1' = Tui!Frame(Tui!SelectAttention(v1, forward))
    BY <1>6 DEF Tui!Attend, Tui!User
  <2>2. AppSound(Tui!SelectAttention(v1, forward)) /\ Tui!SelectAttention(v1, forward).query = v1.query
    BY <1>1, AttendSound
  <2> QED
    BY <2>1, <2>2, FrameSound
<1>7. CASE Tui!Fold
  <2>1. \/ v1' = Tui!Frame(Tui!OpenFold(v1)) \/ v1' = Tui!Frame(Tui!CloseFold(v1)) \/ v1' = Tui!Frame(Tui!ToggleFold(v1))
        \/ v1' = Tui!Frame(Tui!CollapseAll(v1)) \/ v1' = Tui!Frame(Tui!ExpandAll(v1))
    BY <1>7 DEF Tui!Fold, Tui!User
  <2>2. PICK b : /\ v1' = Tui!Frame(b)
                 /\ b \in {Tui!OpenFold(v1), Tui!CloseFold(v1), Tui!ToggleFold(v1), Tui!CollapseAll(v1), Tui!ExpandAll(v1)}
    BY <2>1
  <2>3. AppSound(b) /\ b.query = v1.query
    BY <1>1, <2>2, FoldsSound
  <2> QED
    BY <2>2, <2>3, FrameSound
<1>8. CASE Tui!Jump
  <2>1. v1' = v1 \/ v1' = Tui!Frame(Tui!ToggleFold(v1))
    BY <1>8 DEF Tui!Jump
  <2>2. AppSound(Tui!ToggleFold(v1)) /\ Tui!ToggleFold(v1).query = v1.query
    BY <1>1, FoldsSound
  <2>3. CASE v1' = v1
    BY <2>3 DEF ScreenInv
  <2> QED
    BY <2>1, <2>2, <2>3, FrameSound
<1>9. CASE Tui!Quit
  <2>1. v1' = v1
    BY <1>9 DEF Tui!Quit
  <2> QED
    BY <2>1 DEF ScreenInv
<1> QED
  BY <1>2, <1>3, <1>4, <1>5, <1>6, <1>7, <1>8, <1>9

\* The App with a list or a scope that is new.
Renewed(a, c) ==
  /\ DOMAIN c = AppFields /\ ViewsSound(c.sessions)
  /\ c.query = a.query /\ c.sel = a.sel /\ c.output = a.output /\ c.target = a.target /\ c.saved = a.saved
  /\ c.tree = a.tree /\ c.expanded = a.expanded /\ c.matches = a.matches

\* What the daemon and the poll of the panes tell makes it rebuild its tree.
LEMMA ToldIs ==
  ASSUME ScreenInv,
         Tui!ReplaceSessions \/ Tui!UpdateSession \/ Tui!RemoveSession \/ Tui!FilterUpdate
  PROVE  \E c : Renewed(v1, c) /\ v1' = Tui!Frame(Tui!Rebuild(c))
<1>1. AppSound(v1) /\ DOMAIN v1 = AppFields /\ ViewsSound(v1.sessions)
  BY DEF ScreenInv, AppSound
<1>2. CASE Tui!ReplaceSessions
  <2>1. PICK list \in Tui!Lists : v1' = Tui!Frame(Tui!Rebuild([v1 EXCEPT !.sessions = list, !.state = "connected"]))
    BY <1>2 DEF Tui!ReplaceSessions, Tui!News
  <2>2. ViewsSound(list)
    BY DEF Tui!Lists, ViewsSound
  <2>3. PICK b : b = [v1 EXCEPT !.sessions = list, !.state = "connected"]
    OBVIOUS
  <2>4. Renewed(v1, b)
    BY <1>1, <2>2, <2>3 DEF AppFields, Renewed
  <2> QED
    BY <2>1, <2>3, <2>4
<1>3. CASE Tui!UpdateSession
  <2>1. PICK s, v :
          /\ s \in TuiSessions /\ v \in Views(s)
          /\ v1' = Tui!Frame(Tui!Rebuild(
                  [v1 EXCEPT !.sessions = [t \in DOMAIN @ \cup {s} |-> IF t = s THEN v ELSE v1.sessions[t]],
                             !.state = "connected"]))
    BY <1>3 DEF Tui!UpdateSession, Tui!News
  <2>2. PICK list : list = [t \in DOMAIN v1.sessions \cup {s} |-> IF t = s THEN v ELSE v1.sessions[t]]
    OBVIOUS
  <2>3. ViewsSound(list)
    BY <1>1, <2>1, <2>2 DEF ViewsSound
  <2>4. PICK b : b = [v1 EXCEPT !.sessions = list, !.state = "connected"]
    OBVIOUS
  <2>5. Renewed(v1, b)
    BY <1>1, <2>3, <2>4 DEF AppFields, Renewed
  <2> QED
    BY <2>1, <2>2, <2>4, <2>5
<1>4. CASE Tui!RemoveSession
  <2>1. PICK s \in DOMAIN v1.sessions :
          v1' = Tui!Frame(Tui!Rebuild([v1 EXCEPT !.sessions = [t \in DOMAIN @ \ {s} |-> v1.sessions[t]]]))
    BY <1>4 DEF Tui!RemoveSession, Tui!News
  <2>2. PICK list : list = [t \in DOMAIN v1.sessions \ {s} |-> v1.sessions[t]]
    OBVIOUS
  <2>3. ViewsSound(list)
    BY <1>1, <2>2 DEF ViewsSound
  <2>4. PICK b : b = [v1 EXCEPT !.sessions = list]
    OBVIOUS
  <2>5. Renewed(v1, b)
    BY <1>1, <2>3, <2>4 DEF AppFields, Renewed
  <2> QED
    BY <2>1, <2>2, <2>4, <2>5
<1>5. CASE Tui!FilterUpdate
  <2>1. PICK panes \in SUBSET Tui!Panes : v1' = Tui!Frame(Tui!Rebuild([v1 EXCEPT !.panes = panes]))
    BY <1>5 DEF Tui!FilterUpdate, Tui!News
  <2>2. PICK b : b = [v1 EXCEPT !.panes = panes]
    OBVIOUS
  <2>3. Renewed(v1, b)
    BY <1>1, <2>2 DEF AppFields, Renewed
  <2> QED
    BY <2>1, <2>2, <2>3
<1> QED
  BY <1>2, <1>3, <1>4, <1>5

\* So the screen follows what is told.
LEMMA ToldSound ==
  ASSUME ScreenInv,
         \/ Tui!ReplaceSessions \/ Tui!UpdateSession \/ Tui!RemoveSession \/ Tui!FilterUpdate \/ Tui!DaemonDisconnected
  PROVE  ScreenInv' /\ v1'.query = v1.query
<1>1. AppSound(v1)
  BY DEF ScreenInv
<1>2. CASE Tui!DaemonDisconnected
  <2>1. PICK b : b = [v1 EXCEPT !.state = "lost"]
    OBVIOUS
  <2>2. v1' = Tui!Frame(b)
    BY <1>2, <2>1 DEF Tui!DaemonDisconnected, Tui!News
  <2>3. AppSound(b) /\ b.query = v1.query
    BY <1>1, <2>1, TouchSound
  <2> QED
    BY <2>2, <2>3, FrameSound
<1>3. CASE Tui!ReplaceSessions \/ Tui!UpdateSession \/ Tui!RemoveSession \/ Tui!FilterUpdate
  <2>1. PICK c : Renewed(v1, c) /\ v1' = Tui!Frame(Tui!Rebuild(c))
    BY <1>3, ToldIs
  <2>2. AppSound(Tui!Rebuild(c)) /\ Tui!Rebuild(c).query = v1.query
    BY <1>1, <2>1, NewsSound DEF Renewed
  <2> QED
    BY <2>1, <2>2, FrameSound
<1> QED
  BY <1>2, <1>3

\* A capture that is late is of another pane than the target, and shown by nobody.
LEMMA CaptureSound ==
  ASSUME ScreenInv, Tui!CaptureUpdate
  PROVE  ScreenInv' /\ v1'.query = v1.query
<1>1. AppSound(v1) /\ DOMAIN v1 = AppFields
  BY DEF ScreenInv, AppSound
<1>2. PICK b : b = IF v1.target = v3 THEN [v1 EXCEPT !.output = v3] ELSE v1
  OBVIOUS
<1>3. v1' = Tui!Frame(b)
  BY <1>2 DEF Tui!CaptureUpdate, Tui!UpdateCapture
<1>4. /\ DOMAIN b = AppFields /\ b.sessions = v1.sessions /\ b.scoped = v1.scoped /\ b.panes = v1.panes
      /\ b.query = v1.query /\ b.tree = v1.tree /\ b.matches = v1.matches /\ b.saved = v1.saved /\ b.rows = v1.rows
      /\ b.expanded = v1.expanded /\ b.sel = v1.sel /\ b.target = v1.target
  BY <1>1, <1>2 DEF AppFields
<1>5. b.output \in {0, b.target}
  BY <1>1, <1>2 DEF AppFields, AppSound
<1>6. Tui!Shown(b) = Tui!Shown(v1)
  BY <1>4, ShownSame
<1>7. AppSound(b)
  BY <1>1, <1>4, <1>5, <1>6 DEF AppSound, Flat, OnScreen
<1> QED
  BY <1>3, <1>4, <1>7, FrameSound

\* Whatever the user, the daemon and tmux do.
LEMMA ScreenKeepsInv ==
  ASSUME ScreenInv, [Tui!Next]_<<v1, v2, v3, v4, v5, v6>>
  PROVE  ScreenInv'
<1>1. CASE UNCHANGED <<v1, v2, v3, v4, v5, v6>>
  BY <1>1 DEF ScreenInv
<1>2. CASE Tui!CaptureStart \/ Tui!CaptureEnd
  <2>1. v1' = v1
    BY <1>2 DEF Tui!CaptureStart, Tui!CaptureEnd
  <2> QED
    BY <2>1 DEF ScreenInv
<1> QED
  BY <1>1, <1>2, UserSound, ToldSound, CaptureSound DEF Tui!Next

\* The rows are the tree's, the preview is the selected agent's, and each agent is there once.
LEMMA ScreenShown == ScreenInv => Tui!ScreenCurrent /\ Tui!PreviewIsSelected /\ Tui!EachAgentOnce
<1> SUFFICES ASSUME ScreenInv  PROVE Tui!ScreenCurrent /\ Tui!PreviewIsSelected /\ Tui!EachAgentOnce
  OBVIOUS
<1>1. AppSound(v1)
  BY DEF ScreenInv
<1>2. Tui!ScreenCurrent
  BY <1>1 DEF AppSound, Flat, OnScreen, LastRow, Tui!ScreenCurrent
<1>3. Tui!PreviewIsSelected
  BY DEF ScreenInv, AppSound, Tui!PreviewIsSelected
<1>4. PICK w : w = Tui!Shown(v1)
  OBVIOUS
<1>5. ViewsSound(w) /\ v1.tree = Tui!BuildTree(w)
  BY <1>1, <1>4, ShownSound DEF AppSound
<1>6. ASSUME NEW s \in DOMAIN w
      PROVE  Tui!Cardinality({p \in v1.tree : Tui!NodeId(p) = <<"agent", s>>}) = 1
  <2>1. PICK T : T = {p \in v1.tree : Tui!NodeId(p) = <<"agent", s>>}
    OBVIOUS
  <2>2. T = {p \in Tui!BuildTree(w) : Tui!NodeId(p) = <<"agent", s>>}
    BY <1>5, <2>1
  <2>3. Cardinality({p \in Tui!BuildTree(w) : Tui!NodeId(p) = <<"agent", s>>}) = 1
    BY <1>5, AgentOnce
  <2>4. Tui!Cardinality(T) = Cardinality(T)
    BY DEF Tui!Cardinality, Cardinality
  <2> QED
    BY <2>1, <2>2, <2>3, <2>4
<1>7. Tui!EachAgentOnce
  BY <1>4, <1>6 DEF Tui!EachAgentOnce
<1> QED
  BY <1>2, <1>3, <1>7

-----------------------------------------------------------------------------
(* What a filter promises.  Precedes is an order of a tree's nodes, so that   *)
(* its rows are its open nodes, each on one row; then what a list that comes  *)
(* and the end of the filter leave on the screen.                            *)

\* Precedes orders these nodes.
Ordered(nodes) ==
  /\ \A p, q \in nodes : p # q => (Tui!Precedes(p, q) <=> ~ Tui!Precedes(q, p))
  /\ \A p, q, r \in nodes :
       p # q /\ q # r /\ Tui!Precedes(p, q) /\ Tui!Precedes(q, r) => p # r /\ Tui!Precedes(p, r)

\* The rows are the nodes, each on one row.
LEMMA RowsAre ==
  ASSUME NEW nodes, IsFiniteSet(nodes), Ordered(nodes)
  PROVE  /\ Len(Tui!InOrder(nodes)) \in Nat
         /\ \A i \in 1 .. Len(Tui!InOrder(nodes)) : Tui!InOrder(nodes)[i] \in nodes
         /\ \A p \in nodes : \E i \in 1 .. Len(Tui!InOrder(nodes)) : Tui!InOrder(nodes)[i] = p
<1> DEFINE Below(p) == {q \in nodes : q # p /\ Tui!Precedes(q, p)}
<1>1. PICK n \in Nat : n = Cardinality(nodes)
  BY FS_CardinalityType
<1>2. \A p \in nodes : IsFiniteSet(Below(p)) /\ Cardinality(Below(p)) \in 0 .. n - 1
  <2> SUFFICES ASSUME NEW p \in nodes  PROVE IsFiniteSet(Below(p)) /\ Cardinality(Below(p)) \in 0 .. n - 1
    OBVIOUS
  <2>1. PICK B \in SUBSET nodes : B = Below(p)
    OBVIOUS
  <2>2. IsFiniteSet(B) /\ Cardinality(B) <= n /\ Cardinality(B) \in Nat
    BY <1>1, FS_Subset, FS_CardinalityType
  <2>3. B # nodes
    BY <2>1
  <2>4. Cardinality(B) # n
    BY <1>1, <2>3, FS_Subset
  <2> QED
    BY <1>1, <2>1, <2>2, <2>4
<1>3. ASSUME NEW p \in nodes, NEW q \in nodes, p # q, Tui!Precedes(p, q)
      PROVE  Cardinality(Below(p)) # Cardinality(Below(q))
  <2>1. PICK P : P = Below(p)
    OBVIOUS
  <2>2. PICK Q : Q = Below(q)
    OBVIOUS
  <2>3. P \in SUBSET Q
    <3> SUFFICES ASSUME NEW x \in P  PROVE x \in Q
      OBVIOUS
    <3>1. x \in nodes /\ x # p /\ Tui!Precedes(x, p)
      BY <2>1
    <3>2. x # q /\ Tui!Precedes(x, q)
      BY <1>3, <3>1 DEF Ordered
    <3> QED
      BY <2>2, <3>1, <3>2
  <2>4. p \in Q /\ p \notin P
    BY <1>3, <2>1, <2>2
  <2>5. IsFiniteSet(Q)
    BY <1>2, <2>2
  <2>6. P # Q
    BY <2>4
  <2>7. Cardinality(Q) # Cardinality(P)
    BY <2>3, <2>5, <2>6, FS_Subset
  <2> QED
    BY <2>1, <2>2, <2>7
<1>4. PICK place : place = [p \in nodes |-> Tui!Cardinality({q \in nodes : q # p /\ Tui!Precedes(q, p)})]
  OBVIOUS
<1>5. \A p \in nodes : place[p] = Cardinality(Below(p))
  BY <1>4 DEF Tui!Cardinality, Cardinality
<1> HIDE DEF Below
<1>6. place \in [nodes -> 0 .. n - 1]
  BY <1>2, <1>4, <1>5
<1>7. \A p, q \in nodes : p # q => place[p] # place[q]
  BY <1>3, <1>5 DEF Ordered
<1>8. place \in Injection(nodes, 0 .. n - 1)
  BY <1>6, <1>7, Fun_IsInj
<1>9. IsFiniteSet(0 .. n - 1) /\ Cardinality(0 .. n - 1) = n
  <2>1. PICK m \in Int : m = n - 1
    OBVIOUS
  <2>2. IsFiniteSet(0 .. m) /\ Cardinality(0 .. m) = IF 0 > m THEN 0 ELSE m - 0 + 1
    BY FS_Interval
  <2>3. (IF 0 > m THEN 0 ELSE m - 0 + 1) = n
    BY <2>1
  <2> QED
    BY <2>1, <2>2, <2>3
<1>10. place \in Surjection(nodes, 0 .. n - 1)
  BY <1>1, <1>8, <1>9, FS_Injection
<1>11. \A k \in 0 .. n - 1 : \E p \in nodes : place[p] = k
  BY <1>10 DEF Surjection
<1>12. PICK f : f = [i \in 1 .. n |-> CHOOSE p \in nodes : place[p] = i - 1]
  OBVIOUS
<1>13. \A i \in 1 .. n : f[i] \in nodes /\ place[f[i]] = i - 1
  <2> SUFFICES ASSUME NEW i \in 1 .. n  PROVE f[i] \in nodes /\ place[f[i]] = i - 1
    OBVIOUS
  <2>1. i - 1 \in 0 .. n - 1
    OBVIOUS
  <2>2. \E p \in nodes : place[p] = i - 1
    BY <1>11, <2>1
  <2>3. f[i] = CHOOSE p \in nodes : place[p] = i - 1
    BY <1>12
  <2> QED
    BY <2>2, <2>3
<1>14. \A p \in nodes : \E i \in 1 .. n : f[i] = p
  <2> SUFFICES ASSUME NEW p \in nodes  PROVE \E i \in 1 .. n : f[i] = p
    OBVIOUS
  <2>1. PICK k \in 0 .. n - 1 : k = place[p]
    BY <1>6
  <2>2. PICK i \in 1 .. n : i = k + 1
    OBVIOUS
  <2>3. f[i] \in nodes /\ place[f[i]] = place[p]
    BY <1>13, <2>1, <2>2
  <2> QED
    BY <1>7, <2>3
<1>15. PICK rows : rows = Tui!InOrder(nodes)
  OBVIOUS
<1>16. Tui!Cardinality(nodes) = n
  BY <1>1 DEF Tui!Cardinality, Cardinality
<1>17. rows = f
  BY <1>4, <1>12, <1>15, <1>16 DEF Tui!InOrder
<1>18. Len(f) = n
  BY <1>12
<1> QED
  BY <1>13, <1>14, <1>15, <1>17, <1>18

\* What is above the k-th node of a path.
Above(p, k) == IF k = 1 THEN <<"root", 0>> ELSE p[k - 1]

\* One path is earlier than another: it ends where the other goes on, or where they
\* part its node is sooner.
PartAt(p, q, k) ==
  /\ k <= Len(p) + 1 /\ (\A j \in 1 .. k - 1 : p[j] = q[j])
  /\ k = Len(p) + 1 \/ (p[k] # q[k] /\ Tui!Sooner(Above(p, k), p[k], q[k]))
Earlier(p, q) == \E k \in 1 .. Len(q) : PartAt(p, q, k)

\* The beginning of a sequence, of any length, has its elements.
LEMMA BeginsAs ==
  ASSUME NEW S, NEW s \in Seq(S), NEW m \in Nat, NEW j \in 1 .. m
  PROVE  SubSeq(s, 1, m)[j] = s[j]
OBVIOUS

\* Where two sequences part, or one of them ends.
LEMMA Parting ==
  ASSUME NEW S, NEW p \in Seq(S), NEW q \in Seq(S)
  PROVE  \E k \in 1 .. Len(p) + 1 :
           /\ k - 1 <= Len(q) /\ \A j \in 1 .. k - 1 : p[j] = q[j]
           /\ k > Len(p) \/ k > Len(q) \/ p[k] # q[k]
<1>1. PICK a \in Nat : a = Len(p)
  BY LenProperties
<1>2. PICK b \in Nat : b = Len(q)
  BY LenProperties
<1>3. PICK T : T = {n \in 1 .. a + 1 : n > a \/ n > b \/ p[n] # q[n]}
  OBVIOUS
<1>4. T \in SUBSET (1 .. a + 1) /\ a + 1 \in T
  BY <1>3
<1>5. PICK k \in T : \A j \in T : k <= j
  <2>1. PICK m \in Nat : m = a + 1
    OBVIOUS
  <2> QED
    BY <1>4, <2>1, FirstOne
<1>6. k \in 1 .. a + 1
  BY <1>4, <1>5
<1>7. \A j \in 1 .. k - 1 : j \in 1 .. a + 1 /\ j \notin T
  BY <1>5, <1>6
<1>8. \A j \in 1 .. k - 1 : j <= a /\ j <= b /\ p[j] = q[j]
  BY <1>3, <1>7
<1>9. k - 1 <= b
  BY <1>6, <1>8
<1>10. k > a \/ k > b \/ p[k] # q[k]
  BY <1>3, <1>5
<1> QED
  BY <1>1, <1>2, <1>6, <1>8, <1>9, <1>10

\* Precedes is that.
LEMMA PrecedesIs ==
  ASSUME NEW S, NEW p \in Seq(S), NEW q \in Seq(S)
  PROVE  Tui!Precedes(p, q) <=> Earlier(p, q)
<1> DEFINE C(n) == /\ SubSeq(p, 1, n - 1) = SubSeq(q, 1, n - 1)
                   /\ n > Len(p) \/ n > Len(q) \/ p[n] # q[n]
<1>1. PICK a \in Nat : a = Len(p)
  BY LenProperties
<1>2. PICK b \in Nat : b = Len(q)
  BY LenProperties
<1>3. PICK k \in 1 .. a + 1 :
        k - 1 <= b /\ (\A j \in 1 .. k - 1 : p[j] = q[j]) /\ (k > a \/ k > b \/ p[k] # q[k])
  BY <1>1, <1>2, Parting
<1>7. SubSeq(p, 1, k - 1) = SubSeq(q, 1, k - 1)
  <2>1. PICK u : u = SubSeq(p, 1, k - 1)
    OBVIOUS
  <2>2. PICK v : v = SubSeq(q, 1, k - 1)
    OBVIOUS
  <2>3. PICK m \in Nat : m = k - 1 /\ m <= a /\ m <= b
    BY <1>3
  <2>4. u \in Seq(S) /\ Len(u) = m /\ \A i \in 1 .. m : u[i] = p[i]
    BY <1>1, <2>1, <2>3, Prefix
  <2>5. v \in Seq(S) /\ Len(v) = m /\ \A i \in 1 .. m : v[i] = q[i]
    BY <1>2, <2>2, <2>3, Prefix
  <2>6. u = v
    BY <1>3, <2>3, <2>4, <2>5
  <2> QED
    BY <2>1, <2>2, <2>6
<1>8. C(k)
  BY <1>1, <1>2, <1>3, <1>7
<1>9. PICK i : i = CHOOSE n \in 1 .. Len(p) + 1 : C(n)
  OBVIOUS
<1>10. i \in 1 .. a + 1 /\ C(i)
  BY <1>1, <1>8, <1>9
<1>11. \A j \in 1 .. i - 1 : p[j] = q[j]
  <2> SUFFICES ASSUME NEW j \in 1 .. i - 1  PROVE p[j] = q[j]
    OBVIOUS
  <2>1. PICK m \in Nat : m = i - 1 /\ j \in 1 .. m
    BY <1>10
  <2>2. SubSeq(p, 1, m)[j] = p[j] /\ SubSeq(q, 1, m)[j] = q[j]
    BY <2>1, BeginsAs
  <2> QED
    BY <1>10, <2>1, <2>2
<1>12. i > a \/ i > b \/ p[i] # q[i]
  BY <1>1, <1>2, <1>10
<1> HIDE DEF C
<1>13. Tui!Precedes(p, q) <=> i <= b /\ (i > a \/ Tui!Sooner(Above(p, i), p[i], q[i]))
  <2>1. \A n : C(n) <=> SubSeq(p, 1, n - 1) = SubSeq(q, 1, n - 1) /\ (n > Len(p) \/ n > Len(q) \/ p[n] # q[n])
    BY DEF C
  <2>2. i = CHOOSE n \in 1 .. Len(p) + 1 :
             SubSeq(p, 1, n - 1) = SubSeq(q, 1, n - 1) /\ (n > Len(p) \/ n > Len(q) \/ p[n] # q[n])
    BY <1>9 DEF C
  <2> QED
    BY <1>1, <1>2, <2>2 DEF Tui!Precedes, Above
<1>14. ASSUME Tui!Precedes(p, q)  PROVE Earlier(p, q)
  <2>1. i \in 1 .. b /\ i <= a + 1
    BY <1>10, <1>13, <1>14
  <2>2. CASE i > a
    <3>1. i = a + 1
      BY <2>1, <2>2
    <3> QED
      BY <1>1, <1>2, <1>11, <2>1, <3>1 DEF Earlier, PartAt
  <2>3. CASE ~ i > a
    <3>1. p[i] # q[i]
      BY <1>12, <2>1, <2>3
    <3> QED
      BY <1>1, <1>2, <1>11, <1>13, <1>14, <2>1, <2>3, <3>1 DEF Earlier, PartAt
  <2> QED
    BY <2>2, <2>3
<1>15. ASSUME NEW e \in 1 .. b, PartAt(p, q, e)  PROVE Tui!Precedes(p, q)
  <2>1. e <= a + 1 /\ (\A j \in 1 .. e - 1 : p[j] = q[j]) /\ (e = a + 1 \/ p[e] # q[e])
    BY <1>1, <1>15 DEF PartAt
  <2>2. ~ i < e
    <3> SUFFICES ASSUME i < e  PROVE FALSE
      OBVIOUS
    <3>1. i \in 1 .. e - 1 /\ i <= a /\ i <= b
      BY <1>10, <2>1
    <3> QED
      BY <1>12, <2>1, <3>1
  <2>3. ~ e < i
    <3> SUFFICES ASSUME e < i  PROVE FALSE
      OBVIOUS
    <3>1. e \in 1 .. i - 1 /\ e # a + 1
      BY <1>10
    <3> QED
      BY <1>11, <2>1, <3>1
  <2>4. i = e
    BY <1>10, <2>2, <2>3
  <2>5. e = a + 1 \/ Tui!Sooner(Above(p, e), p[e], q[e])
    BY <1>1, <1>15 DEF PartAt
  <2> QED
    BY <1>13, <2>4, <2>5
<1> QED
  BY <1>2, <1>14, <1>15 DEF Earlier

\* The agents of a project have as many groups.
LEMMA GroupsSame ==
  ASSUME NEW w, NEW s, NEW t, w[s].project = w[t].project
  PROVE  Len(Tui!Groups(w, s)) = Len(Tui!Groups(w, t))
<1>1. PICK n : n = Tui!Cardinality({w[u].worktree : u \in {u \in Tui!TopLevel(w) : w[u].project = w[s].project}})
  OBVIOUS
<1>2. PICK p : p = <<"project", w[s].project>>
  OBVIOUS
<1>3. PICK x : x = <<"worktree", w[s].worktree>>
  OBVIOUS
<1>4. PICK y : y = <<"worktree", w[t].worktree>>
  OBVIOUS
<1>5. Tui!Groups(w, s) = IF n <= 1 THEN <<p>> ELSE <<p, x>>
  BY <1>1, <1>2, <1>3 DEF Tui!Groups
<1>6. Tui!Groups(w, t) = IF n <= 1 THEN <<p>> ELSE <<p, y>>
  BY <1>1, <1>2, <1>4 DEF Tui!Groups
<1>7. Len(<<p>>) = 1 /\ Len(<<p, x>>) = 2 /\ Len(<<p, y>>) = 2
  OBVIOUS
<1> QED
  BY <1>5, <1>6, <1>7

\* What is on a path: a project, with a worktree where it has several, and agents.
LEMMA PathKinds ==
  ASSUME NEW w, ViewsSound(w), NEW p \in Tui!BuildTree(w)
  PROVE  /\ p \in Seq(Nodes(w)) /\ Len(p) \in Nat \ {0}
         /\ \A i \in 1 .. Len(p) : p[i][1] = "agent" => p[i][2] \in DOMAIN w
         /\ \E s \in DOMAIN w :
              /\ p[1] = <<"project", w[s].project>>
              /\ \A k \in 2 .. Len(p) : p[k][1] = IF k <= Len(Tui!Groups(w, s)) THEN "worktree" ELSE "agent"
<1>1. PICK l : Line(w, l) /\ p \in Beginnings(AgentPath(w, l))
  BY TreeIs
<1>2. PICK r : r = AgentPath(w, l)
  OBVIOUS
<1>3. PICK k \in Nat : k = Len(l) /\ k > 0 /\ l[1] \in DOMAIN w
  <2>1. Len(l) \in Nat /\ Len(l) > 0 /\ l \in Seq(DOMAIN w)
    BY <1>1, LenProperties DEF Line
  <2> QED
    BY <2>1, ElementOfSeq
<1>4. PICK s \in DOMAIN w : s = l[1]
  BY <1>3
<1>5. PICK g : g = Tui!Groups(w, s)
  OBVIOUS
<1>6. PICK n \in 1 .. 2 :
        /\ n = Len(g) /\ r \in Seq(Nodes(w)) /\ Len(r) = n + k
        /\ \A i \in 1 .. n : r[i] = g[i] /\ r[i][1] \in {"project", "worktree"}
        /\ \A i \in 1 .. k : r[n + i] = <<"agent", l[i]>>
  BY <1>1, <1>2, <1>3, <1>4, <1>5, PathIs
<1>7. g[1] = <<"project", w[s].project>> /\ (Len(g) = 2 => g[2][1] = "worktree")
  <2>1. PICK x : x = <<"project", w[s].project>>
    OBVIOUS
  <2>2. PICK y : y = <<"worktree", w[s].worktree>>
    OBVIOUS
  <2>3. g = <<x>> \/ g = <<x, y>>
    BY <1>5, <2>1, <2>2 DEF Tui!Groups
  <2>4. <<x>>[1] = x /\ Len(<<x>>) = 1 /\ <<x, y>>[1] = x /\ <<x, y>>[2] = y
    OBVIOUS
  <2>5. y[1] = "worktree"
    BY <2>2
  <2> QED
    BY <2>1, <2>3, <2>4, <2>5
<1>8. PICK m \in 1 .. Len(r) : p = SubSeq(r, 1, m)
  BY <1>1, <1>2 DEF Beginnings
<1>9. m \in Nat /\ m > 0 /\ m <= Len(r)
  BY <1>6, <1>8
<1>10. p \in Seq(Nodes(w)) /\ Len(p) = m /\ \A i \in 1 .. m : p[i] = r[i]
  BY <1>6, <1>8, <1>9, Prefix
<1>11. p[1] = <<"project", w[s].project>>
  BY <1>6, <1>7, <1>9, <1>10
<1>12. ASSUME NEW i \in 2 .. m  PROVE p[i][1] = IF i <= n THEN "worktree" ELSE "agent"
  <2>1. CASE i <= n
    <3>1. i = 2 /\ n = 2
      BY <2>1
    <3> QED
      BY <1>6, <1>7, <1>10, <1>12, <3>1
  <2>2. CASE ~ i <= n
    <3>1. PICK j \in 1 .. k : i = n + j
      <4>1. i - n \in 1 .. k /\ i = n + (i - n)
        BY <1>3, <1>6, <1>9, <2>2
      <4> QED
        BY <4>1
    <3>2. p[i] = <<"agent", l[j]>>
      BY <1>6, <1>10, <3>1
    <3> QED
      BY <2>2, <3>2
  <2> QED
    BY <2>1, <2>2
<1>13. ASSUME NEW i \in 1 .. m, p[i][1] = "agent"  PROVE p[i][2] \in DOMAIN w
  <2>1. ~ i <= n
    BY <1>6, <1>9, <1>10, <1>13
  <2>2. PICK j \in 1 .. k : i = n + j
    <3>1. i - n \in 1 .. k /\ i = n + (i - n)
      BY <1>3, <1>6, <1>9, <2>1
    <3> QED
      BY <3>1
  <2>3. p[i] = <<"agent", l[j]>>
    BY <1>6, <1>10, <2>2
  <2>4. l \in Seq(DOMAIN w) /\ j \in 1 .. Len(l)
    BY <1>1, <1>3 DEF Line
  <2>5. l[j] \in DOMAIN w
    BY <2>4, ElementOfSeq
  <2> QED
    BY <2>3, <2>5
<1> QED
  BY <1>5, <1>6, <1>9, <1>10, <1>11, <1>12, <1>13

\* Where two paths part, their nodes are of one kind, and told apart by a number.
LEMMA Siblings ==
  ASSUME NEW w, ViewsSound(w), NEW p \in Tui!BuildTree(w), NEW q \in Tui!BuildTree(w),
         NEW k \in Nat \ {0}, k <= Len(p), k <= Len(q), \A j \in 1 .. k - 1 : p[j] = q[j]
  PROVE  /\ p[k][1] = q[k][1] /\ p[k] = <<p[k][1], p[k][2]>> /\ q[k] = <<q[k][1], q[k][2]>>
         /\ p[k][2] \in Nat /\ q[k][2] \in Nat
<1>1. /\ p \in Seq(Nodes(w)) /\ Len(p) \in Nat \ {0} /\ q \in Seq(Nodes(w)) /\ Len(q) \in Nat \ {0}
  BY PathKinds
<1>2. p[k] \in Nodes(w) /\ q[k] \in Nodes(w)
  BY <1>1, ElementOfSeq
<1>3. PICK N : N = DOMAIN w \cup {w[s].project : s \in DOMAIN w} \cup {w[s].worktree : s \in DOMAIN w}
  OBVIOUS
<1>4. N \subseteq Nat
  <2>1. DOMAIN w \subseteq Nat
    BY PartsAssumption DEF ViewsSound
  <2>2. \A s \in DOMAIN w : w[s].project \in Nat /\ w[s].worktree \in Nat
    BY PartsAssumption DEF ViewsSound
  <2> QED
    BY <1>3, <2>1, <2>2
<1>5. Nodes(w) = {"project", "worktree", "agent"} \X N
  BY <1>3 DEF Nodes
<1>6. \A x \in Nodes(w) : x = <<x[1], x[2]>> /\ x[2] \in Nat
  BY <1>4, <1>5
<1>7. p[k][1] = q[k][1]
  <2>1. PICK s \in DOMAIN w :
          /\ p[1] = <<"project", w[s].project>>
          /\ \A i \in 2 .. Len(p) : p[i][1] = IF i <= Len(Tui!Groups(w, s)) THEN "worktree" ELSE "agent"
    BY PathKinds
  <2>2. PICK t \in DOMAIN w :
          /\ q[1] = <<"project", w[t].project>>
          /\ \A i \in 2 .. Len(q) : q[i][1] = IF i <= Len(Tui!Groups(w, t)) THEN "worktree" ELSE "agent"
    BY PathKinds
  <2>3. CASE k = 1
    <3>1. p[1][1] = "project" /\ q[1][1] = "project"
      BY <2>1, <2>2
    <3> QED
      BY <2>3, <3>1
  <2>4. CASE k # 1
    <3>1. 1 \in 1 .. k - 1
      BY <2>4
    <3>2. <<"project", w[s].project>> = <<"project", w[t].project>>
      BY <2>1, <2>2, <3>1
    <3>3. w[s].project = w[t].project
      BY <3>2
    <3>4. Len(Tui!Groups(w, s)) = Len(Tui!Groups(w, t))
      BY <3>3, GroupsSame
    <3>5. k \in 2 .. Len(p) /\ k \in 2 .. Len(q)
      BY <1>1, <2>4
    <3> QED
      BY <2>1, <2>2, <3>4, <3>5
  <2> QED
    BY <2>3, <2>4
<1> QED
  BY <1>2, <1>6, <1>7

\* Sooner orders nodes of one kind.
LEMMA SoonerOrders ==
  ASSUME NEW above, NEW kind \in {"project", "worktree", "agent"}, NEW a \in Nat, NEW b \in Nat, a # b
  PROVE  /\ Tui!Sooner(above, <<kind, a>>, <<kind, b>>) <=> ~ Tui!Sooner(above, <<kind, b>>, <<kind, a>>)
         /\ \A c \in Nat : b # c /\ Tui!Sooner(above, <<kind, a>>, <<kind, b>>) /\ Tui!Sooner(above, <<kind, b>>, <<kind, c>>)
                             => a # c /\ Tui!Sooner(above, <<kind, a>>, <<kind, c>>)
<1>1. CASE kind = "project"
  <2>1. \A x, y \in Nat : Tui!Sooner(above, <<kind, x>>, <<kind, y>>) <=> y = 0 \/ (x # 0 /\ x < y)
    BY <1>1 DEF Tui!Sooner
  <2> QED
    BY <2>1
<1>2. CASE kind = "worktree"
  <2>1. \A x, y \in Nat : Tui!Sooner(above, <<kind, x>>, <<kind, y>>) <=> x < y
    BY <1>2 DEF Tui!Sooner
  <2> QED
    BY <2>1
<1>3. CASE kind = "agent"
  <2>1. \A x, y \in Nat : Tui!Sooner(above, <<kind, x>>, <<kind, y>>) <=> IF above[1] = "agent" THEN x < y ELSE x > y
    BY <1>3 DEF Tui!Sooner
  <2> QED
    BY <2>1
<1> QED
  BY <1>1, <1>2, <1>3

\* Where two paths of a tree part, one of the two nodes is sooner.
LEMMA PartsSooner ==
  ASSUME NEW w, ViewsSound(w), NEW p \in Tui!BuildTree(w), NEW q \in Tui!BuildTree(w),
         NEW k \in Nat \ {0}, k <= Len(p), k <= Len(q), \A j \in 1 .. k - 1 : p[j] = q[j], p[k] # q[k]
  PROVE  /\ Above(p, k) = Above(q, k)
         /\ Tui!Sooner(Above(p, k), p[k], q[k]) <=> ~ Tui!Sooner(Above(q, k), q[k], p[k])
<1>1. /\ p[k][1] = q[k][1] /\ p[k] = <<p[k][1], p[k][2]>> /\ q[k] = <<q[k][1], q[k][2]>>
      /\ p[k][2] \in Nat /\ q[k][2] \in Nat
  BY Siblings
<1>2. p[k][1] \in {"project", "worktree", "agent"}
  <2>1. p \in Seq(Nodes(w)) /\ Len(p) \in Nat
    BY PathKinds
  <2>2. p[k] \in Nodes(w)
    BY <2>1, ElementOfSeq
  <2> QED
    BY <2>2 DEF Nodes
<1>3. PICK kind \in {"project", "worktree", "agent"} : kind = p[k][1]
  BY <1>2
<1>4. PICK a \in Nat : a = p[k][2]
  BY <1>1
<1>5. PICK b \in Nat : b = q[k][2]
  BY <1>1
<1>6. PICK x : x = <<kind, a>>
  OBVIOUS
<1>7. PICK y : y = <<kind, b>>
  OBVIOUS
<1>8. p[k] = x /\ q[k] = y /\ a # b
  BY <1>1, <1>3, <1>4, <1>5, <1>6, <1>7
<1>9. Above(p, k) = Above(q, k)
  BY DEF Above
<1>10. Tui!Sooner(Above(p, k), x, y) <=> ~ Tui!Sooner(Above(p, k), y, x)
  <2>1. PICK u : u = Above(p, k)
    OBVIOUS
  <2>2. Tui!Sooner(u, <<kind, a>>, <<kind, b>>) <=> ~ Tui!Sooner(u, <<kind, b>>, <<kind, a>>)
    BY ONLY <1>8, SoonerOrders
  <2> QED
    BY <1>6, <1>7, <2>1, <2>2
<1> QED
  BY <1>8, <1>9, <1>10

\* Of two paths one precedes the other.
LEMMA PrecedesTotal ==
  ASSUME NEW w, ViewsSound(w), NEW p \in Tui!BuildTree(w), NEW q \in Tui!BuildTree(w), p # q
  PROVE  Earlier(p, q) <=> ~ Earlier(q, p)
<1>1. p \in Seq(Nodes(w)) /\ q \in Seq(Nodes(w))
  BY PathKinds
<1>2. PICK a \in Nat : a = Len(p)
  BY <1>1, LenProperties
<1>3. PICK b \in Nat : b = Len(q)
  BY <1>1, LenProperties
<1>4. Earlier(p, q) \/ Earlier(q, p)
  <2>1. PICK k \in 1 .. a + 1 :
          k - 1 <= b /\ (\A j \in 1 .. k - 1 : p[j] = q[j]) /\ (k > a \/ k > b \/ p[k] # q[k])
    BY <1>1, <1>2, <1>3, Parting
  <2>2. CASE k > a /\ k > b
    <3>1. a = b /\ k = a + 1 /\ \A j \in 1 .. a : p[j] = q[j]
      BY <2>1, <2>2
    <3> QED
      BY <1>1, <1>2, <1>3, <3>1, SeqEqual
  <2>3. CASE k > a /\ ~ k > b
    <3>1. k \in 1 .. b /\ k = a + 1
      BY <2>1, <2>3
    <3>2. PartAt(p, q, k)
      BY <1>2, <2>1, <3>1 DEF PartAt
    <3> QED
      BY <1>3, <3>1, <3>2 DEF Earlier
  <2>4. CASE ~ k > a /\ k > b
    <3>1. k \in 1 .. a /\ k = b + 1
      BY <2>1, <2>4
    <3>2. PartAt(q, p, k)
      BY <1>3, <2>1, <3>1 DEF PartAt
    <3> QED
      BY <1>2, <3>1, <3>2 DEF Earlier
  <2>5. CASE ~ k > a /\ ~ k > b
    <3>1. k \in Nat \ {0} /\ k <= Len(p) /\ k <= Len(q) /\ p[k] # q[k] /\ k \in 1 .. a /\ k \in 1 .. b
      BY <1>2, <1>3, <2>1, <2>5
    <3>2. Tui!Sooner(Above(p, k), p[k], q[k]) <=> ~ Tui!Sooner(Above(q, k), q[k], p[k])
      BY <2>1, <3>1, PartsSooner
    <3>3. Tui!Sooner(Above(p, k), p[k], q[k]) => PartAt(p, q, k)
      BY <1>2, <2>1, <3>1 DEF PartAt
    <3>4. Tui!Sooner(Above(q, k), q[k], p[k]) => PartAt(q, p, k)
      BY <1>3, <2>1, <3>1 DEF PartAt
    <3> QED
      BY <1>2, <1>3, <3>1, <3>2, <3>3, <3>4 DEF Earlier
  <2> QED
    BY <2>2, <2>3, <2>4, <2>5
<1>5. ASSUME NEW k \in 1 .. b, PartAt(p, q, k), NEW m \in 1 .. a, PartAt(q, p, m)  PROVE FALSE
  <2>1. /\ k <= a + 1 /\ (\A j \in 1 .. k - 1 : p[j] = q[j])
        /\ k = a + 1 \/ (p[k] # q[k] /\ Tui!Sooner(Above(p, k), p[k], q[k]))
    BY <1>2, <1>5 DEF PartAt
  <2>2. /\ m <= b + 1 /\ (\A j \in 1 .. m - 1 : q[j] = p[j])
        /\ m = b + 1 \/ (q[m] # p[m] /\ Tui!Sooner(Above(q, m), q[m], p[m]))
    BY <1>3, <1>5 DEF PartAt
  <2>3. CASE k < m
    <3>1. k \in 1 .. m - 1 /\ k # a + 1
      BY <2>3
    <3> QED
      BY <2>1, <2>2, <3>1
  <2>4. CASE m < k
    <3>1. m \in 1 .. k - 1 /\ m # b + 1
      BY <2>4
    <3> QED
      BY <2>1, <2>2, <3>1
  <2>5. CASE k = m
    <3>1. k \in Nat \ {0} /\ k <= Len(p) /\ k <= Len(q) /\ k # a + 1 /\ m # b + 1
      BY <1>2, <1>3, <2>5
    <3>2. p[k] # q[k] /\ Tui!Sooner(Above(p, k), p[k], q[k]) /\ Tui!Sooner(Above(q, k), q[k], p[k])
      BY <2>1, <2>2, <2>5, <3>1
    <3> QED
      BY <2>1, <3>1, <3>2, PartsSooner
  <2> QED
    BY <2>3, <2>4, <2>5
<1>6. ~ (Earlier(p, q) /\ Earlier(q, p))
  BY <1>2, <1>3, <1>5 DEF Earlier
<1> QED
  BY <1>4, <1>6

\* Of three paths that part at one node, the first and the last part there too.
LEMMA PartsOn ==
  ASSUME NEW w, ViewsSound(w), NEW p \in Tui!BuildTree(w), NEW q \in Tui!BuildTree(w), NEW r \in Tui!BuildTree(w),
         NEW k \in Nat \ {0}, k <= Len(p), k <= Len(q), k <= Len(r),
         \A j \in 1 .. k - 1 : p[j] = q[j] /\ q[j] = r[j], p[k] # q[k], q[k] # r[k],
         Tui!Sooner(Above(p, k), p[k], q[k]), Tui!Sooner(Above(q, k), q[k], r[k])
  PROVE  p[k] # r[k] /\ Tui!Sooner(Above(p, k), p[k], r[k])
<1>1. /\ p[k][1] = q[k][1] /\ p[k] = <<p[k][1], p[k][2]>> /\ q[k] = <<q[k][1], q[k][2]>>
      /\ p[k][2] \in Nat /\ q[k][2] \in Nat
  BY Siblings
<1>2. /\ q[k][1] = r[k][1] /\ r[k] = <<r[k][1], r[k][2]>> /\ r[k][2] \in Nat
  BY Siblings
<1>3. PICK kind \in {"project", "worktree", "agent"} : kind = p[k][1]
  <2>1. p \in Seq(Nodes(w)) /\ Len(p) \in Nat
    BY PathKinds
  <2>2. p[k] \in Nodes(w)
    BY <2>1, ElementOfSeq
  <2> QED
    BY <2>2 DEF Nodes
<1>4. PICK a \in Nat : a = p[k][2]
  BY <1>1
<1>5. PICK b \in Nat : b = q[k][2]
  BY <1>1
<1>6. PICK c \in Nat : c = r[k][2]
  BY <1>2
<1>7. p[k] = <<kind, a>> /\ q[k] = <<kind, b>> /\ r[k] = <<kind, c>>
  BY <1>1, <1>2, <1>3, <1>4, <1>5, <1>6
<1>8. PICK u : u = Above(p, k)
  OBVIOUS
<1>9. u = Above(q, k)
  BY <1>8 DEF Above
<1>10. a # b /\ b # c
  BY <1>7
<1>11. Tui!Sooner(u, <<kind, a>>, <<kind, b>>) /\ Tui!Sooner(u, <<kind, b>>, <<kind, c>>)
  BY <1>7, <1>8, <1>9
<1>12. a # c /\ Tui!Sooner(u, <<kind, a>>, <<kind, c>>)
  BY ONLY <1>10, <1>11, SoonerOrders
<1>13. p[k] # r[k]
  BY <1>7, <1>12
<1> QED
  BY <1>7, <1>8, <1>12, <1>13

\* What precedes what precedes a path precedes it.
LEMMA PrecedesOn ==
  ASSUME NEW w, ViewsSound(w), NEW p \in Tui!BuildTree(w), NEW q \in Tui!BuildTree(w), NEW r \in Tui!BuildTree(w),
         p # q, q # r, Earlier(p, q), Earlier(q, r)
  PROVE  p # r /\ Earlier(p, r)
<1>1. p \in Seq(Nodes(w)) /\ q \in Seq(Nodes(w)) /\ r \in Seq(Nodes(w))
  BY PathKinds
<1>2. PICK a \in Nat : a = Len(p)
  BY <1>1, LenProperties
<1>3. PICK b \in Nat : b = Len(q)
  BY <1>1, LenProperties
<1>4. PICK c \in Nat : c = Len(r)
  BY <1>1, LenProperties
<1>5. p # r
  BY PrecedesTotal
<1>6. PICK k \in 1 .. b : PartAt(p, q, k)
  BY <1>3 DEF Earlier
<1>7. PICK m \in 1 .. c : PartAt(q, r, m)
  BY <1>4 DEF Earlier
<1>8. /\ k <= a + 1 /\ (\A j \in 1 .. k - 1 : p[j] = q[j])
      /\ k = a + 1 \/ (p[k] # q[k] /\ Tui!Sooner(Above(p, k), p[k], q[k]))
  BY <1>2, <1>6 DEF PartAt
<1>9. /\ m <= b + 1 /\ (\A j \in 1 .. m - 1 : q[j] = r[j])
      /\ m = b + 1 \/ (q[m] # r[m] /\ Tui!Sooner(Above(q, m), q[m], r[m]))
  BY <1>3, <1>7 DEF PartAt
<1>10. ASSUME NEW i \in 1 .. c, i <= a + 1, \A j \in 1 .. i - 1 : p[j] = r[j], i = a + 1
       PROVE  Earlier(p, r)
  <2>1. PartAt(p, r, i)
    BY <1>2, <1>10 DEF PartAt
  <2> QED
    BY <1>4, <2>1 DEF Earlier
<1>20. ASSUME NEW i \in 1 .. c, i <= a + 1, \A j \in 1 .. i - 1 : p[j] = r[j],
              p[i] # r[i], Tui!Sooner(Above(p, i), p[i], r[i])
       PROVE  Earlier(p, r)
  <2>1. PartAt(p, r, i)
    BY <1>2, <1>20 DEF PartAt
  <2> QED
    BY <1>4, <2>1 DEF Earlier
<1>11. CASE k < m
  <2>1. k \in 1 .. c /\ k \in 1 .. m - 1 /\ q[k] = r[k]
    BY <1>9, <1>11
  <2>2. \A j \in 1 .. k - 1 : p[j] = r[j]
    BY <1>8, <1>9, <1>11
  <2>3. k = a + 1 \/ (p[k] # r[k] /\ Tui!Sooner(Above(p, k), p[k], r[k]))
    BY <1>8, <2>1
  <2>4. k <= a + 1
    BY <1>8
  <2> QED
    <3>1. CASE k = a + 1
      BY <1>5, <1>10, <2>1, <2>2, <2>4, <3>1
    <3>2. CASE p[k] # r[k] /\ Tui!Sooner(Above(p, k), p[k], r[k])
      BY <1>5, <1>20, <2>1, <2>2, <2>4, <3>2
    <3> QED
      BY <2>3, <3>1, <3>2
<1>12. CASE m < k
  <2>1. m \in 1 .. c /\ m \in 1 .. k - 1 /\ p[m] = q[m] /\ m # b + 1 /\ m <= a + 1
    BY <1>8, <1>12
  <2>2. \A j \in 1 .. m - 1 : p[j] = r[j]
    BY <1>8, <1>9, <1>12
  <2>3. Above(p, m) = Above(q, m)
    <3>1. m # 1 => m - 1 \in 1 .. k - 1
      BY <1>12
    <3> QED
      BY <1>8, <3>1 DEF Above
  <2>4. p[m] # r[m] /\ Tui!Sooner(Above(p, m), p[m], r[m])
    BY <1>9, <2>1, <2>3
  <2> QED
    BY <1>5, <1>20, <2>1, <2>2, <2>4
<1>13. CASE k = m
  <2>1. k \in 1 .. c /\ k \in Nat \ {0} /\ k # b + 1 /\ q[k] # r[k] /\ Tui!Sooner(Above(q, k), q[k], r[k])
    BY <1>9, <1>13
  <2>2. \A j \in 1 .. k - 1 : p[j] = q[j] /\ q[j] = r[j]
    BY <1>8, <1>9, <1>13
  <2>3. k = a + 1 \/ (p[k] # r[k] /\ Tui!Sooner(Above(p, k), p[k], r[k]))
    <3> SUFFICES ASSUME k # a + 1  PROVE p[k] # r[k] /\ Tui!Sooner(Above(p, k), p[k], r[k])
      OBVIOUS
    <3>1. k <= Len(p) /\ k <= Len(q) /\ k <= Len(r) /\ p[k] # q[k] /\ Tui!Sooner(Above(p, k), p[k], q[k])
      BY <1>2, <1>3, <1>4, <1>8, <2>1
    <3> QED
      BY <2>1, <2>2, <3>1, PartsOn
  <2>4. k <= a + 1
    BY <1>8
  <2> QED
    <3>1. CASE k = a + 1
      BY <1>5, <1>10, <2>1, <2>2, <2>4, <3>1
    <3>2. CASE p[k] # r[k] /\ Tui!Sooner(Above(p, k), p[k], r[k])
      BY <1>5, <1>20, <2>1, <2>2, <2>4, <3>2
    <3> QED
      BY <2>3, <3>1, <3>2
<1>14. k \in Nat /\ m \in Nat
  OBVIOUS
<1>15. Earlier(p, r)
  BY <1>11, <1>12, <1>13, <1>14
<1> QED
  BY <1>5, <1>15

\* Precedes orders the nodes of a tree.
LEMMA TreeOrdered ==
  ASSUME NEW w, ViewsSound(w), NEW nodes \in SUBSET Tui!BuildTree(w)
  PROVE  Ordered(nodes)
<1>1. ASSUME NEW p \in nodes, NEW q \in nodes  PROVE Tui!Precedes(p, q) <=> Earlier(p, q)
  <2>1. p \in Seq(Nodes(w)) /\ q \in Seq(Nodes(w))
    BY PathKinds
  <2> QED
    BY <2>1, PrecedesIs
<1>2. ASSUME NEW p \in nodes, NEW q \in nodes, p # q  PROVE Tui!Precedes(p, q) <=> ~ Tui!Precedes(q, p)
  <2>1. Earlier(p, q) <=> ~ Earlier(q, p)
    BY <1>2, PrecedesTotal
  <2> QED
    BY <1>1, <2>1
<1>3. ASSUME NEW p \in nodes, NEW q \in nodes, NEW r \in nodes, p # q, q # r, Tui!Precedes(p, q), Tui!Precedes(q, r)
      PROVE  p # r /\ Tui!Precedes(p, r)
  <2>1. Earlier(p, q) /\ Earlier(q, r)
    BY <1>1, <1>3
  <2>2. p # r /\ Earlier(p, r)
    BY <1>3, <2>1, PrecedesOn
  <2> QED
    BY <1>1, <2>2
<1> QED
  BY <1>2, <1>3 DEF Ordered

\* The rows of a tree are its open nodes.
LEMMA RowsOpen ==
  ASSUME NEW w, ViewsSound(w), NEW open, NEW rows, rows = Tui!Flatten(Tui!BuildTree(w), open)
  PROVE  /\ Len(rows) \in Nat
         /\ \A i \in 1 .. Len(rows) : rows[i] \in Opened(Tui!BuildTree(w), open)
         /\ \A p \in Opened(Tui!BuildTree(w), open) : \E i \in 1 .. Len(rows) : rows[i] = p
<1>1. PICK T : T = Opened(Tui!BuildTree(w), open)
  OBVIOUS
<1>2. T \in SUBSET Tui!BuildTree(w)
  BY <1>1 DEF Opened
<1>3. IsFiniteSet(T)
  BY <1>2, TreeFinite, FS_Subset
<1>4. Ordered(T)
  BY <1>2, TreeOrdered
<1>5. rows = Tui!InOrder(T)
  BY <1>1 DEF Tui!Flatten, Opened
<1> QED
  BY <1>1, <1>3, <1>4, <1>5, RowsAre

\* PathTo finds a node of the id when there is one.
LEMMA PathFound ==
  ASSUME NEW w, ViewsSound(w), NEW id, NEW p \in Tui!BuildTree(w), Tui!NodeId(p) = id
  PROVE  Tui!PathTo(Tui!BuildTree(w), id) \in Tui!BuildTree(w) /\ Tui!NodeId(Tui!PathTo(Tui!BuildTree(w), id)) = id
<1>1. PICK T : T = {q \in Tui!BuildTree(w) : Tui!NodeId(q) = id}
  OBVIOUS
<1>2. T \in SUBSET Tui!BuildTree(w) /\ p \in T
  BY <1>1
<1>3. IsFiniteSet(T) /\ Ordered(T)
  BY <1>2, TreeFinite, TreeOrdered, FS_Subset
<1>4. PICK r : r = Tui!InOrder(T)
  OBVIOUS
<1>5. Len(r) \in Nat /\ (\A i \in 1 .. Len(r) : r[i] \in T) /\ \E i \in 1 .. Len(r) : r[i] = p
  BY <1>2, <1>3, <1>4, RowsAre
<1>6. 1 \in 1 .. Len(r)
  BY <1>5
<1>7. r[1] \in T
  BY <1>5, <1>6
<1>8. Tui!PathTo(Tui!BuildTree(w), id) = r[1]
  BY <1>1, <1>2, <1>4 DEF Tui!PathTo
<1> QED
  BY <1>1, <1>7, <1>8

\* A filter's matches are among the agents shown.
LEMMA MatchesShown ==
  ASSUME NEW a, ViewsSound(a.sessions), NEW s \in MatchesOf(a).ids
  PROVE  s \in DOMAIN Tui!Shown(a)
<1>1. PICK w : w = Tui!InScope(a)
  OBVIOUS
<1>2. ViewsSound(w)
  BY <1>1 DEF Tui!InScope, ViewsSound
<1>3. a.query > 0 /\ s \in Tui!Matched(w, a.query)
  BY <1>1 DEF MatchesOf
<1>4. PICK k : k = Tui!Selected(w, a.query)
  OBVIOUS
<1>5. s \in k
  BY <1>2, <1>3, <1>4, SelectedListed
<1>6. Tui!Shown(a) = IF a.query = 0 THEN w ELSE [t \in k |-> w[t]]
  BY <1>1, <1>4 DEF Tui!Shown
<1>7. a.query # 0
  BY <1>3
<1> QED
  BY <1>5, <1>6, <1>7

\* PathTo finds the one node of an agent shown.
LEMMA PathToAgent ==
  ASSUME NEW w, ViewsSound(w), NEW s \in DOMAIN w, NEW id, id = <<"agent", s>>,
         NEW r, r = Tui!PathTo(Tui!BuildTree(w), id)
  PROVE  /\ r \in Tui!BuildTree(w) /\ Tui!NodeId(r) = id
         /\ \A p \in Tui!BuildTree(w) : Tui!NodeId(p) = id => p = r
<1>1. PICK T : T = {p \in Tui!BuildTree(w) : Tui!NodeId(p) = id}
  OBVIOUS
<1>2. IsFiniteSet(T)
  BY <1>1, TreeFinite, FS_Subset
<1>3. Cardinality(T) = 1
  BY <1>1, AgentOnce
<1>4. PICK q : T = {q}
  BY <1>2, <1>3, FS_Singleton
<1>5. q \in Tui!BuildTree(w) /\ Tui!NodeId(q) = id
  BY <1>1, <1>4
<1>6. r \in Tui!BuildTree(w) /\ Tui!NodeId(r) = id
  BY <1>5, PathFound
<1> QED
  BY <1>1, <1>4, <1>6

\* An agent's node is of an agent shown.
LEMMA NodeShown ==
  ASSUME NEW w, ViewsSound(w), NEW p \in Tui!BuildTree(w), NEW s, Tui!NodeId(p) = <<"agent", s>>
  PROVE  s \in DOMAIN w
<1>1. PICK n \in Nat \ {0} : n = Len(p) /\ \A i \in 1 .. n : p[i][1] = "agent" => p[i][2] \in DOMAIN w
  BY PathKinds
<1>2. p[n] = <<"agent", s>>
  BY <1>1 DEF Tui!NodeId
<1>3. n \in 1 .. n /\ p[n][1] = "agent" /\ p[n][2] = s
  BY <1>2
<1> QED
  BY <1>1, <1>3

\* rebuild_tree leaves a match on screen, and puts a new one there.
LEMMA RebuildShows ==
  ASSUME NEW a, AppSound(a), NEW c, DOMAIN c = AppFields, ViewsSound(c.sessions), c.sel = a.sel,
         c.tree = a.tree, c.expanded = a.expanded, c.matches = a.matches,
         NEW b, b = Tui!Rebuild(c), NEW s \in b.matches.ids, s \notin a.matches.ids \/ Tui!Visible(a, s)
  PROVE  Tui!Visible(b, s)
<1>1. c.sel \in Nat \ {0}
  BY SoundRebuildable DEF Rebuildable
<1>2. /\ b.tree = Tui!BuildTree(Tui!Shown(c)) /\ b.matches = MatchesOf(c)
      /\ b.rows = Tui!Flatten(b.tree, b.expanded) /\ Unfolded(c, b)
  BY <1>1, RebuildIs
<1>3. PICK w : w = Tui!Shown(c)
  OBVIOUS
<1>4. ViewsSound(w) /\ s \in DOMAIN w /\ b.tree = Tui!BuildTree(w)
  BY <1>2, <1>3, ShownSound, MatchesShown
<1>5. PICK id : id = <<"agent", s>>
  OBVIOUS
<1>6. PICK r : r = Tui!PathTo(b.tree, id)
  OBVIOUS
<1>7. r \in b.tree /\ Tui!NodeId(r) = id
  BY <1>4, <1>5, <1>6, PathToAgent
<1>8. \A i \in 1 .. Len(r) - 1 : r[i] \in b.expanded
  <2> SUFFICES ASSUME NEW i \in 1 .. Len(r) - 1  PROVE r[i] \in b.expanded
    OBVIOUS
  <2>1. CASE s \in a.matches.ids /\ Tui!PathTo(a.tree, id) = r
    <3>1. PICK j \in 1 .. Len(a.rows) : Tui!NodeId(a.rows[j]) = id
      BY <1>5, <2>1 DEF Tui!Visible
    <3>2. PICK v : v = Tui!Shown(a)
      OBVIOUS
    <3>3. ViewsSound(v) /\ a.tree = Tui!BuildTree(v) /\ a.rows = Tui!Flatten(a.tree, a.expanded)
      BY <3>2, ShownSound DEF AppSound, Flat
    <3>4. a.rows[j] \in Opened(a.tree, a.expanded)
      BY <3>1, <3>3, RowsOpen
    <3>5. PICK p \in a.tree : p = a.rows[j] /\ \A k \in 1 .. Len(p) - 1 : p[k] \in a.expanded
      BY <3>4 DEF Opened
    <3>6. s \in DOMAIN v
      BY <1>5, <3>1, <3>3, <3>5, NodeShown
    <3>7. p = r
      BY <1>5, <2>1, <3>1, <3>3, <3>5, <3>6, PathToAgent
    <3>8. r[i] \in c.expanded
      BY <3>5, <3>7
    <3> QED
      BY <1>2, <3>8 DEF Unfolded
  <2>2. CASE ~ (s \in a.matches.ids /\ Tui!PathTo(a.tree, id) = r)
    <3>1. ~ (c.matches.on /\ s \in c.matches.ids) \/ Tui!PathTo(c.tree, id) # Tui!PathTo(b.tree, id)
      BY <1>6, <2>2
    <3>2. r[i] \in Tui!Ancestors(Tui!PathTo(b.tree, id))
      BY <1>6 DEF Tui!Ancestors
    <3>3. r[i] \in Tui!GroupsToOpen(c, b.matches, b.tree)
      BY <1>5, <3>1, <3>2 DEF Tui!GroupsToOpen
    <3> QED
      BY <1>2, <3>3 DEF Unfolded
  <2> QED
    BY <2>1, <2>2
<1>9. r \in Opened(b.tree, b.expanded)
  BY <1>7, <1>8 DEF Opened
<1>10. PICK i \in 1 .. Len(b.rows) : b.rows[i] = r
  BY <1>2, <1>4, <1>9, RowsOpen
<1> QED
  BY <1>5, <1>7, <1>10 DEF Tui!Visible

\* A frame leaves the rows and the cursor.
LEMMA FrameKeeps ==
  ASSUME NEW a, AppSound(a), NEW b, b = Tui!Frame(a)
  PROVE  /\ b.rows = a.rows /\ b.tree = a.tree /\ b.matches = a.matches
         /\ Tui!Cursor(b) = Tui!Cursor(a)
<1>1. PICK pane : pane = Tui!Pane(a, Tui!SelectedSession(a))
  OBVIOUS
<1>2. b = IF a.target = pane THEN a ELSE [a EXCEPT !.target = pane, !.output = 0]
  BY <1>1 DEF Tui!Frame
<1>3. b.rows = a.rows /\ b.tree = a.tree /\ b.matches = a.matches /\ b.sel = a.sel
  BY <1>2 DEF AppSound, AppFields
<1> QED
  BY <1>3 DEF Tui!Cursor

\* Nothing that is told hides a match.
LEMMA ToldShows ==
  ASSUME ScreenInv, [Tui!Next]_<<v1, v2, v3, v4, v5, v6>>
  PROVE  Tui!KeepsMatchesVisible
<1>1. AppSound(v1)
  BY DEF ScreenInv
<1>2. CASE Tui!ReplaceSessions \/ Tui!UpdateSession \/ Tui!RemoveSession \/ Tui!FilterUpdate
  <2>1. PICK c : Renewed(v1, c) /\ v1' = Tui!Frame(Tui!Rebuild(c))
    BY <1>2, ToldIs
  <2>2. PICK b : b = Tui!Rebuild(c)
    OBVIOUS
  <2>3. AppSound(b)
    BY <1>1, <2>1, <2>2, NewsSound DEF Renewed
  <2>4. PICK d : d = Tui!Frame(b) /\ d = v1'
    BY <2>1, <2>2
  <2>5. d.rows = b.rows /\ d.matches = b.matches
    BY <2>3, <2>4, FrameKeeps
  <2>6. ASSUME NEW s \in d.matches.ids, s \notin v1.matches.ids \/ Tui!Visible(v1, s)
        PROVE  Tui!Visible(d, s)
    <3>1. s \in b.matches.ids
      BY <2>5, <2>6
    <3>2. Tui!Visible(b, s)
      BY <1>1, <2>1, <2>2, <2>6, <3>1, RebuildShows DEF Renewed
    <3> QED
      BY <2>5, <3>2 DEF Tui!Visible
  <2> QED
    BY <2>4, <2>6 DEF Tui!KeepsMatchesVisible
<1>3. CASE Tui!DaemonDisconnected
  <2>1. PICK b : b = [v1 EXCEPT !.state = "lost"]
    OBVIOUS
  <2>2. PICK d : d = Tui!Frame(b) /\ d = v1'
    BY <1>3, <2>1 DEF Tui!DaemonDisconnected, Tui!News
  <2>3. AppSound(b)
    BY <1>1, <2>1, TouchSound
  <2>4. b.rows = v1.rows /\ b.matches = v1.matches
    BY <1>1, <2>1 DEF AppSound, AppFields
  <2>5. d.rows = v1.rows /\ d.matches = v1.matches
    BY <2>2, <2>3, <2>4, FrameKeeps
  <2>6. \A s : Tui!Visible(v1, s) => Tui!Visible(d, s)
    BY <2>5 DEF Tui!Visible
  <2>7. \A s \in d.matches.ids : s \notin v1.matches.ids \/ Tui!Visible(v1, s) => Tui!Visible(d, s)
    BY <2>5, <2>6
  <2> QED
    BY <2>2, <2>7 DEF Tui!KeepsMatchesVisible
<1>4. CASE v5' = v5
  BY <1>4 DEF Tui!KeepsMatchesVisible
<1>5. \/ Tui!ReplaceSessions \/ Tui!UpdateSession \/ Tui!RemoveSession \/ Tui!FilterUpdate
      \/ Tui!DaemonDisconnected \/ v5' = v5
  <2>1. CASE Tui!ToggleHelp \/ Tui!StartSearch \/ Tui!TypeChar \/ Tui!Backspace \/ Tui!ConfirmSearch \/ Tui!EscapeFilter
    BY <2>1 DEF Tui!ToggleHelp, Tui!StartSearch, Tui!TypeChar, Tui!Backspace, Tui!ConfirmSearch, Tui!EscapeFilter, Tui!User
  <2>2. CASE Tui!Move \/ Tui!Attend \/ Tui!Fold \/ Tui!Jump \/ Tui!Quit
    BY <2>2 DEF Tui!Move, Tui!Attend, Tui!Fold, Tui!Jump, Tui!Quit, Tui!User
  <2>3. CASE Tui!CaptureStart \/ Tui!CaptureEnd \/ Tui!CaptureUpdate
    BY <2>3 DEF Tui!CaptureStart, Tui!CaptureEnd, Tui!CaptureUpdate
  <2> QED
    BY <2>1, <2>2, <2>3 DEF Tui!Next
<1> QED
  BY <1>2, <1>3, <1>4, <1>5

\* The end of a filter puts the cursor where it was, if that is still in the tree.
LEMMA EndPuts ==
  ASSUME NEW a, Rebuildable(a), a.query = 0, a.saved.on = TRUE,
         NEW id, id = IF Tui!Cursor(a) = Tui!NoNode THEN a.last ELSE Tui!Cursor(a),
         NEW e, e = Tui!EndFilter(a), id \in Tui!AllNodeIds(e.tree)
  PROVE  Tui!Cursor(e) = id
<1>0. Ended(e, id)
  BY FilterEndIs
<1>1. PICK new, open, c, b, d :
        /\ AppSound(new) /\ Tui!Ancestors(Tui!PathTo(new.tree, id)) \subseteq open
        /\ c = [new EXCEPT !.expanded = open] /\ b = Tui!Reflatten(c) /\ d = Tui!PutOn(b, id)
        /\ e = Tui!Clamp(d)
  BY <1>0 DEF Ended
<1>2. PICK w : w = Tui!Shown(new)
  OBVIOUS
<1>3. ViewsSound(w) /\ new.tree = Tui!BuildTree(w) /\ IsFiniteSet(new.tree) /\ DOMAIN new = AppFields
  BY <1>1, <1>2, ShownSound DEF AppSound, Flat
<1>4. /\ DOMAIN b = AppFields /\ Kept(new, b) /\ Len(b.rows) \in Nat /\ (b.rows = <<>> <=> Len(b.rows) = 0)
  BY <1>1, <1>3, Refolded
<1>5. b.rows = Tui!Flatten(new.tree, open)
  <2>1. DOMAIN c = AppFields /\ c.tree = new.tree /\ c.expanded = open
    BY <1>1, <1>3 DEF AppFields
  <2> QED
    BY <1>1, <2>1 DEF Tui!Reflatten, AppFields
<1>6. PICK n \in Nat : n = Len(b.rows)
  BY <1>4
<1>7. DOMAIN d = AppFields /\ Kept(b, d) /\ d.rows = b.rows
  BY <1>1, <1>4, Jumped
<1>8. PICK T \in SUBSET (1 .. n) : T = {i \in 1 .. n : Tui!NodeId(b.rows[i]) = id}
  OBVIOUS
<1>9. e.tree = new.tree
  <2>1. PICK k : e = [d EXCEPT !.sel = k]
    BY <1>1 DEF Tui!Clamp
  <2> QED
    BY <1>4, <1>7, <2>1 DEF Kept, AppFields
<1>10. PICK p \in new.tree : Tui!NodeId(p) = id
  BY <1>9 DEF Tui!AllNodeIds
<1>11. PICK r : r = Tui!PathTo(new.tree, id)
  OBVIOUS
<1>12. r \in new.tree /\ Tui!NodeId(r) = id
  BY <1>3, <1>10, <1>11, PathFound
<1>13. r \in Opened(new.tree, open)
  BY <1>1, <1>11, <1>12 DEF Opened, Tui!Ancestors
<1>14. PICK i \in 1 .. n : b.rows[i] = r
  BY <1>3, <1>5, <1>6, <1>13, RowsOpen
<1>15. i \in T
  BY <1>8, <1>12, <1>14
<1>16. PICK k : k = CHOOSE x \in T : \A y \in T : x <= y
  OBVIOUS
<1>17. k \in T
  BY <1>15, <1>16, FirstOne
<1>18. d = [b EXCEPT !.sel = k]
  BY <1>1, <1>6, <1>8, <1>15, <1>16 DEF Tui!PutOn
<1>19. d.sel = k /\ k \in 1 .. n /\ Tui!NodeId(d.rows[k]) = id
  BY <1>4, <1>7, <1>8, <1>17, <1>18 DEF AppFields
<1>20. e.sel = k /\ e.rows = d.rows
  <2>1. Len(d.rows) = n
    BY <1>6, <1>7
  <2>2. e = [d EXCEPT !.sel = k]
    BY <1>1, <1>19, <2>1 DEF Tui!Clamp
  <2> QED
    BY <1>7, <2>2 DEF AppFields
<1> QED
  BY <1>6, <1>7, <1>19, <1>20 DEF Tui!Cursor

\* Only Backspace and Esc end a filter, and the cursor stays.
LEMMA EndKeeps ==
  ASSUME ScreenInv, [Tui!Next]_<<v1, v2, v3, v4, v5, v6>>
  PROVE  Tui!KeepsCursor
<1> SUFFICES ASSUME v1.saved.on, ~ v1'.saved.on,
                    NEW id, id = IF Tui!Cursor(v1) = Tui!NoNode THEN v1.last ELSE Tui!Cursor(v1),
                    id \in Tui!AllNodeIds(v1'.tree)
             PROVE  Tui!Cursor(v1') = id
  BY DEF Tui!KeepsCursor, Tui!Cursor
<1>1. AppSound(v1) /\ AppSound(v1')
  BY ScreenKeepsInv DEF ScreenInv
<1>2. /\ Rebuildable(v1) /\ DOMAIN v1 = AppFields /\ v1.query \in Nat /\ v1'.query \in Nat
      /\ v1.saved.on = (v1.query > 0) /\ v1'.saved.on = (v1'.query > 0)
  BY <1>1, SoundRebuildable DEF AppSound
<1>3. v1.query > 0 /\ v1'.query = 0 /\ v1.saved.on = TRUE
  <2>1. v1.query > 0 /\ ~ v1'.query > 0
    BY <1>2, Zenon
  <2>2. (v1.query > 0) = TRUE
    BY <2>1
  <2>3. v1.saved.on = TRUE
    BY <1>2, <2>2, Zenon
  <2> QED
    BY <1>2, <2>1, <2>3
<1>4. Tui!TypeChar \/ Tui!Backspace \/ Tui!EscapeFilter
  <2>1. v1'.query # v1.query
    BY <1>3
  <2>2. CASE \/ Tui!ToggleHelp \/ Tui!StartSearch \/ Tui!TypeChar \/ Tui!Backspace \/ Tui!ConfirmSearch
             \/ Tui!EscapeFilter \/ Tui!Move \/ Tui!Attend \/ Tui!Fold \/ Tui!Jump \/ Tui!Quit
    BY <2>1, <2>2, UserSound
  <2>3. CASE \/ Tui!ReplaceSessions \/ Tui!UpdateSession \/ Tui!RemoveSession \/ Tui!FilterUpdate
             \/ Tui!DaemonDisconnected
    BY <2>1, <2>3, ToldSound
  <2>4. CASE Tui!CaptureUpdate
    BY <2>1, <2>4, CaptureSound
  <2>5. CASE Tui!CaptureStart \/ Tui!CaptureEnd \/ UNCHANGED <<v1, v2, v3, v4, v5, v6>>
    BY <2>1, <2>5 DEF Tui!CaptureStart, Tui!CaptureEnd
  <2> QED
    BY <2>2, <2>3, <2>4, <2>5 DEF Tui!Next
<1>5. ASSUME NEW b, Rebuildable(b), b.query > 0, b.saved.on = TRUE, v1' = Tui!Frame(Tui!ApplyFilterChange(b))
      PROVE  FALSE
  <2>1. AppSound(Tui!ApplyFilterChange(b)) /\ Tui!ApplyFilterChange(b).query = b.query
    BY <1>5, FilterSound
  <2>2. v1'.query = b.query
    BY <1>5, <2>1, FrameSound
  <2> QED
    BY <1>3, <1>5, <2>2
<1>6. ASSUME NEW b, Rebuildable(b), b.query = 0, b.saved.on = TRUE, Tui!Cursor(b) = Tui!Cursor(v1), b.last = v1.last,
             v1' = Tui!Frame(Tui!EndFilter(b))
      PROVE  Tui!Cursor(v1') = id
  <2>1. PICK e : e = Tui!EndFilter(b)
    OBVIOUS
  <2>2. AppSound(e)
    BY <1>6, <2>1, FilterEnds
  <2>3. PICK d : d = Tui!Frame(e) /\ d = v1'
    BY <1>6, <2>1
  <2>4. d.tree = e.tree /\ Tui!Cursor(d) = Tui!Cursor(e)
    BY <2>2, <2>3, FrameKeeps
  <2>5. id = IF Tui!Cursor(b) = Tui!NoNode THEN b.last ELSE Tui!Cursor(b)
    BY <1>6
  <2>6. id \in Tui!AllNodeIds(e.tree)
    BY <2>3, <2>4
  <2>7. Tui!Cursor(e) = id
    BY <1>6, <2>1, <2>5, <2>6, EndPuts
  <2> QED
    BY <2>3, <2>4, <2>7
<1>7. CASE Tui!TypeChar
  <2>1. PICK b : b = [v1 EXCEPT !.query = @ + 1]
    OBVIOUS
  <2>2. Rebuildable(b) /\ b.query > 0 /\ b.saved.on = TRUE
    BY <1>2, <1>3, <2>1 DEF Rebuildable, AppFields
  <2>3. v1' = Tui!Frame(Tui!ApplyFilterChange(b))
    BY <1>7, <2>1 DEF Tui!TypeChar, Tui!User
  <2> QED
    BY <1>5, <2>2, <2>3
<1>8. CASE Tui!Backspace
  <2>1. PICK b : b = [v1 EXCEPT !.query = @ - 1]
    OBVIOUS
  <2>2. /\ Rebuildable(b) /\ b.query \in Nat /\ b.saved.on = TRUE
        /\ b.last = v1.last /\ b.rows = v1.rows /\ b.sel = v1.sel
    BY <1>2, <1>3, <2>1 DEF Rebuildable, AppFields
  <2>3. v1' = Tui!Frame(IF b.query = 0 THEN Tui!EndFilter(b) ELSE Tui!ApplyFilterChange(b))
    BY <1>3, <1>8, <2>1 DEF Tui!Backspace, Tui!User, Tui!PopSearchChar
  <2>4. CASE b.query = 0
    <3>1. Tui!Cursor(b) = Tui!Cursor(v1)
      BY <2>2 DEF Tui!Cursor
    <3>2. v1' = Tui!Frame(Tui!EndFilter(b))
      BY <2>3, <2>4
    <3> QED
      BY <1>6, <2>2, <2>4, <3>1, <3>2
  <2>5. CASE b.query # 0
    <3>1. b.query > 0
      BY <2>2, <2>5
    <3>2. v1' = Tui!Frame(Tui!ApplyFilterChange(b))
      BY <2>3, <2>5
    <3> QED
      BY <1>5, <2>2, <3>1, <3>2
  <2> QED
    BY <2>4, <2>5
<1>9. CASE Tui!EscapeFilter
  <2>1. PICK b : b = [v1 EXCEPT !.searching = FALSE, !.query = 0]
    OBVIOUS
  <2>2. /\ Rebuildable(b) /\ b.query = 0 /\ b.saved.on = TRUE
        /\ b.last = v1.last /\ b.rows = v1.rows /\ b.sel = v1.sel
    BY <1>2, <1>3, <2>1 DEF Rebuildable, AppFields
  <2>3. Tui!Cursor(b) = Tui!Cursor(v1)
    BY <2>2 DEF Tui!Cursor
  <2>4. v1' = Tui!Frame(Tui!EndFilter(b))
    BY <1>9, <2>1 DEF Tui!EscapeFilter, Tui!User, Tui!ClearFilter
  <2> QED
    BY <1>6, <2>2, <2>3, <2>4
<1> QED
  BY <1>4, <1>7, <1>8, <1>9

-----------------------------------------------------------------------------
(* BeadsReader.  Its variables are v1 (the user and the files) and v2 (what the
   poll, its threads and the App hold).                                      *)

\* The reads under way, the answers on their way, the files and what the App keeps.
Threads == [id : Nat \ {0}, dir : Dirs, at : {"reading", "read", "ended"}, version : Nat]
Answers == [dir : Dirs, version : Nat]

BeadsTypes ==
  /\ v1 \in [selected : Dirs \cup {Beads!NoDir}, disk : [Dirs -> Nat], reads : Nat]
  /\ v2 \in [polling : Dirs \cup {Beads!NoDir}, pending : [Dirs -> Nat], threads : SUBSET Threads,
             inbox : Seq(Answers), beads_tasks : [Dirs -> Nat]]

\* A directory waits for the answer of the one thread that reads it.
Awaited ==
  /\ \A t \in v2.threads : v2.pending[t.dir] = t.id
  /\ Beads!OneReadEach

\* Nothing read is of a later version than the file has.
ReadFromDisk ==
  /\ \A t \in v2.threads : t.version <= v1.disk[t.dir] /\ (t.at = "reading" => t.version = Beads!Unread)
  /\ \A i \in 1 .. Len(v2.inbox) : v2.inbox[i].version <= v1.disk[v2.inbox[i].dir]
  /\ \A d \in Dirs : v2.beads_tasks[d] <= v1.disk[d]

\* Beads!NothingOlderComes, for each of its pairs.
Newer(t) ==
  t.version # Beads!Unread =>
    /\ t.version >= v2.beads_tasks[t.dir]
    /\ \A i \in 1 .. Len(v2.inbox) : v2.inbox[i].dir = t.dir => t.version >= v2.inbox[i].version
InOrder(inbox) ==
  /\ \A i \in 1 .. Len(inbox) : inbox[i].version >= v2.beads_tasks[inbox[i].dir]
  /\ \A i, j \in 1 .. Len(inbox) : i < j /\ inbox[i].dir = inbox[j].dir => inbox[i].version <= inbox[j].version

BeadsInv == BeadsTypes /\ Awaited /\ ReadFromDisk /\ (\A t \in v2.threads : Newer(t)) /\ InOrder(v2.inbox)

\* No directory is read at first.
LEMMA BeadsInit == Beads!Init => BeadsInv
<1> SUFFICES ASSUME Beads!Init  PROVE BeadsInv
  OBVIOUS
<1>1. /\ v1.selected = Beads!NoDir /\ v1.disk = [d \in Dirs |-> 1] /\ v1.reads = 0
      /\ v2.polling = Beads!NoDir /\ v2.pending = [d \in Dirs |-> 0] /\ v2.threads = {} /\ v2.inbox = <<>>
      /\ v2.beads_tasks = [d \in Dirs |-> 0]
  BY DEF Beads!Init, Beads!Unread
<1>2. BeadsTypes
  BY DEF BeadsTypes, Beads!Init, Beads!Unread
<1> QED
  BY <1>1, <1>2 DEF BeadsInv, Awaited, Beads!OneReadEach, ReadFromDisk, InOrder

\* The user and the files change what will be read.
LEMMA BeadsWorld ==
  ASSUME BeadsInv, Beads!Select \/ Beads!FileChanges
  PROVE  BeadsInv'
<1>1. v2' = v2 /\ v1' \in [selected : Dirs \cup {Beads!NoDir}, disk : [Dirs -> Nat], reads : Nat]
      /\ \A d \in Dirs : v1.disk[d] \in Nat /\ v1'.disk[d] \in Nat /\ v1'.disk[d] >= v1.disk[d]
  <2>1. CASE Beads!Select
    <3>1. PICK d \in Dirs \cup {Beads!NoDir} : v1' = [v1 EXCEPT !.selected = d]
      BY <2>1 DEF Beads!Select
    <3>2. v2' = v2
      BY <2>1 DEF Beads!Select
    <3>3. /\ v1' \in [selected : Dirs \cup {Beads!NoDir}, disk : [Dirs -> Nat], reads : Nat]
          /\ v1'.disk = v1.disk /\ v1.disk \in [Dirs -> Nat]
      BY <3>1 DEF BeadsInv, BeadsTypes
    <3> QED
      BY <3>2, <3>3
  <2>2. CASE Beads!FileChanges
    <3>1. PICK d \in Dirs : v1' = [v1 EXCEPT !.disk[d] = @ + 1]
      BY <2>2 DEF Beads!FileChanges
    <3>2. /\ v1'.disk = [v1.disk EXCEPT ![d] = @ + 1] /\ v1.disk \in [Dirs -> Nat]
          /\ v1' = [v1 EXCEPT !.disk = [v1.disk EXCEPT ![d] = @ + 1]]
      BY <3>1 DEF BeadsInv, BeadsTypes
    <3>3. [v1.disk EXCEPT ![d] = @ + 1] \in [Dirs -> Nat]
      BY <3>2
    <3>4. v1' \in [selected : Dirs \cup {Beads!NoDir}, disk : [Dirs -> Nat], reads : Nat]
      BY <3>2, <3>3 DEF BeadsInv, BeadsTypes
    <3>5. v2' = v2
      BY <2>2 DEF Beads!FileChanges
    <3>6. \A e \in Dirs : v1.disk[e] \in Nat /\ v1'.disk[e] \in Nat /\ v1'.disk[e] >= v1.disk[e]
      BY <3>2, <3>3
    <3> QED
      BY <3>4, <3>5, <3>6
  <2> QED
    BY <2>1, <2>2
<1>2. BeadsTypes'
  BY <1>1 DEF BeadsInv, BeadsTypes
<1>3. ReadFromDisk'
  <2>1. \A t \in v2.threads : t \in Threads
    BY DEF BeadsInv, BeadsTypes
  <2>2. \A i \in 1 .. Len(v2.inbox) : v2.inbox[i] \in Answers
    BY ElementOfSeq DEF BeadsInv, BeadsTypes
  <2>3. v2.beads_tasks \in [Dirs -> Nat]
    BY DEF BeadsInv, BeadsTypes
  <2>4. \A t \in v2.threads : t.version <= v1'.disk[t.dir] /\ (t.at = "reading" => t.version = Beads!Unread)
    BY <1>1, <2>1 DEF BeadsInv, ReadFromDisk, Threads
  <2>5. \A i \in 1 .. Len(v2.inbox) : v2.inbox[i].version <= v1'.disk[v2.inbox[i].dir]
    BY <1>1, <2>2 DEF BeadsInv, ReadFromDisk, Answers
  <2>6. \A d \in Dirs : v2.beads_tasks[d] <= v1'.disk[d]
    BY <1>1, <2>3 DEF BeadsInv, ReadFromDisk
  <2> QED
    BY <1>1, <2>4, <2>5, <2>6 DEF ReadFromDisk
<1> QED
  BY <1>1, <1>2, <1>3 DEF BeadsInv, Awaited, Beads!OneReadEach, Newer, InOrder

\* A poll starts a read where none is awaited.
LEMMA BeadsPolls ==
  ASSUME BeadsInv, Beads!Poll
  PROVE  BeadsInv'
<1>1. PICK d \in Dirs : d = v1.selected
  BY DEF Beads!Poll, BeadsInv, BeadsTypes
<1>2. PICK read : read = [id |-> v1.reads + 1, dir |-> d, at |-> "reading", version |-> 0]
  OBVIOUS
<1>3. CASE v2.pending[d] = 0
  <2>1. /\ v2' = [v2 EXCEPT !.polling = d, !.pending[d] = read.id, !.threads = @ \cup {read}]
        /\ v1' = [v1 EXCEPT !.reads = @ + 1]
    BY <1>1, <1>2, <1>3 DEF Beads!Poll, Beads!Starts, Beads!Unread
  <2>2. /\ v2'.polling = d /\ v2'.pending = [v2.pending EXCEPT ![d] = read.id]
        /\ v2'.threads = v2.threads \cup {read} /\ v2'.inbox = v2.inbox /\ v2'.beads_tasks = v2.beads_tasks
        /\ v2' = [v2 EXCEPT !.polling = d, !.pending = [v2.pending EXCEPT ![d] = read.id],
                            !.threads = v2.threads \cup {read}]
        /\ v1'.disk = v1.disk
    BY <2>1 DEF BeadsInv, BeadsTypes
  <2>3. v1.reads \in Nat /\ v2.pending \in [Dirs -> Nat] /\ v2.threads \in SUBSET Threads /\ v1.disk \in [Dirs -> Nat]
        /\ v2.inbox \in Seq(Answers) /\ v2.beads_tasks \in [Dirs -> Nat]
    BY DEF BeadsInv, BeadsTypes
  <2>4. read \in Threads /\ read.id = v1.reads + 1 /\ read.dir = d /\ read.version = 0 /\ read.at = "reading"
    BY <1>2, <2>3 DEF Threads
  <2>5. BeadsTypes'
    <3>1. [v2.pending EXCEPT ![d] = read.id] \in [Dirs -> Nat] /\ v2.threads \cup {read} \in SUBSET Threads
      BY <2>3, <2>4 DEF Threads
    <3>2. v2' \in [polling : Dirs \cup {Beads!NoDir}, pending : [Dirs -> Nat], threads : SUBSET Threads,
             inbox : Seq(Answers), beads_tasks : [Dirs -> Nat]]
      BY <2>2, <3>1 DEF BeadsInv, BeadsTypes
    <3>3. v1' \in [selected : Dirs \cup {Beads!NoDir}, disk : [Dirs -> Nat], reads : Nat]
      <4>1. v1' = [v1 EXCEPT !.reads = v1.reads + 1] /\ v1.reads + 1 \in Nat
        BY <2>1, <2>3
      <4> QED
        BY <4>1 DEF BeadsInv, BeadsTypes
    <3> QED
      BY <3>2, <3>3 DEF BeadsTypes
  <2>6. \A t \in v2.threads : t.dir # d /\ t.dir \in Dirs /\ t.id # 0
    BY <1>3, <2>3 DEF BeadsInv, Awaited, Threads
  <2>7. Awaited'
    <3>1. \A t \in v2.threads : v2'.pending[t.dir] = t.id
      BY <2>2, <2>3, <2>6 DEF BeadsInv, Awaited
    <3>2. v2'.pending[read.dir] = read.id
      BY <2>2, <2>3, <2>4
    <3> QED
      BY <2>2, <2>4, <2>6, <3>1, <3>2 DEF BeadsInv, Awaited, Beads!OneReadEach
  <2>8. ReadFromDisk'
    BY <2>2, <2>3, <2>4 DEF BeadsInv, ReadFromDisk, Beads!Unread
  <2>9. \A t \in v2'.threads : Newer(t)'
    BY <2>2, <2>4 DEF BeadsInv, Newer, Beads!Unread
  <2> QED
    BY <2>2, <2>5, <2>7, <2>8, <2>9 DEF BeadsInv, InOrder
<1>4. CASE v2.pending[d] # 0
  <2>1. v2' = [v2 EXCEPT !.polling = d] /\ v1' = v1
    BY <1>1, <1>4 DEF Beads!Poll, Beads!Starts
  <2>2. BeadsTypes'
    BY <2>1 DEF BeadsInv, BeadsTypes
  <2>3. v2'.pending = v2.pending /\ v2'.threads = v2.threads /\ v2'.inbox = v2.inbox /\ v2'.beads_tasks = v2.beads_tasks
    BY <2>1 DEF BeadsInv, BeadsTypes
  <2> QED
    BY <2>1, <2>2, <2>3 DEF BeadsInv, Awaited, Beads!OneReadEach, ReadFromDisk, Newer, InOrder
<1> QED
  BY <1>3, <1>4

\* A read that goes on replaces itself: by one of what the file has now, or the same.
LEMMA BeadsReads ==
  ASSUME BeadsInv, Beads!ThreadReads \/ Beads!ThreadAnswers
  PROVE  BeadsInv'
<1>1. PICK t, u :
        /\ t \in v2.threads
        /\ v2' = [v2 EXCEPT !.threads = (@ \ {t}) \cup {u}] /\ v1' = v1
        /\ \/ u = [t EXCEPT !.at = "read", !.version = v1.disk[t.dir]]
           \/ u = [t EXCEPT !.at = "ended"]
  <2>1. CASE Beads!ThreadReads
    BY <2>1 DEF Beads!ThreadReads
  <2>2. CASE Beads!ThreadAnswers
    BY <2>2 DEF Beads!ThreadAnswers
  <2> QED
    BY <2>1, <2>2
<1>2. /\ v2.pending \in [Dirs -> Nat] /\ v2.threads \in SUBSET Threads /\ v1.disk \in [Dirs -> Nat]
      /\ v2.inbox \in Seq(Answers) /\ v2.beads_tasks \in [Dirs -> Nat] /\ t \in Threads
  BY <1>1 DEF BeadsInv, BeadsTypes
<1>3. /\ u \in Threads /\ u.id = t.id /\ u.dir = t.dir /\ u.at # "reading"
      /\ u.version = v1.disk[t.dir] \/ u.version = t.version
  <2>1. t.dir \in Dirs /\ v1.disk[t.dir] \in Nat
    BY <1>2 DEF Threads
  <2> QED
    BY <1>1, <1>2, <2>1 DEF Threads
<1>4. /\ v2'.threads = (v2.threads \ {t}) \cup {u} /\ v2'.pending = v2.pending /\ v2'.inbox = v2.inbox
      /\ v2'.beads_tasks = v2.beads_tasks /\ v2'.polling = v2.polling
  BY <1>1 DEF BeadsInv, BeadsTypes
<1>5. BeadsTypes'
  <2>1. v2' = [v2 EXCEPT !.threads = (v2.threads \ {t}) \cup {u}] /\ (v2.threads \ {t}) \cup {u} \in SUBSET Threads
    BY <1>1, <1>2, <1>3
  <2> QED
    BY <1>1, <2>1 DEF BeadsInv, BeadsTypes
<1>6. Awaited'
  <2>1. \A s \in v2.threads : s.dir = t.dir => s = t
    BY <1>1 DEF BeadsInv, Awaited, Beads!OneReadEach
  <2>2. Beads!OneReadEach'
    BY <1>3, <1>4, <2>1 DEF BeadsInv, Awaited, Beads!OneReadEach
  <2>3. \A s \in v2'.threads : v2'.pending[s.dir] = s.id
    BY <1>1, <1>3, <1>4 DEF BeadsInv, Awaited
  <2> QED
    BY <2>2, <2>3 DEF Awaited
<1>7. ReadFromDisk'
  <2>1. u.version <= v1.disk[u.dir]
    <3>1. PICK n \in Nat : n = v1.disk[t.dir]
      BY <1>2 DEF Threads
    <3>2. t.version <= n
      BY <1>1, <3>1 DEF BeadsInv, ReadFromDisk
    <3> QED
      BY <1>3, <3>1, <3>2
  <2> QED
    BY <1>1, <1>3, <1>4, <2>1 DEF BeadsInv, ReadFromDisk
<1>8. \A s \in v2'.threads : Newer(s)'
  <2>1. ASSUME NEW s \in v2.threads  PROVE Newer(s)'
    BY <1>4, <2>1 DEF BeadsInv, Newer
  <2>2. Newer(u)'
    <3>1. CASE u.version = t.version
      BY <1>1, <1>3, <1>4, <2>1, <3>1 DEF Newer
    <3>2. CASE u.version = v1.disk[t.dir]
      <4>1. u.version >= v2.beads_tasks[u.dir]
        <5>1. v2.beads_tasks[t.dir] <= v1.disk[t.dir] /\ v2.beads_tasks[t.dir] \in Nat /\ v1.disk[t.dir] \in Nat
          BY <1>2 DEF BeadsInv, ReadFromDisk, Threads
        <5> QED
          BY <1>3, <3>2, <5>1
      <4>2. ASSUME NEW i \in 1 .. Len(v2.inbox), v2.inbox[i].dir = u.dir
            PROVE  u.version >= v2.inbox[i].version
        <5>1. v2.inbox[i] \in Answers
          BY <1>2, ElementOfSeq
        <5>2. v2.inbox[i].version <= v1.disk[u.dir] /\ v2.inbox[i].version \in Nat /\ v1.disk[u.dir] \in Nat
          BY <1>2, <4>2, <5>1 DEF BeadsInv, ReadFromDisk, Answers
        <5> QED
          BY <1>3, <3>2, <5>2
      <4> QED
        BY <1>4, <4>1, <4>2 DEF Newer
    <3> QED
      BY <1>3, <3>1, <3>2
  <2> QED
    BY <1>4, <2>1, <2>2
<1> QED
  BY <1>4, <1>5, <1>6, <1>7, <1>8 DEF BeadsInv, InOrder

\* An answer that is there joins the answers on their way, and its directory may be read again.
LEMMA BeadsReturns ==
  ASSUME BeadsInv, Beads!PollReturns
  PROVE  BeadsInv'
<1>1. PICK t, inbox :
        /\ t \in v2.threads
        /\ v2' = [v2 EXCEPT !.polling = Beads!NoDir, !.pending[t.dir] = 0, !.threads = @ \ {t}, !.inbox = inbox]
        /\ v1' = v1
        /\ \/ inbox = v2.inbox
           \/ t.version # 0 /\ inbox = Append(v2.inbox, [dir |-> t.dir, version |-> t.version])
  <2>1. PICK t \in v2.threads :
          /\ v2' = [v2 EXCEPT !.polling = Beads!NoDir, !.pending[t.dir] = 0, !.threads = @ \ {t},
                              !.inbox = IF t.version = Beads!Unread THEN @ ELSE Append(@, [dir |-> t.dir, version |-> t.version])]
          /\ v1' = v1
    BY DEF Beads!PollReturns
  <2>2. PICK inbox : inbox = IF t.version = 0 THEN v2.inbox ELSE Append(v2.inbox, [dir |-> t.dir, version |-> t.version])
    OBVIOUS
  <2>3. v2' = [v2 EXCEPT !.polling = Beads!NoDir, !.pending[t.dir] = 0, !.threads = @ \ {t}, !.inbox = inbox]
    BY <2>1, <2>2 DEF Beads!Unread
  <2> QED
    BY <2>1, <2>2, <2>3
<1>2. /\ v2.pending \in [Dirs -> Nat] /\ v2.threads \in SUBSET Threads /\ v1.disk \in [Dirs -> Nat]
      /\ v2.inbox \in Seq(Answers) /\ v2.beads_tasks \in [Dirs -> Nat] /\ t \in Threads
      /\ t.dir \in Dirs /\ t.version \in Nat /\ t \in v2.threads
  BY <1>1 DEF BeadsInv, BeadsTypes, Threads
<1>3. PICK answer \in Answers : answer = [dir |-> t.dir, version |-> t.version]
  BY <1>2 DEF Answers
<1>4. answer.dir = t.dir /\ answer.version = t.version
  BY <1>3
<1>5. /\ v2'.threads = v2.threads \ {t} /\ v2'.pending = [v2.pending EXCEPT ![t.dir] = 0] /\ v2'.inbox = inbox
      /\ v2'.beads_tasks = v2.beads_tasks
  BY <1>1 DEF BeadsInv, BeadsTypes
<1>6. PICK m \in Nat : m = Len(v2.inbox)
  BY <1>2, LenProperties
<1>7. CASE inbox = v2.inbox
  <2>1. BeadsTypes'
    <3>1. v2' = [v2 EXCEPT !.polling = Beads!NoDir, !.pending = [v2.pending EXCEPT ![t.dir] = 0],
                           !.threads = v2.threads \ {t}, !.inbox = inbox]
      BY <1>1 DEF BeadsInv, BeadsTypes
    <3>2. [v2.pending EXCEPT ![t.dir] = 0] \in [Dirs -> Nat] /\ v2.threads \ {t} \in SUBSET Threads /\ inbox \in Seq(Answers)
      BY <1>2, <1>7
    <3> QED
      BY <1>1, <3>1, <3>2 DEF BeadsInv, BeadsTypes
  <2>2. Awaited'
    BY <1>2, <1>5 DEF BeadsInv, Awaited, Beads!OneReadEach
  <2>3. ReadFromDisk' /\ (\A s \in v2'.threads : Newer(s)') /\ InOrder(v2.inbox)'
    BY <1>1, <1>5, <1>7 DEF BeadsInv, ReadFromDisk, Newer, InOrder
  <2> QED
    BY <1>5, <1>7, <2>1, <2>2, <2>3 DEF BeadsInv, InOrder
<1>8. CASE t.version # 0 /\ inbox = Append(v2.inbox, answer)
  <2>1. /\ inbox \in Seq(Answers) /\ Len(inbox) = m + 1 /\ inbox[m + 1] = answer
        /\ \A i \in 1 .. m : inbox[i] = v2.inbox[i]
    BY <1>2, <1>6, <1>8, AppendProperties
  <2>2. BeadsTypes'
    <3>1. v2' = [v2 EXCEPT !.polling = Beads!NoDir, !.pending = [v2.pending EXCEPT ![t.dir] = 0],
                           !.threads = v2.threads \ {t}, !.inbox = inbox]
      BY <1>1 DEF BeadsInv, BeadsTypes
    <3>2. [v2.pending EXCEPT ![t.dir] = 0] \in [Dirs -> Nat] /\ v2.threads \ {t} \in SUBSET Threads
      BY <1>2
    <3> QED
      BY <1>1, <2>1, <3>1, <3>2 DEF BeadsInv, BeadsTypes
  <2>3. Awaited'
    BY <1>2, <1>5 DEF BeadsInv, Awaited, Beads!OneReadEach
  <2>4. \A s \in v2'.threads : s \in v2.threads /\ s.dir # t.dir
    BY <1>1, <1>5 DEF BeadsInv, Awaited, Beads!OneReadEach
  <2>5. ReadFromDisk'
    <3>1. answer.version <= v1.disk[answer.dir]
      BY <1>1, <1>4 DEF BeadsInv, ReadFromDisk
    <3>2. \A i \in 1 .. m + 1 : i \in 1 .. m \/ i = m + 1
      OBVIOUS
    <3>3. \A i \in 1 .. m : v2.inbox[i].version <= v1.disk[v2.inbox[i].dir]
      BY <1>6 DEF BeadsInv, ReadFromDisk
    <3>4. \A i \in 1 .. Len(inbox) : inbox[i].version <= v1.disk[inbox[i].dir]
      BY <2>1, <3>1, <3>2, <3>3
    <3> QED
      BY <1>1, <1>5, <2>4, <3>4 DEF BeadsInv, ReadFromDisk
  <2>6. \A s \in v2'.threads : Newer(s)'
    <3> SUFFICES ASSUME NEW s \in v2'.threads, s.version # 0
                 PROVE  /\ s.version >= v2.beads_tasks[s.dir]
                        /\ \A i \in 1 .. Len(inbox) : inbox[i].dir = s.dir => s.version >= inbox[i].version
      BY <1>5 DEF Newer, Beads!Unread
    <3>1. s \in v2.threads /\ s.dir # answer.dir
      BY <1>4, <2>4
    <3>2. /\ s.version >= v2.beads_tasks[s.dir]
          /\ \A i \in 1 .. m : v2.inbox[i].dir = s.dir => s.version >= v2.inbox[i].version
      BY <1>6, <3>1 DEF BeadsInv, Newer, Beads!Unread
    <3>3. \A i \in 1 .. m + 1 : i \in 1 .. m \/ i = m + 1
      OBVIOUS
    <3> QED
      BY <2>1, <3>1, <3>2, <3>3
  <2>7. InOrder(inbox)
    <3>1. /\ t.version >= v2.beads_tasks[t.dir]
          /\ \A i \in 1 .. m : v2.inbox[i].dir = t.dir => t.version >= v2.inbox[i].version
      BY <1>1, <1>6, <1>8 DEF BeadsInv, Newer, Beads!Unread
    <3>2. \A i \in 1 .. m + 1 : i \in 1 .. m \/ i = m + 1
      OBVIOUS
    <3>3. /\ \A i \in 1 .. m : v2.inbox[i].version >= v2.beads_tasks[v2.inbox[i].dir]
          /\ \A i, j \in 1 .. m : i < j /\ v2.inbox[i].dir = v2.inbox[j].dir => v2.inbox[i].version <= v2.inbox[j].version
      BY <1>6 DEF BeadsInv, InOrder
    <3>4. \A i \in 1 .. Len(inbox) : inbox[i].version >= v2.beads_tasks[inbox[i].dir]
      BY <1>4, <2>1, <3>1, <3>2, <3>3
    <3>5. ASSUME NEW i \in 1 .. m + 1, NEW j \in 1 .. m + 1, i < j, inbox[i].dir = inbox[j].dir
          PROVE  inbox[i].version <= inbox[j].version
      <4>1. i \in 1 .. m /\ inbox[i] = v2.inbox[i] /\ inbox[i] \in Answers
        <5>1. i \in 1 .. m
          BY <3>5
        <5> QED
          BY <1>2, <1>6, <2>1, <5>1, ElementOfSeq
      <4>2. CASE j = m + 1
        <5>1. inbox[j] = answer /\ v2.inbox[i].dir = t.dir
          BY <1>4, <2>1, <3>5, <4>1, <4>2
        <5>2. t.version >= v2.inbox[i].version /\ v2.inbox[i].version \in Nat
          BY <3>1, <4>1, <5>1 DEF Answers
        <5> QED
          BY <1>2, <1>4, <4>1, <5>1, <5>2
      <4>3. CASE j \in 1 .. m
        BY <2>1, <3>3, <3>5, <4>1, <4>3
      <4> QED
        BY <3>2, <4>2, <4>3
    <3> QED
      BY <2>1, <3>4, <3>5 DEF InOrder
  <2>8. InOrder(v2.inbox)'
    BY <1>5, <2>7 DEF InOrder
  <2> QED
    BY <2>2, <2>3, <2>5, <2>6, <2>8 DEF BeadsInv
<1> QED
  BY <1>1, <1>3, <1>7, <1>8

\* The App takes the first answer: what comes after it is no older.
LEMMA BeadsUpdates ==
  ASSUME BeadsInv, Beads!BeadsUpdate
  PROVE  BeadsInv'
<1>1. /\ v2.pending \in [Dirs -> Nat] /\ v2.threads \in SUBSET Threads /\ v1.disk \in [Dirs -> Nat]
      /\ v2.inbox \in Seq(Answers) /\ v2.beads_tasks \in [Dirs -> Nat] /\ v2.inbox # <<>>
  BY DEF BeadsInv, BeadsTypes, Beads!BeadsUpdate
<1>2. PICK answer : answer = Head(v2.inbox)
  OBVIOUS
<1>3. /\ v2' = [v2 EXCEPT !.inbox = Tail(@), !.beads_tasks[answer.dir] = answer.version] /\ v1' = v1
  BY <1>2 DEF Beads!BeadsUpdate
<1>4. PICK rest : rest = Tail(v2.inbox)
  OBVIOUS
<1>5. /\ answer = v2.inbox[1] /\ answer \in Answers /\ rest \in Seq(Answers) /\ Len(v2.inbox) \in Nat /\ Len(v2.inbox) > 0
      /\ Len(rest) = Len(v2.inbox) - 1
      /\ \A i \in 1 .. Len(rest) : i + 1 \in 1 .. Len(v2.inbox) /\ rest[i] = v2.inbox[i + 1]
  BY <1>1, <1>2, <1>4, HeadTail
<1>6. answer.dir \in Dirs /\ answer.version \in Nat
  BY <1>5 DEF Answers
<1>7. PICK tasks : tasks = [v2.beads_tasks EXCEPT ![answer.dir] = answer.version]
  OBVIOUS
<1>8. /\ v2' = [v2 EXCEPT !.inbox = rest, !.beads_tasks = tasks]
      /\ v2'.threads = v2.threads /\ v2'.pending = v2.pending /\ v2'.inbox = rest /\ v2'.beads_tasks = tasks
  BY <1>3, <1>4, <1>7 DEF BeadsInv, BeadsTypes
<1>9. tasks \in [Dirs -> Nat] /\ tasks[answer.dir] = answer.version /\ \A d \in Dirs : d # answer.dir => tasks[d] = v2.beads_tasks[d]
  BY <1>1, <1>6, <1>7
<1>10. BeadsTypes'
  BY <1>3, <1>5, <1>8, <1>9 DEF BeadsInv, BeadsTypes
<1>11. Awaited'
  BY <1>8 DEF BeadsInv, Awaited, Beads!OneReadEach
<1>12. \A i \in 1 .. Len(rest) : rest[i] \in Answers /\ rest[i].dir \in Dirs /\ rest[i].version \in Nat
  <2>1. \A i \in 1 .. Len(rest) : rest[i] \in Answers
    BY <1>5, ElementOfSeq
  <2> QED
    BY <2>1 DEF Answers
<1>13. ReadFromDisk'
  <2>1. 1 \in 1 .. Len(v2.inbox)
    BY <1>5
  <2>2. answer.version <= v1.disk[answer.dir]
    BY <1>5, <2>1 DEF BeadsInv, ReadFromDisk
  <2>3. \A d \in Dirs : tasks[d] <= v1.disk[d]
    BY <1>9, <2>2 DEF BeadsInv, ReadFromDisk
  <2>4. \A i \in 1 .. Len(rest) : rest[i].version <= v1.disk[rest[i].dir]
    BY <1>5 DEF BeadsInv, ReadFromDisk
  <2> QED
    BY <1>3, <1>8, <2>3, <2>4 DEF BeadsInv, ReadFromDisk
<1>14. \A t \in v2.threads : Newer(t)'
  <2> SUFFICES ASSUME NEW t \in v2.threads, t.version # 0
               PROVE  /\ t.version >= tasks[t.dir]
                      /\ \A i \in 1 .. Len(rest) : rest[i].dir = t.dir => t.version >= rest[i].version
    BY <1>8 DEF Newer, Beads!Unread
  <2>1. /\ t.version >= v2.beads_tasks[t.dir] /\ t.dir \in Dirs
        /\ \A i \in 1 .. Len(v2.inbox) : v2.inbox[i].dir = t.dir => t.version >= v2.inbox[i].version
    BY <1>1 DEF BeadsInv, Newer, Beads!Unread, Threads
  <2>2. 1 \in 1 .. Len(v2.inbox)
    BY <1>5
  <2>3. t.version >= tasks[t.dir]
    BY <1>5, <1>9, <2>1, <2>2
  <2> QED
    BY <1>5, <2>1, <2>3
<1>15. InOrder(rest)'
  <2>1. 1 \in 1 .. Len(v2.inbox) /\ \A i \in 1 .. Len(rest) : 1 < i + 1
    BY <1>5
  <2>2. ASSUME NEW i \in 1 .. Len(rest)  PROVE rest[i].version >= tasks[rest[i].dir]
    <3>1. rest[i] = v2.inbox[i + 1] /\ i + 1 \in 1 .. Len(v2.inbox) /\ rest[i].dir \in Dirs
      BY <1>5, <1>12
    <3>2. CASE rest[i].dir = answer.dir
      <4>1. answer.version <= rest[i].version
        BY <1>5, <2>1, <3>1, <3>2 DEF BeadsInv, InOrder
      <4>2. rest[i].version \in Nat
        BY <1>12
      <4> QED
        BY <1>6, <1>9, <3>2, <4>1, <4>2
    <3>3. CASE rest[i].dir # answer.dir
      <4>1. rest[i].version >= v2.beads_tasks[rest[i].dir]
        BY <3>1 DEF BeadsInv, InOrder
      <4> QED
        BY <1>9, <3>1, <3>3, <4>1
    <3> QED
      BY <3>2, <3>3
  <2>3. ASSUME NEW i \in 1 .. Len(rest), NEW j \in 1 .. Len(rest), i < j, rest[i].dir = rest[j].dir
        PROVE  rest[i].version <= rest[j].version
    <3>1. i + 1 \in 1 .. Len(v2.inbox) /\ j + 1 \in 1 .. Len(v2.inbox) /\ i + 1 < j + 1
      BY <1>5, <2>3
    <3> QED
      BY <1>5, <2>3, <3>1 DEF BeadsInv, InOrder
  <2> QED
    BY <1>8, <2>2, <2>3 DEF InOrder
<1> QED
  BY <1>8, <1>10, <1>11, <1>13, <1>14, <1>15 DEF BeadsInv, InOrder

\* Whatever the user, the files, the threads and the App do.
LEMMA BeadsKeepInv ==
  ASSUME BeadsInv, [Beads!Next]_<<v1, v2>>
  PROVE  BeadsInv'
<1>1. CASE UNCHANGED <<v1, v2>>
  BY <1>1 DEF BeadsInv, BeadsTypes, Awaited, Beads!OneReadEach, ReadFromDisk, Newer, InOrder
<1>2. CASE Beads!PollTimesOut
  <2>1. v2' = [v2 EXCEPT !.polling = Beads!NoDir, !.pending = v2.pending] /\ v1' = v1
    BY <1>2 DEF Beads!PollTimesOut, Beads!KeepsRead
  <2>2. BeadsTypes'
    BY <2>1 DEF BeadsInv, BeadsTypes
  <2>3. v2'.pending = v2.pending /\ v2'.threads = v2.threads /\ v2'.inbox = v2.inbox /\ v2'.beads_tasks = v2.beads_tasks
    BY <2>1 DEF BeadsInv, BeadsTypes
  <2> QED
    BY <2>1, <2>2, <2>3 DEF BeadsInv, Awaited, Beads!OneReadEach, ReadFromDisk, Newer, InOrder
<1> QED
  BY <1>1, <1>2, BeadsWorld, BeadsPolls, BeadsReads, BeadsReturns, BeadsUpdates DEF Beads!Next

\* No directory is read twice at once, and nothing older comes.
LEMMA BeadsOrdered == BeadsInv => Beads!NothingOlderComes /\ Beads!OneReadEach
<1> SUFFICES ASSUME BeadsInv  PROVE Beads!NothingOlderComes
  BY DEF BeadsInv, Awaited
<1>1. v2.inbox \in Seq(Answers) /\ DOMAIN v2.inbox = 1 .. Len(v2.inbox)
  BY LenProperties DEF BeadsInv, BeadsTypes
<1>2. \A t \in v2.threads : Newer(t)
  BY DEF BeadsInv
<1>3. InOrder(v2.inbox)
  BY DEF BeadsInv
<1> QED
  BY <1>1, <1>2, <1>3 DEF Beads!NothingOlderComes, Newer, InOrder

-----------------------------------------------------------------------------
(* The parts together: each step is of the part that `part` names, which      *)
(* stays, and changes what its variables are.                                *)

TerminalInv ==
  /\ part = "send" => SendInv
  /\ part = "windows" => WindowsInv
  /\ part = "split" => LayoutInv
  /\ part = "make" => MakeInv
  /\ part = "tui" => ScreenInv
  /\ part = "beads" => BeadsInv

\* Whichever part it is, its invariant holds at first.
LEMMA TerminalInit == Init => TerminalInv
<1> SUFFICES ASSUME Init  PROVE TerminalInv
  OBVIOUS
<1>1. /\ part = "send" => Send!Init
      /\ part = "windows" => Windows!Init
      /\ part = "split" => Split!Init
      /\ part = "make" => Make!Init
      /\ part = "tui" => Tui!Init
      /\ part = "beads" => Beads!Init
  BY DEF Init
<1> QED
  BY <1>1, SendInit, WindowsInit, LayoutInit, MakeInit, ScreenInit, BeadsInit DEF TerminalInv

\* Each step is of one part, and keeps its invariant.
LEMMA TerminalStep ==
  ASSUME TerminalInv, [Next]_vars
  PROVE  /\ TerminalInv'
         /\ part' = part
         /\ part = "send" => [Send!Next]_<<v1, v2>>
         /\ part = "windows" => [Windows!Next]_<<v1, v2>>
         /\ part = "tui" => [Tui!Next]_<<v1, v2, v3, v4, v5, v6>>
<1>1. /\ part' = part
      /\ part = "send" => [Send!Next]_<<v1, v2>>
      /\ part = "windows" => [Windows!Next]_<<v1, v2>>
      /\ part = "split" => [Split!Next]_<<v1, v2>>
      /\ part = "make" => [Make!Next]_<<v1, v2>>
      /\ part = "tui" => [Tui!Next]_<<v1, v2, v3, v4, v5, v6>>
      /\ part = "beads" => [Beads!Next]_<<v1, v2>>
  BY DEF Next, vars, Of, Of2, Of3, Of6
<1>2. part = "send" => SendInv'
  BY <1>1, SendKeepsInv DEF TerminalInv
<1>3. part = "windows" => WindowsInv'
  BY <1>1, WindowsKeepInv DEF TerminalInv
<1>4. part = "split" => LayoutInv'
  BY <1>1, LayoutKeepsInv DEF TerminalInv
<1>5. part = "make" => MakeInv'
  BY <1>1, MakeKeepsInv DEF TerminalInv
<1>6. part = "tui" => ScreenInv'
  BY <1>1, ScreenKeepsInv DEF TerminalInv
<1>7. part = "beads" => BeadsInv'
  BY <1>1, BeadsKeepInv DEF TerminalInv
<1> QED
  BY <1>1, <1>2, <1>3, <1>4, <1>5, <1>6, <1>7 DEF TerminalInv

\* TerminalInv: each part's invariant holds in every state.
THEOREM TerminalHold == Spec => []TerminalInv
<1>1. TerminalInv /\ [Next]_vars => TerminalInv'
  BY TerminalStep
<1> QED
  BY <1>1, TerminalInit, PTL DEF Spec

\* TmuxLeftInOrder: a window gets one sidebar, unless a failure or the hook's script left
\* one half made there; each leaf of a layout gets one pane, in the tree's order; the
\* caller of `atm spawn` has the name of each pane it made, which runs what was asked; and
\* no `atm send` leaves its paste buffer behind.
THEOREM TmuxLeavesOrder == Spec => []TmuxLeftInOrder
<1>1. TerminalInv => TmuxLeftInOrder
  BY WindowsOne, LayoutDone, MakeInOrder, SendBufferGone DEF TerminalInv, TmuxLeftInOrder
<1> QED
  BY <1>1, TerminalHold, PTL

\* CommandsKeepWord: `atm send` answers no dialog that its list showed, `reply` picks the
\* option asked for, and an attach that reports success has made every sidebar whole.
THEOREM SendAttachKeepWord == Spec => CommandsKeepWord
<1>1. TerminalInv /\ [Next]_vars =>
        [(part = "send" => Send!AnswersNoShownDialog /\ Send!PicksOption)
           /\ (part = "windows" => Windows!Completes)]_vars
  BY TerminalStep, SendKeepsWord, WindowsComplete DEF TerminalInv
<1> QED
  BY <1>1, TerminalHold, PTL DEF Spec, CommandsKeepWord

\* ScreenTrue: whatever the user types, whatever lists come and however late a capture is,
\* the screen's rows are those of the list shown, with the cursor on one, the preview is of
\* the agent under the cursor, and the tree holds each listed agent once; beside it no
\* directory's tasks go back to older ones, nor do reads that hang pile up in one.
THEOREM ScreenHolds == Spec => []ScreenTrue
<1>1. TerminalInv => ScreenTrue
  BY ScreenShown, BeadsOrdered DEF TerminalInv, ScreenTrue
<1> QED
  BY <1>1, TerminalHold, PTL

\* FilterKeepsPlace: while a filter is active, no list that comes and no change of the panes
\* hides a match that was on the screen, or keeps a new one off it; and the end of a filter
\* leaves the cursor on the row it was on, if the whole list has it.
THEOREM FilterHolds == Spec => FilterKeepsPlace
<1>1. TerminalInv /\ [Next]_vars => [part = "tui" => Tui!KeepsMatchesVisible /\ Tui!KeepsCursor]_vars
  <2> SUFFICES ASSUME TerminalInv, [Next]_vars, part = "tui"  PROVE Tui!KeepsMatchesVisible /\ Tui!KeepsCursor
    OBVIOUS
  <2>1. ScreenInv /\ [Tui!Next]_<<v1, v2, v3, v4, v5, v6>>
    BY TerminalStep DEF TerminalInv
  <2> QED
    BY <2>1, ToldShows, EndKeeps
<1> QED
  BY <1>1, TerminalHold, PTL DEF Spec, FilterKeepsPlace

=============================================================================
