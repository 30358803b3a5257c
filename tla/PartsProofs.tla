------------------------------ MODULE PartsProofs ------------------------------
(***************************************************************************)
(* For every choice of the bounds: what MCParts checks of an agent's       *)
(* figures and status, of setup and uninstall, of the scan for agents and  *)
(* of the keys.  Each part has an invariant over its own variables and a   *)
(* lemma per action; the last section puts the parts together.             *)
(***************************************************************************)
EXTENDS TerminalProofs

-----------------------------------------------------------------------------
(* Usage.  Its variables are v1 (agent), v2 (reports) and v3 (row).           *)

Opt == Nat \cup {NoFigure}
Records == [kind : {"usage", "other", "placeholder", "partial", "none"}, context : Opt, total : Opt, window : Opt]
StatusLines == [kind : {"line"}, context : Nat, window : Nat, cost : Nat, model : Opt]
Frames == [kind : {"frame"}, usage : [cost : Opt, total : Opt, context : Opt], window : Opt]
ModelNews == [kind : {"model"}, model : Nat]
CodexHooks == [kind : {"hook"}, stage : {"status", "read", "apply"}, usage : Records]
FigureRows == [exists : BOOLEAN, context : Nat, total : Nat, window : Nat \ {0}, cost : Nat, model : Nat]

FigureAgents ==
  [vendor : {"claude", "codex", "pi", "oldpi"}, context : Opt, requests : Nat, window : Nat \ {0},
   model : Nat, seen : SUBSET Nat, file : Seq(Records), sent : Nat, told : BOOLEAN]

FigureTypes ==
  /\ v1 \in FigureAgents
  /\ v2 \in Seq(StatusLines \cup Frames \cup ModelNews \cup CodexHooks)
  /\ v3 \in FigureRows

\* The contexts on the agent, in its rollout file and on its row are ones it had.
Seen(context) == context = NoFigure \/ context \in v1.seen
FileTrue(file) ==
  \A i \in 1 .. Len(file) : file[i].kind = "usage" => Seen(file[i].context) /\ file[i].window \in Nat \ {0}
FileSeen ==
  /\ 0 \in v1.seen /\ (v1.vendor # "pi" => v1.context # NoFigure)
  /\ Seen(v1.context) /\ v3.context \in v1.seen /\ FileTrue(v1.file)

\* Each vendor's reports tell such contexts only, for want of one nothing that would be
\* taken for it, and no window of 0 that would be taken for one.
ReportTrue(r) ==
  \/ v1.vendor = "claude" /\ r \in StatusLines /\ r.context \in v1.seen
  \/ /\ v1.vendor \in {"pi", "oldpi"} /\ r \in Frames /\ r.window # 0 /\ Seen(r.usage.context)
     /\ r.usage.cost = NoFigure => r.usage.context = NoFigure /\ r.usage.total = NoFigure
     /\ v1.vendor = "oldpi" => r.usage.context = NoFigure /\ Seen(r.usage.total)
  \/ v1.vendor = "pi" /\ r \in ModelNews
  \/ /\ v1.vendor = "codex" /\ r \in CodexHooks
     /\ r.stage = "apply" /\ r.usage.kind # "none" => r.usage.context \in v1.seen /\ r.usage.window # 0
ReportsTrue == \A i \in 1 .. Len(v2) : ReportTrue(v2[i])

\* Once it has told everything, its last report with a cost is of now, or the row is.
Telling(r) == r.kind = "line" \/ (r.kind = "frame" /\ r.usage.cost # NoFigure)
OfNow(r) ==
  /\ r.kind = "line" => r.cost = v1.requests /\ r.context = v1.context
  /\ r.kind = "frame" => r.usage.cost = v1.requests /\ r.usage.context = v1.context
LastTold ==
  v1.told =>
    /\ v1.vendor \in {"claude", "pi"}
    /\ \/ \E i \in 1 .. Len(v2) :
            Telling(v2[i]) /\ OfNow(v2[i]) /\ \A j \in 1 .. Len(v2) : j > i => ~ Telling(v2[j])
       \/ /\ \A i \in 1 .. Len(v2) : ~ Telling(v2[i])
          /\ v3.cost = v1.requests
          /\ v1.context # NoFigure => v3.context = v1.context

FiguresInv == FigureTypes /\ FileSeen /\ ReportsTrue /\ LastTold

\* At first there is no file, no report and nothing on the row.
LEMMA FiguresInit == Figures!Init => FiguresInv
<1> SUFFICES ASSUME Figures!Init  PROVE FiguresInv
  OBVIOUS
<1>1. PICK vendor \in {"claude", "codex", "pi", "oldpi"} :
        v1 = [vendor |-> vendor, context |-> 0, requests |-> 0, window |-> 5, model |-> 1,
              seen |-> {0}, file |-> <<>>, sent |-> 0, told |-> FALSE]
  BY DEF Figures!Init
<1>2. v2 = <<>> /\ v3 = [exists |-> FALSE, context |-> 0, total |-> 0, window |-> 3, cost |-> 0, model |-> 0]
  BY DEF Figures!Init, Figures!NoFigures, Figures!DefaultWindow
<1>3. NoFigure \notin Nat
  BY PartsAssumption
<1>4. FigureTypes
  BY <1>1, <1>2 DEF FigureTypes, FigureAgents, FigureRows, Opt
<1>5. FileSeen /\ ReportsTrue /\ LastTold
  BY <1>1, <1>2, <1>3 DEF FileSeen, FileTrue, Seen, ReportsTrue, LastTold
<1> QED
  BY <1>4, <1>5 DEF FiguresInv

\* A report that was true stays so, as the agent's contexts only grow in number.
LEMMA StillTrue ==
  ASSUME v1'.vendor = v1.vendor, v1.seen \subseteq v1'.seen, NEW r, ReportTrue(r)
  PROVE  ReportTrue(r)'
  BY DEF ReportTrue, Seen

\* What comes of the file when a record is written: the torn one at its end goes.
WrittenTo(file, r, new) ==
  /\ new \in Seq(Records)
  /\ \A i \in 1 .. Len(new) : new[i] = r \/ \E j \in 1 .. Len(file) : new[i] = file[j]

\* What is in the new file was in the old one, but for the record written.
LEMMA FileWrites ==
  ASSUME NEW file \in Seq(Records), NEW r \in Records, NEW new, new = Append(Figures!Written(file), r)
  PROVE  WrittenTo(file, r, new)
<1> DEFINE w == Figures!Written(file)
<1>1. w \in Seq(Records) /\ \A i \in 1 .. Len(w) : \E j \in 1 .. Len(file) : w[i] = file[j]
  <2>1. CASE w = file
    BY <2>1
  <2>2. CASE w # file
    <3>1. file # <<>> /\ w = SubSeq(file, 1, Len(file) - 1)
      BY <2>2 DEF Figures!Written, Figures!Front
    <3>2. Len(file) \in Nat /\ Len(file) > 0
      BY <3>1, EmptySeq, LenProperties
    <3>3. /\ SubSeq(file, 1, Len(file) - 1) \in Seq(Records)
          /\ Len(SubSeq(file, 1, Len(file) - 1)) = Len(file) - 1
          /\ \A i \in 1 .. Len(file) - 1 : SubSeq(file, 1, Len(file) - 1)[i] = file[i]
      <4>1. SubSeq(file, 1, Len(file) - 1) = [i \in 1 .. Len(file) - 1 |-> file[i]]
        BY <3>2
      <4> DEFINE n == Len(file) - 1
                 c == [i \in 1 .. n |-> file[i]]
      <4>2. n \in Nat /\ \A i \in 1 .. n : file[i] \in Records
        BY <3>2, ElementOfSeq
      <4> HIDE DEF n
      <4>3. c \in Seq(Records) /\ Len(c) = n /\ \A i \in 1 .. n : c[i] = file[i]
        BY <4>2
      <4>4. SubSeq(file, 1, n) = c
        BY <4>1 DEF n
      <4> HIDE DEF c
      <4> QED
        BY <4>3, <4>4 DEF n
    <3> HIDE DEF w
    <3>4. /\ w \in Seq(Records) /\ Len(w) = Len(file) - 1
          /\ \A i \in 1 .. Len(file) - 1 : w[i] = file[i] /\ i \in 1 .. Len(file)
      BY <3>1, <3>2, <3>3
    <3> QED
      BY <3>4
  <2> QED
    BY <2>1, <2>2
<1> HIDE DEF w
<1>2. new = Append(w, r)
  BY DEF w
<1>3. /\ new \in Seq(Records) /\ Len(w) \in Nat /\ Len(new) = Len(w) + 1 /\ new[Len(w) + 1] = r
      /\ \A i \in 1 .. Len(w) : new[i] = w[i]
  BY <1>1, <1>2, AppendProperties, LenProperties
<1>4. \A i \in 1 .. Len(new) : i \in 1 .. Len(w) \/ i = Len(w) + 1
  BY <1>3
<1> QED
  BY <1>1, <1>3, <1>4 DEF WrittenTo

\* The agent does something that it reports to nobody yet.
LEMMA FiguresWorld ==
  ASSUME FiguresInv, v2' = v2, v3' = v3, v1' \in FigureAgents, v1'.vendor = v1.vendor, v1.seen \subseteq v1'.seen,
         v1'.vendor # "pi" => v1'.context # NoFigure,
         NEW context, context = v1'.context, Seen(context)', NEW file, file = v1'.file, FileTrue(file)',
         v1'.told => v1.told /\ v1'.requests = v1.requests /\ v1'.context = v1.context
  PROVE  FiguresInv'
<1>1. FigureTypes /\ FileSeen /\ ReportsTrue /\ LastTold
  BY DEF FiguresInv
<1>2. FigureTypes'
  BY <1>1 DEF FigureTypes, FigureAgents
<1>3. FileSeen'
  <2>1. (Seen(v1.context))' /\ (FileTrue(v1.file))'
    BY DEF Seen, FileTrue
  <2> QED
    BY <1>1, <2>1 DEF FileSeen
<1>4. ReportsTrue'
  <2> SUFFICES ASSUME NEW i \in 1 .. Len(v2)  PROVE ReportTrue(v2[i])'
    BY DEF ReportsTrue
  <2>1. PICK r : r = v2[i]
    OBVIOUS
  <2>2. ReportTrue(r)
    BY <1>1, <2>1 DEF ReportsTrue
  <2>3. ReportTrue(r)'
    BY <2>2, StillTrue
  <2> QED
    BY <2>1, <2>3 DEF ReportTrue
<1>5. LastTold'
  BY <1>1 DEF LastTold, OfNow
<1> QED
  BY <1>2, <1>3, <1>4, <1>5 DEF FiguresInv

\* What the agent does before it reports keeps the invariant.
LEMMA FiguresUnsent ==
  ASSUME FiguresInv, Figures!Request \/ Figures!FileGrows \/ Figures!Compacts
  PROVE  FiguresInv'
<1>1. FigureTypes /\ FileSeen /\ NoFigure \notin Nat /\ v1 \in FigureAgents
  BY PartsAssumption DEF FiguresInv, FigureTypes, FigureAgents
<1>2. /\ v1.requests \in Nat /\ v1.requests + 1 \in Nat /\ 10 * (v1.requests + 1) \in Nat /\ 10 * v1.requests \in Nat
      /\ v1.file \in Seq(Records) /\ v1.seen \in SUBSET Nat /\ v1.window \in Nat \ {0}
  BY <1>1 DEF FigureAgents
<1>3. v2' = v2 /\ v3' = v3
  BY DEF Figures!Request, Figures!FileGrows, Figures!Compacts
<1>4. /\ v1.vendor # "pi" => v1.context # NoFigure
      /\ Seen(v1.context) /\ FileTrue(v1.file) /\ 0 \in v1.seen
  BY <1>1 DEF FileSeen
<1>5. CASE Figures!Request
  <2>1. PICK context \in {1, 2} :
          v1' = [v1 EXCEPT !.context = context, !.requests = @ + 1, !.seen = @ \cup {context}, !.told = FALSE,
                   !.file = IF v1.vendor = "codex"
                              THEN Append(Figures!Written(v1.file),
                                          Figures!Count(context, 10 * (v1.requests + 1), v1.window))
                              ELSE @]
    BY <1>5 DEF Figures!Request, Figures!Is
  <2> DEFINE r == Figures!Count(context, 10 * (v1.requests + 1), v1.window)
  <2>2. r \in Records /\ r.context = context /\ r.window = v1.window /\ context \in Nat
    BY <1>2 DEF Figures!Count, Records, Opt
  <2>3. PICK file : file = IF v1.vendor = "codex" THEN Append(Figures!Written(v1.file), r) ELSE v1.file
    OBVIOUS
  <2> HIDE DEF r
  <2>4. file = v1.file \/ WrittenTo(v1.file, r, file)
    <3>1. CASE file = Append(Figures!Written(v1.file), r)
      BY ONLY <1>2, <2>2, <3>1, FileWrites, Zenon
    <3> QED
      BY <2>3, <3>1
  <2>5. file \in Seq(Records) /\ \A i \in 1 .. Len(file) : file[i] = r \/ \E j \in 1 .. Len(v1.file) : file[i] = v1.file[j]
    BY <1>2, <2>4 DEF WrittenTo
  <2>6. v1' = [v1 EXCEPT !.context = context, !.requests = @ + 1, !.seen = @ \cup {context}, !.told = FALSE, !.file = file]
    BY <2>1, <2>3 DEF r
  <2>7. /\ v1' \in FigureAgents
        /\ v1'.vendor = v1.vendor /\ v1'.context = context /\ v1'.seen = v1.seen \cup {context}
        /\ v1'.told = FALSE /\ v1'.file = file
    BY <1>1, <1>2, <2>2, <2>5, <2>6 DEF FigureAgents, Opt
  <2>8. FileTrue(file)'
    BY <1>2, <1>4, <2>2, <2>5, <2>7 DEF FileTrue, Seen
  <2>9. Seen(context)' /\ context # NoFigure
    BY <1>1, <2>2, <2>7 DEF Seen
  <2> QED
    BY <1>3, <2>7, <2>8, <2>9, FiguresWorld
<1>6. CASE Figures!FileGrows
  <2>1. PICK r \in {Figures!Count(NoFigure, 10 * v1.requests, v1.window), Figures!Other("other"),
                    Figures!Other("placeholder"), Figures!Other("partial")} :
          v1' = [v1 EXCEPT !.file = Append(Figures!Written(v1.file), r)]
    BY <1>6 DEF Figures!FileGrows
  <2>2. r \in Records /\ (r.kind = "usage" => r.context = NoFigure /\ r.window = v1.window)
    BY <1>2, <2>1 DEF Figures!Count, Figures!Other, Records, Opt
  <2>3. PICK file : file = Append(Figures!Written(v1.file), r)
    OBVIOUS
  <2>4. WrittenTo(v1.file, r, file)
    BY ONLY <1>2, <2>2, <2>3, FileWrites, Zenon
  <2>5. v1' = [v1 EXCEPT !.file = file]
    BY <2>1, <2>3
  <2>6. /\ v1' \in FigureAgents
        /\ v1'.vendor = v1.vendor /\ v1'.context = v1.context /\ v1'.seen = v1.seen
        /\ v1'.told = v1.told /\ v1'.requests = v1.requests /\ v1'.file = file
    BY <1>1, <2>4, <2>5 DEF FigureAgents, WrittenTo
  <2>7. FileTrue(file)'
    BY <1>2, <1>4, <2>2, <2>4, <2>6, SMTT(30) DEF FileTrue, Seen, WrittenTo
  <2>8. PICK context : context = v1.context
    OBVIOUS
  <2>9. Seen(context)'
    BY <1>4, <2>6, <2>8 DEF Seen
  <2> QED
    BY <1>3, <1>4, <2>6, <2>7, <2>8, <2>9, FiguresWorld
<1>7. CASE Figures!Compacts
  <2>1. PICK context \in {0, NoFigure} :
          /\ v1' = [v1 EXCEPT !.context = context, !.told = FALSE]
          /\ context = NoFigure => v1.vendor = "pi"
    <3>1. /\ v1.vendor \in {"claude", "pi"}
          /\ v1' = [v1 EXCEPT !.context = IF v1.vendor = "claude" THEN 0 ELSE NoFigure, !.told = FALSE]
      BY <1>7 DEF Figures!Compacts, Figures!Is
    <3>2. CASE v1.vendor = "claude"
      BY <1>1, <3>1, <3>2
    <3>3. CASE v1.vendor = "pi"
      BY <3>1, <3>3
    <3> QED
      BY <3>1, <3>2, <3>3
  <2>2. context \in Opt
    BY DEF Opt
  <2>3. /\ v1' \in FigureAgents
        /\ v1'.vendor = v1.vendor /\ v1'.context = context /\ v1'.seen = v1.seen
        /\ v1'.told = FALSE /\ v1'.file = v1.file
    BY <1>1, <2>1, <2>2 DEF FigureAgents
  <2>4. PICK file : file = v1.file
    OBVIOUS
  <2>5. FileTrue(file)'
    BY <1>4, <2>3, <2>4 DEF FileTrue, Seen
  <2>6. Seen(context)'
    BY <1>4, <2>3 DEF Seen
  <2> QED
    BY <1>3, <2>1, <2>3, <2>4, <2>5, <2>6, FiguresWorld
<1> QED
  BY <1>5, <1>6, <1>7

\* The agent sends a report: it is true, and the last one with a cost is of now.
LEMMA FiguresSent ==
  ASSUME FiguresInv, NEW r \in StatusLines \cup Frames \cup ModelNews \cup CodexHooks, ReportTrue(r),
         v2' = Append(v2, r), v3' = v3, v1' \in FigureAgents, v1'.vendor = v1.vendor,
         v1'.context = v1.context, v1'.requests = v1.requests, v1'.seen = v1.seen, v1'.file = v1.file,
         v1'.told => v1.vendor \in {"claude", "pi"} /\ (v1.told \/ Telling(r)),
         v1'.told /\ Telling(r) => OfNow(r)
  PROVE  FiguresInv'
<1> DEFINE S == StatusLines \cup Frames \cup ModelNews \cup CodexHooks
<1>1. FigureTypes /\ FileSeen /\ ReportsTrue /\ LastTold /\ v2 \in Seq(S)
  BY DEF FiguresInv, FigureTypes
<1>2. r \in S
  OBVIOUS
<1> HIDE DEF S
<1>3. PICK n \in Nat : n = Len(v2)
  BY <1>1, LenProperties
<1>4. /\ v2' \in Seq(S) /\ Len(v2') = n + 1 /\ v2'[n + 1] = r
      /\ \A i \in 1 .. n : v2'[i] = v2[i]
  BY <1>1, <1>2, <1>3, AppendProperties
<1>5. n + 1 \in 1 .. n + 1 /\ \A i \in 1 .. n + 1 : i \in 1 .. n \/ i = n + 1
  OBVIOUS
<1>6. FigureTypes'
  BY <1>1, <1>4 DEF FigureTypes, S
<1>7. FileSeen'
  <2>1. PICK file : file = v1.file
    OBVIOUS
  <2>2. FileTrue(file)
    BY <1>1, <2>1 DEF FileSeen
  <2>3. FileTrue(file)'
    BY <2>2 DEF FileTrue, Seen
  <2>4. (FileTrue(v1.file))'
    BY <2>1, <2>3 DEF FileTrue
  <2>5. (Seen(v1.context))'
    BY <1>1 DEF FileSeen, Seen
  <2> QED
    BY <1>1, <2>4, <2>5 DEF FileSeen
<1>8. ReportsTrue'
  <2>1. ReportTrue(r)'
    BY StillTrue
  <2>2. ASSUME NEW i \in 1 .. n  PROVE ReportTrue(v2[i])'
    <3>1. PICK q : q = v2[i]
      OBVIOUS
    <3>2. ReportTrue(q)
      BY <1>1, <1>3, <3>1 DEF ReportsTrue
    <3>3. ReportTrue(q)' /\ v2'[i] = q
      BY <1>4, <3>1, <3>2, StillTrue
    <3> QED
      BY <3>3 DEF ReportTrue
  <2>3. ReportTrue(v2[n + 1])'
    BY <1>4, <2>1 DEF ReportTrue
  <2> QED
    BY <1>4, <1>5, <2>2, <2>3 DEF ReportsTrue
<1>9. LastTold'
  <2> SUFFICES ASSUME v1'.told  PROVE LastTold'
    BY DEF LastTold
  <2>1. PICK new : new = v2'
    OBVIOUS
  <2>2. /\ new[n + 1] = r /\ \A i \in 1 .. n : new[i] = v2[i]
        /\ \A q : OfNow(q)' <=> OfNow(q)
    BY <1>4, <2>1 DEF OfNow
  <2>3. ASSUME \/ \E i \in 1 .. n + 1 :
                    Telling(new[i]) /\ OfNow(new[i])' /\ \A j \in 1 .. n + 1 : j > i => ~ Telling(new[j])
               \/ /\ \A i \in 1 .. n + 1 : ~ Telling(new[i])
                  /\ v3.cost = v1.requests
                  /\ v1.context # NoFigure => v3.context = v1.context
        PROVE  LastTold'
    BY <1>4, <2>1, <2>3 DEF LastTold, OfNow, Telling
  <2>4. CASE Telling(r)
    <3>1. OfNow(new[n + 1])' /\ Telling(new[n + 1])
      BY <2>2, <2>4
    <3>2. \A j \in 1 .. n + 1 : ~ (j > n + 1)
      OBVIOUS
    <3> QED
      BY <1>5, <2>3, <3>1, <3>2
  <2>5. CASE ~ Telling(r)
    <3>1. CASE \E i \in 1 .. n : Telling(v2[i]) /\ OfNow(v2[i]) /\ \A j \in 1 .. n : j > i => ~ Telling(v2[j])
      <4>1. PICK i \in 1 .. n : Telling(v2[i]) /\ OfNow(v2[i]) /\ \A j \in 1 .. n : j > i => ~ Telling(v2[j])
        BY <3>1
      <4>2. i \in 1 .. n + 1 /\ Telling(new[i]) /\ OfNow(new[i])'
        BY <2>2, <4>1
      <4>3. \A j \in 1 .. n + 1 : j > i => ~ Telling(new[j])
        BY <1>5, <2>2, <2>5, <4>1
      <4> QED
        BY <2>3, <4>2, <4>3
    <3>2. CASE /\ \A i \in 1 .. n : ~ Telling(v2[i])
               /\ v3.cost = v1.requests
               /\ v1.context # NoFigure => v3.context = v1.context
      <4>1. \A i \in 1 .. n + 1 : ~ Telling(new[i])
        BY <1>5, <2>2, <2>5, <3>2
      <4> QED
        BY <2>3, <3>2, <4>1
    <3> QED
      BY <1>1, <1>3, <2>5, <3>1, <3>2 DEF LastTold
  <2> QED
    BY <2>4, <2>5
<1> QED
  BY <1>6, <1>7, <1>8, <1>9 DEF FiguresInv

\* A report of the agent keeps the invariant: it says what the agent had.
LEMMA FiguresReport ==
  ASSUME FiguresInv, Figures!ModelChanges \/ Figures!StatusLine \/ Figures!Frame \/ Figures!CodexHook
  PROVE  FiguresInv'
<1>1. FigureTypes /\ FileSeen /\ NoFigure \notin Nat /\ v1 \in FigureAgents
  BY PartsAssumption DEF FiguresInv, FigureTypes, FigureAgents
<1>2. /\ v1.requests \in Nat /\ 10 * v1.requests \in Nat /\ v1.sent \in Nat /\ v1.sent + 1 \in Nat
      /\ v1.context \in Opt /\ v1.window \in Nat \ {0} /\ v1.model \in Nat /\ v1.seen \in SUBSET Nat
      /\ v1.told \in BOOLEAN
  BY <1>1 DEF FigureAgents
<1>3. /\ v1.vendor # "pi" => v1.context # NoFigure
      /\ Seen(v1.context) /\ FileTrue(v1.file)
  BY <1>1 DEF FileSeen
<1>4. ASSUME NEW r, NEW told \in BOOLEAN, Figures!Report(r, told)
      PROVE  /\ v2' = Append(v2, r) /\ v3' = v3 /\ v1' \in FigureAgents /\ v1'.vendor = v1.vendor
             /\ v1'.context = v1.context /\ v1'.requests = v1.requests /\ v1'.seen = v1.seen /\ v1'.file = v1.file
             /\ v1'.told = (v1.told \/ told)
  BY <1>1, <1>2, <1>4 DEF Figures!Report, FigureAgents
<1>5. CASE Figures!ModelChanges
  <2>1. /\ v1' = [v1 EXCEPT !.model = 2, !.window = 7, !.sent = IF v1.vendor = "pi" THEN @ + 1 ELSE @]
        /\ v2' = IF v1.vendor = "pi" THEN Append(v2, [kind |-> "model", model |-> 2]) ELSE v2
        /\ v3' = v3
    BY <1>5 DEF Figures!ModelChanges, Figures!Is
  <2>2. /\ v1' \in FigureAgents /\ v1'.vendor = v1.vendor
        /\ v1'.context = v1.context /\ v1'.requests = v1.requests /\ v1'.seen = v1.seen /\ v1'.file = v1.file
        /\ v1'.told = v1.told
    <3>1. PICK sent \in Nat : sent = IF v1.vendor = "pi" THEN v1.sent + 1 ELSE v1.sent
      BY <1>2
    <3>2. v1' = [v1 EXCEPT !.model = 2, !.window = 7, !.sent = sent]
      BY <2>1, <3>1
    <3>3. 2 \in Nat /\ 7 \in Nat \ {0}
      OBVIOUS
    <3> QED
      BY <1>1, <1>2, <3>2, <3>3 DEF FigureAgents
  <2>3. CASE v1.vendor = "pi"
    <3>1. PICK r : r = [kind |-> "model", model |-> 2]
      OBVIOUS
    <3>2. r \in ModelNews /\ ~ Telling(r)
      BY <3>1 DEF ModelNews, Telling
    <3>3. ReportTrue(r)
      BY <2>3, <3>2 DEF ReportTrue
    <3>4. v2' = Append(v2, r)
      BY <2>1, <2>3, <3>1
    <3> QED
      BY <2>1, <2>2, <2>3, <3>2, <3>3, <3>4, FiguresSent
  <2>4. CASE v1.vendor # "pi"
    <3>1. PICK context : context = v1.context
      OBVIOUS
    <3>2. PICK file : file = v1.file
      OBVIOUS
    <3>3. Seen(context)' /\ FileTrue(file)'
      BY <1>3, <2>2, <3>1, <3>2 DEF FileTrue, Seen
    <3> QED
      BY <1>3, <2>1, <2>2, <2>4, <3>1, <3>2, <3>3, FiguresWorld
  <2> QED
    BY <2>3, <2>4
<1>6. CASE Figures!StatusLine
  <2>1. PICK model \in {NoFigure, v1.model}, window \in {0, v1.window} :
          v1.vendor = "claude" /\ Figures!Report(Figures!StatusLineData(window, model), TRUE)
    BY <1>6 DEF Figures!StatusLine, Figures!Is
  <2>2. PICK r : r = Figures!StatusLineData(window, model)
    OBVIOUS
  <2>3. r = [kind |-> "line", context |-> v1.context, window |-> window, cost |-> v1.requests, model |-> model]
    BY <2>2 DEF Figures!StatusLineData
  <2>4. v1.context \in v1.seen /\ v1.context \in Nat /\ window \in Nat /\ model \in Opt
    BY <1>2, <1>3, <2>1 DEF Seen, Opt
  <2>5. r \in StatusLines /\ r.context \in v1.seen /\ Telling(r) /\ OfNow(r)
    BY <1>2, <2>3, <2>4 DEF StatusLines, Telling, OfNow
  <2>6. ReportTrue(r)
    BY <2>1, <2>5 DEF ReportTrue
  <2>7. Figures!Report(r, TRUE)
    BY <2>1, <2>2
  <2> QED
    BY <1>4, <2>1, <2>5, <2>6, <2>7, FiguresSent
<1>7. CASE Figures!Frame
  <2>1. CASE v1.vendor = "pi" /\ \E usage \in {Figures!UsageSnapshot, Figures!Unreadable}, window \in {NoFigure, v1.window} :
               Figures!Report([kind |-> "frame", usage |-> usage, window |-> window], usage # Figures!Unreadable)
    <3>1. PICK usage \in {Figures!UsageSnapshot, Figures!Unreadable}, window \in {NoFigure, v1.window} :
            Figures!Report([kind |-> "frame", usage |-> usage, window |-> window], usage # Figures!Unreadable)
      BY <2>1
    <3>2. PICK r : r = [kind |-> "frame", usage |-> usage, window |-> window]
      OBVIOUS
    <3>3. /\ usage \in [cost : Opt, total : Opt, context : Opt] /\ Seen(usage.context)
          /\ usage.cost = NoFigure => usage.context = NoFigure /\ usage.total = NoFigure
          /\ usage # Figures!Unreadable => usage.cost = v1.requests /\ usage.context = v1.context
          /\ usage = Figures!Unreadable => usage.cost = NoFigure
      BY <1>1, <1>2, <1>3 DEF Figures!UsageSnapshot, Figures!Unreadable, Opt, Seen
    <3>4. window \in Opt /\ window # 0
      BY <1>1, <1>2 DEF Opt
    <3>5. r \in Frames /\ r.kind = "frame" /\ r.usage = usage /\ r.window = window
      BY <3>2, <3>3, <3>4 DEF Frames
    <3>6. ReportTrue(r)
      BY <2>1, <3>3, <3>4, <3>5 DEF ReportTrue
    <3>7. PICK told \in BOOLEAN : told = (usage # Figures!Unreadable)
      OBVIOUS
    <3>8. Figures!Report(r, told)
      BY <3>1, <3>2, <3>7
    <3>9. (told => Telling(r)) /\ (Telling(r) => OfNow(r))
      BY <1>1, <1>2, <3>3, <3>5, <3>7 DEF Telling, OfNow
    <3>10. /\ v2' = Append(v2, r) /\ v3' = v3 /\ v1' \in FigureAgents /\ v1'.vendor = v1.vendor
           /\ v1'.context = v1.context /\ v1'.requests = v1.requests /\ v1'.seen = v1.seen /\ v1'.file = v1.file
           /\ v1'.told = (v1.told \/ told)
      BY <1>4, <3>8
    <3> QED
      BY <2>1, <3>5, <3>6, <3>9, <3>10, FiguresSent
  <2>2. CASE v1.vendor = "oldpi"
             /\ Figures!Report([kind |-> "frame", window |-> NoFigure,
                     usage |-> IF v1.requests = 0 THEN Figures!Unreadable
                               ELSE [cost |-> 1, total |-> v1.context, context |-> NoFigure]], FALSE)
    <3>1. PICK usage : usage = IF v1.requests = 0 THEN Figures!Unreadable
                               ELSE [cost |-> 1, total |-> v1.context, context |-> NoFigure]
      OBVIOUS
    <3>2. PICK r : r = [kind |-> "frame", window |-> NoFigure, usage |-> usage]
      OBVIOUS
    <3>3. /\ usage \in [cost : Opt, total : Opt, context : Opt]
          /\ usage.context = NoFigure /\ Seen(usage.total)
          /\ usage.cost = NoFigure => usage.total = NoFigure
      BY <1>1, <1>2, <1>3, <3>1 DEF Figures!Unreadable, Opt, Seen
    <3>4. NoFigure \in Opt /\ NoFigure # 0
      BY <1>1 DEF Opt
    <3>5. r \in Frames /\ r.usage = usage /\ r.window = NoFigure
      BY <3>2, <3>3, <3>4 DEF Frames
    <3>6. ReportTrue(r)
      BY <2>2, <3>3, <3>4, <3>5 DEF ReportTrue, Seen
    <3>7. Figures!Report(r, FALSE) /\ FALSE \in BOOLEAN
      BY <2>2, <3>1, <3>2
    <3>8. /\ v2' = Append(v2, r) /\ v3' = v3 /\ v1' \in FigureAgents /\ v1'.vendor = v1.vendor
          /\ v1'.context = v1.context /\ v1'.requests = v1.requests /\ v1'.seen = v1.seen /\ v1'.file = v1.file
          /\ v1'.told = (v1.told \/ FALSE)
      BY <1>4, <3>7
    <3>9. ~ v1'.told
      BY <2>2, <3>8 DEF FiguresInv, LastTold
    <3> QED
      BY <3>5, <3>6, <3>8, <3>9, FiguresSent
  <2> QED
    BY <1>7, <2>1, <2>2 DEF Figures!Frame, Figures!Is
<1>8. CASE Figures!CodexHook
  <2>1. PICK r : r = [kind |-> "hook", stage |-> "status", usage |-> Figures!Other("none")]
    OBVIOUS
  <2>2. v1.vendor = "codex" /\ Figures!Report(r, FALSE) /\ FALSE \in BOOLEAN
    BY <1>8, <2>1 DEF Figures!CodexHook, Figures!Is
  <2>3. r \in CodexHooks /\ r.stage = "status"
    BY <2>1 DEF CodexHooks, Figures!Other, Records, Opt
  <2>4. ReportTrue(r)
    BY <2>2, <2>3 DEF ReportTrue
  <2>5. /\ v2' = Append(v2, r) /\ v3' = v3 /\ v1' \in FigureAgents /\ v1'.vendor = v1.vendor
        /\ v1'.context = v1.context /\ v1'.requests = v1.requests /\ v1'.seen = v1.seen /\ v1'.file = v1.file
        /\ v1'.told = (v1.told \/ FALSE)
    BY <1>4, <2>2
  <2>6. ~ v1'.told
    BY <2>2, <2>5 DEF FiguresInv, LastTold
  <2> QED
    BY <2>3, <2>4, <2>5, <2>6, FiguresSent
<1> QED
  BY <1>5, <1>6, <1>7, <1>8

\* What a context update makes of a row: what it does not tell stays.
LEMMA RowUpdated ==
  ASSUME NEW u, u.cost \in Opt, u.total \in Opt, u.context \in Opt, u.window \in Opt, u.window # 0, v3 \in FigureRows,
         NEW new, new = Figures!ApplyContextUpdate(v3, u)
  PROVE  /\ new \in FigureRows
         /\ new.cost = (IF u.cost = NoFigure THEN v3.cost ELSE u.cost)
         /\ new.context = (IF u.context # NoFigure THEN u.context ELSE IF u.total # NoFigure THEN u.total ELSE v3.context)
<1> DEFINE r1 == Figures!Or(u.cost, v3.cost)
           r2 == Figures!Or(u.total, v3.total)
           r3 == Figures!Or(IF u.context # NoFigure THEN u.context ELSE u.total, v3.context)
           r4 == Figures!Or(u.window, v3.window)
<1>1. /\ v3.cost \in Nat /\ v3.total \in Nat /\ v3.context \in Nat /\ v3.window \in Nat \ {0}
  BY DEF FigureRows
<1>2. r1 \in Nat /\ r2 \in Nat /\ r3 \in Nat /\ r4 \in Nat \ {0}
  BY <1>1 DEF Opt, Figures!Or
<1>3. /\ r1 = (IF u.cost = NoFigure THEN v3.cost ELSE u.cost)
      /\ r3 = (IF u.context # NoFigure THEN u.context ELSE IF u.total # NoFigure THEN u.total ELSE v3.context)
  BY DEF Figures!Or
<1>4. new = [v3 EXCEPT !.exists = TRUE, !.cost = r1, !.total = r2, !.context = r3, !.window = r4]
  BY DEF Figures!ApplyContextUpdate
<1> HIDE DEF r1, r2, r3, r4
<1> QED
  BY <1>2, <1>3, <1>4 DEF FigureRows

\* What the daemon makes of a report: a telling one is all the row shows of the session,
\* and another leaves it.
RowTells(r, new) ==
  /\ new \in FigureRows /\ new.context \in v1.seen
  /\ Telling(r) /\ OfNow(r) => new.cost = v1.requests /\ (v1.context # NoFigure => new.context = v1.context)
  /\ ~ Telling(r) => new.cost = v3.cost /\ new.context = v3.context

\* A true report, handled, is told by the row.
LEMMA RowTold ==
  ASSUME FiguresInv, Figures!Handle, NEW r, r = Head(v2), ReportTrue(r)
  PROVE  RowTells(r, v3')
<1>1. /\ v3 \in FigureRows /\ v3.context \in v1.seen /\ v1.requests \in Nat /\ NoFigure \notin Nat
      /\ v3.window \in Nat \ {0} /\ v3.model \in Nat /\ v3.cost \in Nat /\ v3.context \in Nat /\ v1.seen \in SUBSET Nat
  BY PartsAssumption DEF FiguresInv, FigureTypes, FigureRows, FigureAgents, FileSeen
<1>2. r.kind # "hook"
  BY DEF Figures!Handle
<1>3. CASE r \in StatusLines
  <2>1. /\ r.kind = "line" /\ r.context \in Nat /\ r.window \in Nat /\ r.cost \in Nat /\ r.model \in Opt
        /\ r.context \in v1.seen
    BY <1>3 DEF StatusLines, Frames, ModelNews, CodexHooks, ReportTrue
  <2>2. v3' = Figures!ApplyStatusLine(v3, r)
    BY <2>1 DEF Figures!Handle
  <2>3. Figures!Window(r.window, v3.window) \in Nat \ {0} /\ Figures!Or(r.model, v3.model) \in Nat
    BY <1>1, <2>1 DEF Figures!Window, Figures!Or, Opt
  <2>4. v3' \in FigureRows /\ v3'.context = r.context /\ v3'.cost = r.cost
    BY <2>1, <2>2, <2>3 DEF Figures!ApplyStatusLine, FigureRows
  <2> QED
    BY <2>1, <2>4 DEF RowTells, Telling, OfNow
<1>4. CASE r \in Frames
  <2>1. /\ r.kind = "frame" /\ r.window \in Opt /\ r.usage.cost \in Opt /\ r.usage.total \in Opt /\ r.usage.context \in Opt
        /\ v1.vendor \in {"pi", "oldpi"} /\ r.window # 0 /\ Seen(r.usage.context)
        /\ r.usage.cost = NoFigure => r.usage.context = NoFigure /\ r.usage.total = NoFigure
        /\ v1.vendor = "oldpi" => r.usage.context = NoFigure /\ Seen(r.usage.total)
    BY <1>4 DEF StatusLines, Frames, ModelNews, CodexHooks, ReportTrue
  <2>2. PICK u : u = Figures!PiUpdate(r.usage, r.window)
    OBVIOUS
  <2>3. /\ u.cost = r.usage.cost /\ u.context = r.usage.context /\ u.window = r.window
        /\ u.total \in {NoFigure, r.usage.total}
        /\ v1.vendor = "pi" /\ u.context = NoFigure => u.total = NoFigure
    BY <2>2 DEF Figures!PiUpdate
  <2>4. v3' = Figures!ApplyContextUpdate(v3, u)
    BY <2>1, <2>2 DEF Figures!Handle
  <2>5. u.total \in Opt
    BY <2>1, <2>3 DEF Opt
  <2>6. /\ v3' \in FigureRows
        /\ v3'.cost = (IF u.cost = NoFigure THEN v3.cost ELSE u.cost)
        /\ v3'.context = (IF u.context # NoFigure THEN u.context ELSE IF u.total # NoFigure THEN u.total ELSE v3.context)
    BY <1>1, <2>1, <2>3, <2>4, <2>5, RowUpdated
  <2>7. v3'.context \in v1.seen
    BY <1>1, <2>1, <2>3, <2>6 DEF Seen
  <2>8. Telling(r) /\ OfNow(r) => v3'.cost = v1.requests /\ (v1.context # NoFigure => v3'.context = v1.context)
    BY <1>1, <2>1, <2>3, <2>6 DEF Telling, OfNow
  <2>9. ~ Telling(r) => v3'.cost = v3.cost /\ v3'.context = v3.context
    BY <2>1, <2>3, <2>6 DEF Telling
  <2> QED
    BY <2>1, <2>6, <2>7, <2>8, <2>9 DEF RowTells
<1>5. CASE r \in ModelNews
  <2>1. r.kind = "model" /\ r.model \in Nat
    BY <1>5 DEF ModelNews
  <2>2. v3' = [v3 EXCEPT !.exists = TRUE, !.model = r.model]
    BY <2>1 DEF Figures!Handle
  <2>3. v3' \in FigureRows /\ v3'.context = v3.context /\ v3'.cost = v3.cost
    BY <1>1, <2>1, <2>2 DEF FigureRows
  <2> QED
    BY <1>1, <2>1, <2>3 DEF RowTells, Telling
<1> QED
  BY <1>2, <1>3, <1>4, <1>5 DEF ReportTrue, CodexHooks

\* The daemon handles the oldest report of the connection.
LEMMA FiguresHandle ==
  ASSUME FiguresInv, Figures!Handle
  PROVE  FiguresInv'
<1> DEFINE S == StatusLines \cup Frames \cup ModelNews \cup CodexHooks
<1>1. FigureTypes /\ FileSeen /\ ReportsTrue /\ LastTold /\ v2 \in Seq(S)
  BY DEF FiguresInv, FigureTypes
<1>2. v1' = v1 /\ v2' = Tail(v2) /\ v2 # <<>>
  BY DEF Figures!Handle
<1> HIDE DEF S
<1>3. PICK n \in Nat : n = Len(v2)
  BY <1>1, LenProperties
<1>4. PICK r : r = Head(v2)
  OBVIOUS
<1>5. PICK new : new = v2'
  OBVIOUS
<1>6. /\ n > 0 /\ r = v2[1] /\ new \in Seq(S) /\ Len(new) = n - 1
      /\ \A i \in 1 .. n - 1 : i + 1 \in 1 .. n /\ new[i] = v2[i + 1]
      /\ \A i \in 2 .. n : i - 1 \in 1 .. n - 1 /\ new[i - 1] = v2[i]
  <2>1. /\ n > 0 /\ r = v2[1] /\ new \in Seq(S) /\ Len(new) = n - 1
        /\ \A i \in 1 .. Len(new) : i + 1 \in 1 .. n /\ new[i] = v2[i + 1]
        /\ \A i \in 2 .. n : i - 1 \in 1 .. Len(new) /\ new[i - 1] = v2[i]
    BY <1>1, <1>2, <1>3, <1>4, <1>5, HeadTail
  <2> QED
    BY <2>1
<1>7. ReportTrue(r)
  BY <1>1, <1>3, <1>6 DEF ReportsTrue
<1>8. RowTells(r, v3')
  BY <1>4, <1>7, RowTold
<1>9. FigureTypes'
  BY <1>1, <1>2, <1>5, <1>6, <1>8 DEF FigureTypes, RowTells, S
<1>10. FileSeen'
  BY <1>1, <1>2, <1>8 DEF FileSeen, FileTrue, Seen, RowTells
<1>11. ReportsTrue'
  <2> SUFFICES ASSUME NEW i \in 1 .. n - 1  PROVE ReportTrue(new[i])'
    BY <1>5, <1>6 DEF ReportsTrue, ReportTrue
  <2>1. i + 1 \in 1 .. n /\ new[i] = v2[i + 1]
    BY <1>6
  <2>2. ReportTrue(new[i])
    BY <1>1, <1>3, <2>1 DEF ReportsTrue
  <2> QED
    BY <1>2, <2>2, StillTrue
<1>12. LastTold'
  <2> SUFFICES ASSUME v1.told  PROVE LastTold'
    BY <1>2 DEF LastTold
  <2>1. \A q : OfNow(q)' <=> OfNow(q)
    BY <1>2 DEF OfNow
  <2>2. v1.vendor \in {"claude", "pi"}
    BY <1>1 DEF LastTold
  <2>3. ASSUME \/ \E i \in 1 .. n - 1 :
                    Telling(new[i]) /\ OfNow(new[i])' /\ \A j \in 1 .. n - 1 : j > i => ~ Telling(new[j])
               \/ /\ \A i \in 1 .. n - 1 : ~ Telling(new[i])
                  /\ v3'.cost = v1.requests
                  /\ v1.context # NoFigure => v3'.context = v1.context
        PROVE  LastTold'
    BY <1>2, <1>5, <1>6, <2>2, <2>3 DEF LastTold, OfNow, Telling
  <2>4. CASE \E i \in 1 .. n : Telling(v2[i]) /\ OfNow(v2[i]) /\ \A j \in 1 .. n : j > i => ~ Telling(v2[j])
    <3>1. PICK i \in 1 .. n : Telling(v2[i]) /\ OfNow(v2[i]) /\ \A j \in 1 .. n : j > i => ~ Telling(v2[j])
      BY <2>4
    <3>2. ASSUME NEW j \in 1 .. n - 1, j > i - 1  PROVE ~ Telling(new[j])
      BY <1>6, <3>1, <3>2
    <3>3. CASE i = 1
      <4>1. \A j \in 1 .. n - 1 : ~ Telling(new[j])
        BY <3>2, <3>3
      <4>2. v3'.cost = v1.requests /\ (v1.context # NoFigure => v3'.context = v1.context)
        BY <1>6, <1>8, <3>1, <3>3 DEF RowTells
      <4> QED
        BY <2>3, <4>1, <4>2
    <3>4. CASE i # 1
      <4>1. i \in 2 .. n /\ i - 1 \in 1 .. n - 1 /\ new[i - 1] = v2[i]
        BY <1>6, <3>1, <3>4
      <4>2. Telling(new[i - 1]) /\ OfNow(new[i - 1])'
        BY <2>1, <3>1, <4>1
      <4> QED
        BY <2>3, <3>2, <4>1, <4>2
    <3> QED
      BY <3>3, <3>4
  <2>5. CASE /\ \A i \in 1 .. n : ~ Telling(v2[i])
             /\ v3.cost = v1.requests
             /\ v1.context # NoFigure => v3.context = v1.context
    <3>1. \A i \in 1 .. n - 1 : ~ Telling(new[i])
      BY <1>6, <2>5
    <3>2. v3'.cost = v1.requests /\ (v1.context # NoFigure => v3'.context = v1.context)
      BY <1>6, <1>8, <2>5 DEF RowTells
    <3> QED
      BY <2>3, <3>1, <3>2
  <2> QED
    BY <1>1, <1>3, <2>4, <2>5 DEF LastTold
<1> QED
  BY <1>9, <1>10, <1>11, <1>12 DEF FiguresInv

\* What read_token_usage finds in the file: nothing, or a context the agent had and a window.
LEMMA UsageRead ==
  ASSUME FiguresInv, NEW u, u = Figures!ReadTokenUsage(v1.file)
  PROVE  u \in Records /\ (u.kind # "none" => u.context \in v1.seen /\ u.window # 0)
<1>1. v1.file \in Seq(Records) /\ FileTrue(v1.file) /\ TailRecords \in Nat \ {0}
  BY PartsAssumption DEF FiguresInv, FigureTypes, FigureAgents, FileSeen
<1>2. PICK file \in Seq(Records) : file = v1.file
  BY <1>1
<1>3. PICK n \in Nat : n = Len(file)
  BY LenProperties
<1> DEFINE tail == Figures!InTail(file)
<1>4. tail \in Seq(Records) /\ \A i \in 1 .. Len(tail) : \E j \in 1 .. n : tail[i] = file[j]
  <2>1. CASE n <= TailRecords
    BY <1>3, <2>1 DEF Figures!InTail
  <2>2. CASE ~ n <= TailRecords
    <3>1. PICK a \in 2 .. n + 1 : a = n - TailRecords + 2
      BY <1>1, <2>2
    <3>2. tail = SubSeq(file, a, n)
      BY <1>3, <2>2, <3>1 DEF Figures!InTail
    <3>3. /\ SubSeq(file, a, n) \in Seq(Records) /\ Len(SubSeq(file, a, n)) = n - a + 1
          /\ \A i \in 1 .. n - a + 1 : SubSeq(file, a, n)[i] = file[a + i - 1]
      <4>1. (\A i \in a .. n : file[i] \in Records) /\ (~ a <= n => n - a + 1 = 0)
        BY <1>3, ElementOfSeq
      <4> QED
        BY <4>1, SubSeqProperties
    <3>4. \A i \in 1 .. n - a + 1 : a + i - 1 \in 1 .. n
      OBVIOUS
    <3> HIDE DEF tail
    <3> QED
      BY <3>2, <3>3, <3>4
  <2> QED
    BY <2>1, <2>2
<1> DEFINE usable == {i \in DOMAIN tail : Figures!Usable(tail[i])}
<1>5. u = IF usable = {} THEN Figures!Other("none") ELSE tail[CHOOSE i \in usable : \A j \in usable : j <= i]
  BY <1>2 DEF Figures!ReadTokenUsage
<1> HIDE DEF tail
<1>6. PICK m \in Nat : m = Len(tail) /\ DOMAIN tail = 1 .. m
  BY <1>4, LenProperties
<1>7. CASE usable = {}
  BY <1>5, <1>7 DEF Figures!Other, Records, Opt
<1>8. CASE usable # {}
  <2>1. usable \in SUBSET (1 .. m)
    BY <1>6
  <2>2. \A i \in usable : Figures!Usable(tail[i])
    OBVIOUS
  <2> HIDE DEF usable
  <2>3. \E i \in usable : \A j \in usable : j <= i
    BY <1>8, <2>1, LastOne
  <2>4. PICK i \in usable : u = tail[i]
    BY <1>5, <1>8, <2>3
  <2>5. PICK j \in 1 .. n : u = file[j]
    BY <1>4, <1>6, <2>1, <2>4
  <2>6. u \in Records /\ u.kind = "usage" /\ u.context # NoFigure
    BY <1>3, <2>2, <2>4, <2>5, ElementOfSeq DEF Figures!Usable
  <2> QED
    BY <1>1, <1>2, <1>3, <2>5, <2>6 DEF FileTrue, Seen
<1> QED
  BY <1>7, <1>8

\* A hook's connection takes its next step, or is done.
LEMMA FiguresHook ==
  ASSUME FiguresInv, NEW i \in DOMAIN v2, Figures!HookSteps(i)
  PROVE  FiguresInv'
<1> DEFINE S == StatusLines \cup Frames \cup ModelNews \cup CodexHooks
<1>1. /\ FigureTypes /\ FileSeen /\ ReportsTrue /\ LastTold /\ v2 \in Seq(S) /\ v3 \in FigureRows /\ v1 \in FigureAgents
      /\ NoFigure \notin Nat
  BY PartsAssumption DEF FiguresInv, FigureTypes
<1>2. v1' = v1 /\ v2[i].kind = "hook"
  BY DEF Figures!HookSteps
<1>3. CodexHooks \subseteq S
  OBVIOUS
<1>4. PICK n \in Nat : n = Len(v2) /\ DOMAIN v2 = 1 .. n
  BY <1>1, LenProperties
<1>5. PICK r \in CodexHooks : r = v2[i] /\ ReportTrue(r) /\ v1.vendor = "codex"
  <2>1. ReportTrue(v2[i])
    BY <1>1, <1>4 DEF ReportsTrue
  <2> QED
    BY <1>2, <2>1 DEF ReportTrue, StatusLines, Frames, ModelNews
<1>6. PICK new : new = v2'
  OBVIOUS
<1>7. \A q : ReportTrue(q)' <=> ReportTrue(q)
  BY <1>2 DEF ReportTrue, Seen
<1>8. ASSUME v3' \in FigureRows, v3'.context \in v1.seen, new \in Seq(S), \A j \in 1 .. Len(new) : ReportTrue(new[j])
      PROVE  FiguresInv'
  <2>1. FigureTypes'
    BY <1>1, <1>2, <1>6, <1>8 DEF FigureTypes, S
  <2>2. FileSeen'
    BY <1>1, <1>2, <1>8 DEF FileSeen, FileTrue, Seen
  <2>3. ReportsTrue'
    BY <1>6, <1>7, <1>8 DEF ReportsTrue, ReportTrue
  <2>4. LastTold'
    BY <1>1, <1>2, <1>5 DEF LastTold
  <2> QED
    BY <2>1, <2>2, <2>3, <2>4 DEF FiguresInv
<1>9. \A j \in 1 .. n : ReportTrue(v2[j])
  BY <1>1, <1>4 DEF ReportsTrue
<1>10. v3.context \in v1.seen
  BY <1>1 DEF FileSeen
<1> HIDE DEF S
<1>11. ASSUME NEW h \in CodexHooks, ReportTrue(h), new = [v2 EXCEPT ![i] = h], v3' \in FigureRows, v3'.context \in v1.seen
       PROVE  FiguresInv'
  <2>1. new \in Seq(S) /\ Len(new) = n /\ \A j \in 1 .. n : new[j] = IF j = i THEN h ELSE v2[j]
    <3>1. h \in S
      BY <1>3
    <3> QED
      BY <1>1, <1>4, <1>11, <3>1, ExceptSeq
  <2> QED
    BY <1>8, <1>9, <1>11, <2>1
<1>12. ASSUME new = Figures!RemoveAt(v2, i), v3' \in FigureRows, v3'.context \in v1.seen
       PROVE  FiguresInv'
  <2> DEFINE a == SubSeq(v2, 1, i - 1)
             b == SubSeq(v2, i + 1, n)
  <2>1. i \in Int /\ i - 1 \in Int /\ i + 1 \in Int /\ 1 <= i /\ i <= n
    BY <1>4
  <2>2. \A j \in 1 .. n : v2[j] \in S
    BY <1>1, <1>4, ElementOfSeq
  <2>3. a \in Seq(S) /\ Len(a) = i - 1 /\ \A j \in 1 .. i - 1 : a[j] = v2[j] /\ j \in 1 .. n
    <3>1. (\A j \in 1 .. i - 1 : v2[j] \in S) /\ (~ 1 <= i - 1 => i - 1 = 0) /\ (i - 1) - 1 + 1 = i - 1
      BY <2>1, <2>2
    <3>2. a \in Seq(S) /\ Len(a) = (IF 1 <= i - 1 THEN (i - 1) - 1 + 1 ELSE 0) /\ \A j \in 1 .. (i - 1) - 1 + 1 : a[j] = v2[1 + j - 1]
      BY <2>1, <3>1, SubSeqProperties
    <3> HIDE DEF a
    <3> QED
      BY <2>1, <3>1, <3>2
  <2>4. b \in Seq(S) /\ Len(b) = n - i /\ \A j \in 1 .. n - i : b[j] = v2[i + j] /\ i + j \in 1 .. n
    <3>1. (\A j \in i + 1 .. n : v2[j] \in S) /\ (~ i + 1 <= n => n - i = 0) /\ n - (i + 1) + 1 = n - i
      BY <2>1, <2>2
    <3>2. b \in Seq(S) /\ Len(b) = (IF i + 1 <= n THEN n - (i + 1) + 1 ELSE 0) /\ \A j \in 1 .. n - (i + 1) + 1 : b[j] = v2[i + 1 + j - 1]
      BY <2>1, <3>1, SubSeqProperties
    <3> HIDE DEF b
    <3>3. ASSUME NEW j \in 1 .. n - i  PROVE b[j] = v2[i + j] /\ i + j \in 1 .. n
      <4>1. j \in 1 .. n - (i + 1) + 1 /\ i + 1 + j - 1 = i + j /\ i + j \in 1 .. n
        BY <2>1, <3>1
      <4> QED
        BY <3>2, <4>1
    <3>4. Len(b) = n - i
      BY <2>1, <3>1, <3>2
    <3> QED
      BY <3>2, <3>3, <3>4
  <2>5. new = a \o b
    BY <1>4, <1>12 DEF Figures!RemoveAt
  <2> HIDE DEF a, b
  <2>6. /\ new \in Seq(S) /\ Len(new) = (i - 1) + (n - i)
        /\ \A j \in 1 .. i - 1 : new[j] = a[j]
        /\ \A j \in 1 .. n - i : new[(i - 1) + j] = b[j]
    <3>1. /\ new \in Seq(S) /\ Len(new) = Len(a) + Len(b)
          /\ \A j \in 1 .. Len(a) : new[j] = a[j]
          /\ \A j \in 1 .. Len(b) : new[Len(a) + j] = b[j]
      <4>1. a \in Seq(S) /\ b \in Seq(S)
        BY <2>3, <2>4
      <4>2. /\ a \o b \in Seq(S) /\ Len(a \o b) = Len(a) + Len(b)
            /\ \A j \in 1 .. Len(a) : (a \o b)[j] = a[j]
            /\ \A j \in 1 .. Len(b) : (a \o b)[Len(a) + j] = b[j]
        BY ONLY <4>1, Concat
      <4> QED
        BY ONLY <2>5, <4>2
    <3> QED
      BY <2>3, <2>4, <3>1
  <2>7. \A j \in 1 .. (i - 1) + (n - i) : j \in 1 .. i - 1 \/ (j - (i - 1) \in 1 .. n - i /\ (i - 1) + (j - (i - 1)) = j)
    BY <2>1
  <2>8. \A j \in 1 .. Len(new) : ReportTrue(new[j])
    <3> SUFFICES ASSUME NEW j \in 1 .. (i - 1) + (n - i)  PROVE \E k \in 1 .. n : new[j] = v2[k]
      BY <1>9, <2>6
    <3>1. CASE j \in 1 .. i - 1
      BY <2>3, <2>6, <3>1
    <3>2. CASE j - (i - 1) \in 1 .. n - i /\ (i - 1) + (j - (i - 1)) = j
      BY <2>4, <2>6, <3>2
    <3> QED
      BY <2>7, <3>1, <3>2
  <2> QED
    BY <1>8, <1>12, <2>6, <2>8
<1>13. CASE /\ r.stage = "status" /\ v2' = [v2 EXCEPT ![i].stage = "read"]
            /\ v3' = [v3 EXCEPT !.exists = TRUE, !.model = v1.model]
  <2>1. PICK h \in CodexHooks : h = [r EXCEPT !.stage = "read"] /\ h.stage = "read"
    <3>1. [r EXCEPT !.stage = "read"] \in CodexHooks
      <4>1. "read" \in {"status", "read", "apply"}
        OBVIOUS
      <4> QED
        BY <4>1 DEF CodexHooks
    <3>2. [r EXCEPT !.stage = "read"].stage = "read"
      BY DEF CodexHooks
    <3> QED
      BY <3>1, <3>2
  <2>2. new = [v2 EXCEPT ![i] = h]
    BY <1>5, <1>6, <1>13, <2>1
  <2>3. ReportTrue(h)
    BY <1>5, <2>1 DEF ReportTrue
  <2>4. v3' \in FigureRows /\ v3'.context = v3.context
    BY <1>1, <1>13 DEF FigureRows, FigureAgents
  <2> QED
    BY <1>10, <1>11, <2>2, <2>3, <2>4
<1>14. CASE /\ v2' = [v2 EXCEPT ![i].stage = "apply", ![i].usage = Figures!ReadTokenUsage(v1.file)]
            /\ v3' = v3
  <2>1. PICK u : u = Figures!ReadTokenUsage(v1.file)
    OBVIOUS
  <2>2. u \in Records /\ (u.kind # "none" => u.context \in v1.seen /\ u.window # 0)
    BY <2>1, UsageRead
  <2>3. PICK h \in CodexHooks : h = [r EXCEPT !.stage = "apply", !.usage = u] /\ h.stage = "apply" /\ h.usage = u
    <3>1. [r EXCEPT !.stage = "apply", !.usage = u] \in CodexHooks
      <4>1. "apply" \in {"status", "read", "apply"}
        OBVIOUS
      <4> QED
        BY <2>2, <4>1 DEF CodexHooks
    <3>2. [r EXCEPT !.stage = "apply", !.usage = u].stage = "apply" /\ [r EXCEPT !.stage = "apply", !.usage = u].usage = u
      BY DEF CodexHooks
    <3> QED
      BY <3>1, <3>2
  <2>4. new = [v2 EXCEPT ![i] = h]
    BY <1>5, <1>6, <1>14, <2>1, <2>3
  <2>5. ReportTrue(h)
    BY <1>5, <2>2, <2>3 DEF ReportTrue
  <2> QED
    BY <1>1, <1>10, <1>11, <1>14, <2>4, <2>5
<1>15. CASE v2' = Figures!RemoveAt(v2, i) /\ v3' = v3
  BY <1>1, <1>6, <1>10, <1>12, <1>15
<1>16. CASE /\ r.stage = "apply" /\ v2' = Figures!RemoveAt(v2, i) /\ r.usage.kind # "none"
            /\ v3' = Figures!ApplyContextUpdate(v3, [total |-> r.usage.total, context |-> r.usage.context,
                                                     window |-> r.usage.window, cost |-> NoFigure])
  <2>1. r.usage.total \in Opt /\ r.usage.context \in Opt /\ r.usage.window \in Opt /\ NoFigure \in Opt
    BY DEF CodexHooks, Records, Opt
  <2>2. r.usage.context \in v1.seen /\ r.usage.window # 0
    BY <1>5, <1>16 DEF ReportTrue, StatusLines, Frames, ModelNews
  <2>3. PICK u : u = [total |-> r.usage.total, context |-> r.usage.context, window |-> r.usage.window, cost |-> NoFigure]
    OBVIOUS
  <2>4. /\ u.total = r.usage.total /\ u.context = r.usage.context /\ u.window = r.usage.window /\ u.cost = NoFigure
        /\ v3' = Figures!ApplyContextUpdate(v3, u)
    BY <1>16, <2>3
  <2>5. /\ v3' \in FigureRows
        /\ v3'.context = (IF u.context # NoFigure THEN u.context ELSE IF u.total # NoFigure THEN u.total ELSE v3.context)
    BY <1>1, <2>1, <2>2, <2>4, RowUpdated
  <2>6. v3'.context \in v1.seen
    BY <1>1, <2>2, <2>4, <2>5 DEF FigureAgents
  <2> QED
    BY <1>6, <1>12, <1>16, <2>5, <2>6
<1> QED
  BY <1>5, <1>13, <1>14, <1>15, <1>16 DEF Figures!HookSteps

\* Every step of the agent, of its reports and of the row keeps the invariant.
LEMMA FiguresKeepInv ==
  ASSUME FiguresInv, [Figures!Next]_<<v1, v2, v3>>
  PROVE  FiguresInv'
<1>1. CASE UNCHANGED <<v1, v2, v3>>
  BY <1>1 DEF FiguresInv, FigureTypes, FileSeen, FileTrue, Seen, ReportsTrue, ReportTrue, LastTold, OfNow
<1> QED
  BY <1>1, FiguresUnsent, FiguresReport, FiguresHandle, FiguresHook DEF Figures!Next

\* What the invariant says of the row a user sees.
LEMMA FiguresShown == FiguresInv => Figures!ContextIsActive /\ Figures!WindowKnown /\ Figures!SettledCost
<1> SUFFICES ASSUME FiguresInv  PROVE Figures!ContextIsActive /\ Figures!WindowKnown /\ Figures!SettledCost
  OBVIOUS
<1>1. Figures!ContextIsActive
  BY DEF FiguresInv, FileSeen, Figures!ContextIsActive
<1>2. Figures!WindowKnown
  BY DEF FiguresInv, FigureTypes, FigureRows, Figures!WindowKnown
<1>3. Figures!SettledCost
  <2>1. v2 = <<>> => Len(v2) = 0
    OBVIOUS
  <2> QED
    BY <2>1 DEF FiguresInv, LastTold, Figures!SettledCost
<1> QED
  BY <1>1, <1>2, <1>3

-----------------------------------------------------------------------------
(* AgentStatus.  Its variables are v1 (agent), v2 (wire) and v3 (row).        *)

Statuses == {"idle", "working", "attention"}
HookNames ==
  {"UserPromptSubmit", "input", "agent_start", "PreToolUse", "tool_call", "PermissionRequest", "atm_needs_input_open",
   "atm_needs_input_resolved", "Notification", "PostToolUse", "PostToolUseFailure", "tool_execution_end", "agent_end",
   "Stop", "StopFailure", "PreCompact", "PostCompact", "SubagentStart", "SubagentStop", "SessionStart"}
HookNotes ==
  {"none", "interactive", "permission_prompt", "elicitation_dialog", "agent_needs_input", "idle_prompt", "compact"}
Hooks == [name : HookNames, tool : {"none", "plain", "interactive"}, note : HookNotes, child : BOOLEAN]

StatusAgents ==
  [vendor : {"claude", "codex", "pi"}, phase : {"ready", "turn", "dialog", "running", "compacting"}, inTurn : BOOLEAN,
   told : BOOLEAN, turns : Nat, calls : Nat, sides : Nat, losses : Nat]
StatusTypes ==
  /\ v1 \in StatusAgents /\ v2 \in Seq(Hooks)
  /\ v3 \in [status : Statuses, lost : BOOLEAN]

\* What a row should say of an agent in a phase.
Due(phase) == CASE phase = "ready" -> "idle" [] phase = "dialog" -> "attention" [] OTHER -> "working"

\* A hook that says what the row is, whatever it was; every other is silent.
Says(vendor, raw, status) ==
  /\ ~ Status!ChildAgent(vendor, raw)
  /\ Status!ToLifecycleEvent(vendor, raw) \notin
       {"none", "Notification", "ChildSessionStart", "ChildSessionEnd", "ContextUpdate", "ProviderModelChange"}
  /\ \A s \in Statuses : Status!ApplyLifecycleEvent(s, Status!ToLifecycleEvent(vendor, raw)) = status

\* Once an agent has told its phase, the last hook on its way that says anything says it;
\* with none on its way the row does, unless the hook that said it was lost.
WireTells ==
  \/ \E i \in 1 .. Len(v2) :
       Says(v1.vendor, v2[i], Due(v1.phase)) /\ \A j \in 1 .. Len(v2) : j > i => Status!Silent(v2[j])
  \/ (\A i \in 1 .. Len(v2) : Status!Silent(v2[i])) /\ (v3.lost \/ v3.status = Due(v1.phase))

\* A dialog has always been told, and pi's compactions are nothing the model has.
StatusInv ==
  /\ StatusTypes
  /\ v1.vendor = "pi" => v1.phase # "compacting"
  /\ v1.phase = "dialog" => v1.told
  /\ v1.told => WireTells

\* At first the agent is idle, has told so, and the row is new.
LEMMA StatusInit == Status!Init => StatusInv
<1> SUFFICES ASSUME Status!Init  PROVE StatusInv
  OBVIOUS
<1>1. PICK vendor \in {"claude", "codex", "pi"} :
        v1 = [vendor |-> vendor, phase |-> "ready", inTurn |-> FALSE, told |-> TRUE,
              turns |-> 0, calls |-> 0, sides |-> 0, losses |-> 0]
  BY DEF Status!Init
<1>2. v2 = <<>> /\ v3 = [status |-> "idle", lost |-> FALSE] /\ Len(v2) = 0
  BY DEF Status!Init
<1>3. "ready" \in {"ready", "turn", "dialog", "running", "compacting"} /\ "idle" \in Statuses
  BY DEF Statuses
<1>4. StatusTypes
  BY <1>1, <1>2, <1>3 DEF StatusTypes, StatusAgents
<1> QED
  BY <1>1, <1>2, <1>4 DEF StatusInv, WireTells, Due

\* What the agents' hooks say.
IdleEvents == {"SessionStart", "SessionEnd", "WorkingEnd", "Idle"}
WorkingEvents ==
  {"WorkingStart", "PromptSubmit", "ToolCallStart", "ToolCallEnd", "ContextCompactStart", "SetupNotification"}

\* An event says that the agent is idle, works, or waits for its user.
LEMMA EventSays ==
  ASSUME NEW vendor, NEW raw, raw.child = FALSE, NEW event, event = Status!ToLifecycleEvent(vendor, raw)
  PROVE  /\ event \in IdleEvents => Says(vendor, raw, "idle")
         /\ event \in WorkingEvents => Says(vendor, raw, "working")
         /\ event = "NeedsInput" => Says(vendor, raw, "attention")
<1>1. ~ Status!ChildAgent(vendor, raw)
  BY DEF Status!ChildAgent
<1>2. ASSUME event \in IdleEvents
      PROVE  \A s \in Statuses : Status!ApplyLifecycleEvent(s, event) = "idle"
  BY <1>2 DEF Status!ApplyLifecycleEvent, IdleEvents
<1>3. ASSUME event \in WorkingEvents
      PROVE  \A s \in Statuses : Status!ApplyLifecycleEvent(s, event) = "working"
  BY <1>3 DEF Status!ApplyLifecycleEvent, WorkingEvents
<1>4. ASSUME event = "NeedsInput"
      PROVE  \A s \in Statuses : Status!ApplyLifecycleEvent(s, event) = "attention"
  BY <1>4 DEF Status!ApplyLifecycleEvent
<1> QED
  BY <1>1, <1>2, <1>3, <1>4 DEF Says, IdleEvents, WorkingEvents

\* A hook of an agent itself.
Made(r, name, tool, note) == r \in Hooks /\ r.name = name /\ r.tool = tool /\ r.note = note /\ r.child = FALSE

\* The hooks that the agents' scripts make are hooks of the agent's own.
LEMMA HookMade ==
  /\ \A name \in HookNames : Made(Status!Bare(name), name, "none", "none")
  /\ \A name \in HookNames, note \in HookNotes : Made(Status!Noted(name, note), name, "none", note)
  /\ \A name \in HookNames, tool \in {"none", "plain", "interactive"} : Made(Status!Tool(name, tool), name, tool, "none")
<1>1. ASSUME NEW name \in HookNames, NEW tool \in {"none", "plain", "interactive"}, NEW note \in HookNotes
      PROVE  Made(Status!Raw(name, tool, note, FALSE), name, tool, note)
  BY DEF Made, Status!Raw, Hooks
<1>2. "none" \in {"none", "plain", "interactive"} /\ "none" \in HookNotes
  BY DEF HookNotes
<1> QED
  BY <1>1, <1>2 DEF Status!Bare, Status!Noted, Status!Tool

\* What adapters/claude.rs makes of each hook of a Claude Code of its own.
LEMMA ClaudeSays ==
  /\ \A r \in Hooks : r.name = "UserPromptSubmit" => Status!ToLifecycleEvent("claude", r) \in WorkingEvents
  /\ \A r \in Hooks : r.name = "PreToolUse" /\ r.tool = "plain" => Status!ToLifecycleEvent("claude", r) \in WorkingEvents
  /\ \A r \in Hooks : r.name = "PreToolUse" /\ r.tool = "interactive" => Status!ToLifecycleEvent("claude", r) = "NeedsInput"
  /\ \A r \in Hooks : r.name = "PermissionRequest" => Status!ToLifecycleEvent("claude", r) = "NeedsInput"
  /\ \A r \in Hooks : r.name = "Notification" /\ r.note \in {"permission_prompt", "elicitation_dialog", "agent_needs_input"}
                        => Status!ToLifecycleEvent("claude", r) = "NeedsInput"
  /\ \A r \in Hooks : r.name = "Notification" /\ r.note = "idle_prompt" => Status!ToLifecycleEvent("claude", r) \in IdleEvents
  /\ \A r \in Hooks : r.name \in {"PostToolUse", "PostToolUseFailure"} /\ r.tool = "plain"
                        => Status!ToLifecycleEvent("claude", r) \in WorkingEvents
  /\ \A r \in Hooks : r.name \in {"Stop", "StopFailure", "SessionStart"} => Status!ToLifecycleEvent("claude", r) \in IdleEvents
  /\ \A r \in Hooks : r.name = "PreCompact" => Status!ToLifecycleEvent("claude", r) \in WorkingEvents
<1>1. Status!ClaudeNames["UserPromptSubmit"] = "PromptSubmit" /\ "UserPromptSubmit" \in DOMAIN Status!ClaudeNames
  BY DEF Status!ClaudeNames
<1>2. Status!ClaudeNames["PreToolUse"] = "ToolCallStart" /\ "PreToolUse" \in DOMAIN Status!ClaudeNames
  BY DEF Status!ClaudeNames
<1>3. Status!ClaudeNames["PermissionRequest"] = "NeedsInput" /\ "PermissionRequest" \in DOMAIN Status!ClaudeNames
  BY DEF Status!ClaudeNames
<1>4. "Notification" \in DOMAIN Status!ClaudeNames
  BY DEF Status!ClaudeNames
<1>5. Status!ClaudeNames["PostToolUse"] = "ToolCallEnd" /\ "PostToolUse" \in DOMAIN Status!ClaudeNames
  BY DEF Status!ClaudeNames
<1>6. Status!ClaudeNames["PostToolUseFailure"] = "ToolCallEnd" /\ "PostToolUseFailure" \in DOMAIN Status!ClaudeNames
  BY DEF Status!ClaudeNames
<1>7. Status!ClaudeNames["Stop"] = "WorkingEnd" /\ "Stop" \in DOMAIN Status!ClaudeNames
  BY DEF Status!ClaudeNames
<1>8. Status!ClaudeNames["StopFailure"] = "WorkingEnd" /\ "StopFailure" \in DOMAIN Status!ClaudeNames
  BY DEF Status!ClaudeNames
<1>9. Status!ClaudeNames["SessionStart"] = "SessionStart" /\ "SessionStart" \in DOMAIN Status!ClaudeNames
  BY DEF Status!ClaudeNames
<1>10. Status!ClaudeNames["PreCompact"] = "ContextCompactStart" /\ "PreCompact" \in DOMAIN Status!ClaudeNames
  BY DEF Status!ClaudeNames
<1>11. \A r : Status!ToLifecycleEvent("claude", r) = Status!ClaudeEvent(r)
  BY DEF Status!ToLifecycleEvent
<1> QED
  BY <1>1, <1>2, <1>3, <1>4, <1>5, <1>6, <1>7, <1>8, <1>9, <1>10, <1>11
     DEF Status!ClaudeEvent, Status!IsInteractive, Status!NotificationEvent, IdleEvents, WorkingEvents

\* What adapters/codex.rs makes of each hook of a Codex of its own.
LEMMA CodexSays ==
  /\ \A r \in Hooks : r.name = "UserPromptSubmit" => Status!ToLifecycleEvent("codex", r) \in WorkingEvents
  /\ \A r \in Hooks : r.name = "PreToolUse" /\ r.tool = "plain" => Status!ToLifecycleEvent("codex", r) \in WorkingEvents
  /\ \A r \in Hooks : r.name = "PermissionRequest" => Status!ToLifecycleEvent("codex", r) = "NeedsInput"
  /\ \A r \in Hooks : r.name = "PostToolUse" /\ r.tool = "plain" => Status!ToLifecycleEvent("codex", r) \in WorkingEvents
  /\ \A r \in Hooks : r.name \in {"Stop", "PostCompact"} => Status!ToLifecycleEvent("codex", r) \in IdleEvents
  /\ \A r \in Hooks : r.name = "PreCompact" => Status!ToLifecycleEvent("codex", r) \in WorkingEvents
<1>1. Status!CodexNames["UserPromptSubmit"] = "PromptSubmit" /\ "UserPromptSubmit" \in DOMAIN Status!CodexNames
  BY DEF Status!CodexNames
<1>2. Status!CodexNames["PreToolUse"] = "ToolCallStart" /\ "PreToolUse" \in DOMAIN Status!CodexNames
  BY DEF Status!CodexNames
<1>3. Status!CodexNames["PermissionRequest"] = "NeedsInput" /\ "PermissionRequest" \in DOMAIN Status!CodexNames
  BY DEF Status!CodexNames
<1>4. Status!CodexNames["PostToolUse"] = "ToolCallEnd" /\ "PostToolUse" \in DOMAIN Status!CodexNames
  BY DEF Status!CodexNames
<1>5. Status!CodexNames["Stop"] = "WorkingEnd" /\ "Stop" \in DOMAIN Status!CodexNames
  BY DEF Status!CodexNames
<1>6. Status!CodexNames["PostCompact"] = "WorkingEnd" /\ "PostCompact" \in DOMAIN Status!CodexNames
  BY DEF Status!CodexNames
<1>7. Status!CodexNames["PreCompact"] = "ContextCompactStart" /\ "PreCompact" \in DOMAIN Status!CodexNames
  BY DEF Status!CodexNames
<1>8. \A r : Status!ToLifecycleEvent("codex", r) = Status!CodexEvent(r)
  BY DEF Status!ToLifecycleEvent
<1> QED
  BY <1>1, <1>2, <1>3, <1>4, <1>5, <1>6, <1>7, <1>8 DEF Status!CodexEvent, IdleEvents, WorkingEvents

\* What adapters/pi.rs makes of each event of a pi of its own.
LEMMA PiSays ==
  /\ \A r \in Hooks : r.name \in {"agent_start", "atm_needs_input_resolved"} => Status!ToLifecycleEvent("pi", r) \in WorkingEvents
  /\ \A r \in Hooks : r.name = "tool_call" /\ r.tool = "plain" /\ r.note = "none"
                        => Status!ToLifecycleEvent("pi", r) \in WorkingEvents
  /\ \A r \in Hooks : r.name = "atm_needs_input_open" => Status!ToLifecycleEvent("pi", r) = "NeedsInput"
  /\ \A r \in Hooks : r.name = "tool_execution_end" /\ r.tool = "plain" => Status!ToLifecycleEvent("pi", r) \in WorkingEvents
  /\ \A r \in Hooks : r.name = "agent_end" => Status!ToLifecycleEvent("pi", r) \in IdleEvents
<1>1. Status!PiNames["agent_start"] = "WorkingStart" /\ "agent_start" \in DOMAIN Status!PiNames
  BY DEF Status!PiNames
<1>2. Status!PiNames["atm_needs_input_resolved"] = "WorkingStart" /\ "atm_needs_input_resolved" \in DOMAIN Status!PiNames
  BY DEF Status!PiNames
<1>3. Status!PiNames["tool_call"] = "ToolCallStart" /\ "tool_call" \in DOMAIN Status!PiNames
  BY DEF Status!PiNames
<1>4. Status!PiNames["atm_needs_input_open"] = "NeedsInput" /\ "atm_needs_input_open" \in DOMAIN Status!PiNames
  BY DEF Status!PiNames
<1>5. Status!PiNames["tool_execution_end"] = "ToolCallEnd" /\ "tool_execution_end" \in DOMAIN Status!PiNames
  BY DEF Status!PiNames
<1>6. Status!PiNames["agent_end"] = "WorkingEnd" /\ "agent_end" \in DOMAIN Status!PiNames
  BY DEF Status!PiNames
<1>7. \A r : Status!ToLifecycleEvent("pi", r) = Status!PiEvent(r)
  BY DEF Status!ToLifecycleEvent
<1> QED
  BY <1>1, <1>2, <1>3, <1>4, <1>5, <1>6, <1>7 DEF Status!PiEvent, IdleEvents, WorkingEvents

\* The agent's phase and the hooks that say so: the last of them is its newest word.
LEMMA StatusTold ==
  ASSUME StatusInv, NEW more \in Seq(Hooks), NEW n \in Nat \ {0}, n = Len(more), v2' = v2 \o more, v3' = v3,
         v1' \in StatusAgents, v1'.vendor = v1.vendor, v1.vendor = "pi" => v1'.phase # "compacting",
         v1'.phase = "dialog" => v1'.told, v1'.told => Says(v1.vendor, more[n], Due(v1'.phase))
  PROVE  StatusInv'
<1>1. StatusTypes /\ v2 \in Seq(Hooks)
  BY DEF StatusInv, StatusTypes
<1>2. PICK m \in Nat : m = Len(v2)
  BY <1>1, LenProperties
<1>3. v2' \in Seq(Hooks) /\ Len(v2') = m + n /\ v2'[m + n] = more[n]
  <2>1. /\ v2 \o more \in Seq(Hooks) /\ Len(v2 \o more) = Len(v2) + Len(more)
        /\ \A i \in 1 .. Len(more) : (v2 \o more)[Len(v2) + i] = more[i]
    BY ONLY <1>1, more \in Seq(Hooks), Concat
  <2> QED
    BY <1>2, <2>1
<1>4. StatusTypes'
  BY <1>1, <1>3 DEF StatusTypes
<1>5. ASSUME v1'.told  PROVE WireTells'
  <2>1. m + n \in 1 .. m + n /\ \A j \in 1 .. m + n : ~ (j > m + n)
    OBVIOUS
  <2>2. Says(v1'.vendor, v2'[m + n], Due(v1'.phase))
    BY <1>3, <1>5
  <2> QED
    BY <1>3, <2>1, <2>2 DEF WireTells
<1> QED
  BY <1>4, <1>5 DEF StatusInv

\* The agent goes on and tells nobody.
LEMMA StatusUntold ==
  ASSUME StatusInv, v2' = v2, v3' = v3, v1' \in StatusAgents, ~ v1'.told, v1'.phase \notin {"dialog", "compacting"}
  PROVE  StatusInv'
  BY DEF StatusInv, StatusTypes

\* It tells with one hook, or with two of which the second says where it stands.
LEMMA OneTells ==
  ASSUME StatusInv, NEW q \in Hooks, v2' = v2 \o <<q>>, v3' = v3, v1' \in StatusAgents,
         v1'.vendor = v1.vendor, v1.vendor = "pi" => v1'.phase # "compacting",
         v1'.phase = "dialog" => v1'.told, v1'.told => Says(v1.vendor, q, Due(v1'.phase))
  PROVE  StatusInv'
<1>1. PICK more : more = <<q>>
  OBVIOUS
<1>2. more \in Seq(Hooks) /\ Len(more) = 1 /\ more[1] = q /\ 1 \in Nat \ {0} /\ v2' = v2 \o more
  BY <1>1
<1> QED
  BY <1>2, StatusTold

\* An agent that reports twice has told what the second report says.
LEMMA TwoTell ==
  ASSUME StatusInv, NEW r \in Hooks, NEW q \in Hooks, v2' = v2 \o <<r, q>>, v3' = v3, v1' \in StatusAgents,
         v1'.vendor = v1.vendor, v1.vendor = "pi" => v1'.phase # "compacting",
         v1'.phase = "dialog" => v1'.told, v1'.told => Says(v1.vendor, q, Due(v1'.phase))
  PROVE  StatusInv'
<1>1. PICK more : more = <<r, q>>
  OBVIOUS
<1>2. more \in Seq(Hooks) /\ Len(more) = 2 /\ more[2] = q /\ 2 \in Nat \ {0} /\ v2' = v2 \o more
  BY <1>1
<1> QED
  BY <1>2, StatusTold

\* An agent's words are of its vendor.
LEMMA VendorIs ==
  ASSUME StatusInv
  PROVE  /\ v1.vendor \in {"claude", "codex", "pi"} /\ v1 \in StatusAgents /\ v2 \in Seq(Hooks)
         /\ v1.turns \in Nat /\ v1.calls \in Nat /\ v1.sides \in Nat /\ v1.losses \in Nat
         /\ v1.turns + 1 \in Nat /\ v1.calls + 1 \in Nat /\ v1.sides + 1 \in Nat /\ v1.losses + 1 \in Nat
         /\ v1.inTurn \in BOOLEAN /\ v1.told \in BOOLEAN
         /\ v1.phase \in {"ready", "turn", "dialog", "running", "compacting"}
  BY DEF StatusInv, StatusTypes, StatusAgents

\* A prompt: the agent works.
LEMMA StatusPrompt ==
  ASSUME StatusInv, Status!Prompt
  PROVE  StatusInv'
<1>1. /\ v1' = [v1 EXCEPT !.phase = "turn", !.inTurn = TRUE, !.told = TRUE, !.turns = @ + 1]
      /\ v2' = v2 \o (IF v1.vendor \in {"pi"}
                        THEN <<Status!Noted("input", "interactive"), Status!Bare("agent_start")>>
                        ELSE <<Status!Bare("UserPromptSubmit")>>)
      /\ v3' = v3
  BY DEF Status!Prompt, Status!Is
<1>2. v1' \in StatusAgents /\ v1'.vendor = v1.vendor /\ v1'.phase = "turn" /\ v1'.told
  BY <1>1, VendorIs DEF StatusAgents
<1>3. Due(v1'.phase) = "working"
  BY <1>2 DEF Due
<1>4. CASE v1.vendor = "pi"
  <2>1. PICK r : r = Status!Noted("input", "interactive") /\ r \in Hooks
    <3>1. "input" \in HookNames /\ "interactive" \in HookNotes
      BY DEF HookNames, HookNotes
    <3> QED
      BY <3>1, HookMade DEF Made
  <2>2. PICK q : q = Status!Bare("agent_start") /\ q \in Hooks /\ q.name = "agent_start" /\ q.child = FALSE
    <3>1. "agent_start" \in HookNames
      BY DEF HookNames
    <3> QED
      BY <3>1, HookMade DEF Made
  <2>3. v2' = v2 \o <<r, q>>
    BY <1>1, <1>4, <2>1, <2>2
  <2>4. Status!ToLifecycleEvent("pi", q) \in WorkingEvents
    BY <2>2, PiSays
  <2>5. Says(v1.vendor, q, "working")
    BY <1>4, <2>2, <2>4, EventSays
  <2> QED
    BY <1>1, <1>2, <1>3, <2>1, <2>2, <2>3, <2>5, TwoTell
<1>5. CASE v1.vendor # "pi"
  <2>1. PICK q : q = Status!Bare("UserPromptSubmit") /\ q \in Hooks /\ q.name = "UserPromptSubmit" /\ q.child = FALSE
    <3>1. "UserPromptSubmit" \in HookNames
      BY DEF HookNames
    <3> QED
      BY <3>1, HookMade DEF Made
  <2>2. v2' = v2 \o <<q>>
    BY <1>1, <1>5, <2>1
  <2>3. Status!ToLifecycleEvent(v1.vendor, q) \in WorkingEvents
    BY <1>5, <2>1, ClaudeSays, CodexSays, VendorIs
  <2>4. Says(v1.vendor, q, "working")
    BY <2>1, <2>3, EventSays
  <2> QED
    BY <1>1, <1>2, <1>3, <2>1, <2>2, <2>4, OneTells
<1> QED
  BY <1>4, <1>5

\* A call that runs, or waits for its user first.
LEMMA StatusCall ==
  ASSUME StatusInv, Status!CallRuns \/ Status!CallAsks
  PROVE  StatusInv'
<1>1. ASSUME NEW phase \in {"dialog", "running"}, NEW more, Status!Call(phase, more)
      PROVE  /\ v2' = v2 \o more /\ v3' = v3
             /\ v1' \in StatusAgents /\ v1'.vendor = v1.vendor /\ v1'.phase = phase /\ v1'.told
  <2>1. v1' = [v1 EXCEPT !.phase = phase, !.told = TRUE, !.calls = @ + 1] /\ v2' = v2 \o more /\ v3' = v3
    BY <1>1 DEF Status!Call
  <2> QED
    BY <2>1, VendorIs DEF StatusAgents
<1>2. Due("dialog") = "attention" /\ Due("running") = "working"
  BY DEF Due
<1>3. ASSUME NEW phase \in {"dialog", "running"}, NEW q \in Hooks, Says(v1.vendor, q, Due(phase)), Status!Call(phase, <<q>>)
      PROVE  StatusInv'
  <2>1. /\ v2' = v2 \o <<q>> /\ v3' = v3
        /\ v1' \in StatusAgents /\ v1'.vendor = v1.vendor /\ v1'.phase = phase /\ v1'.told
    BY <1>1, <1>3
  <2> QED
    BY <1>3, <2>1, OneTells
<1>4. ASSUME NEW phase \in {"dialog", "running"}, NEW r \in Hooks, NEW q \in Hooks, Says(v1.vendor, q, Due(phase)),
             Status!Call(phase, <<r, q>>)
      PROVE  StatusInv'
  <2>1. /\ v2' = v2 \o <<r, q>> /\ v3' = v3
        /\ v1' \in StatusAgents /\ v1'.vendor = v1.vendor /\ v1'.phase = phase /\ v1'.told
    BY <1>1, <1>4
  <2> QED
    BY <1>4, <2>1, TwoTell
<1>5. \A name \in {"tool_call", "PreToolUse", "PermissionRequest"}, tool \in {"none", "plain", "interactive"} :
        /\ Status!Tool(name, tool) \in Hooks /\ Status!Tool(name, tool).name = name
        /\ Status!Tool(name, tool).tool = tool /\ Status!Tool(name, tool).note = "none" /\ Status!Tool(name, tool).child = FALSE
  <2>1. {"tool_call", "PreToolUse", "PermissionRequest"} \subseteq HookNames
    BY DEF HookNames
  <2> QED
    BY <2>1, HookMade DEF Made
<1>6. CASE Status!CallRuns
  <2>1. PICK name \in {"tool_call", "PreToolUse"} :
          /\ name = (IF v1.vendor = "pi" THEN "tool_call" ELSE "PreToolUse")
          /\ Status!Call("running", <<Status!Tool(name, "plain")>>)
    BY <1>6 DEF Status!CallRuns, Status!Is
  <2>2. PICK q : q = Status!Tool(name, "plain")
    OBVIOUS
  <2>3. q \in Hooks /\ q.name = name /\ q.tool = "plain" /\ q.note = "none" /\ q.child = FALSE
    BY <1>5, <2>2
  <2>4. Status!ToLifecycleEvent(v1.vendor, q) \in WorkingEvents
    BY <2>1, <2>3, ClaudeSays, CodexSays, PiSays, VendorIs
  <2>5. Says(v1.vendor, q, Due("running"))
    BY <1>2, <2>3, <2>4, EventSays
  <2>6. Status!Call("running", <<q>>)
    BY <2>1, <2>2
  <2> QED
    BY <1>3, <2>3, <2>5, <2>6
<1>7. CASE v1.vendor = "claude" /\ Status!Call("dialog", <<Status!Tool("PreToolUse", "interactive")>>)
  <2>1. PICK q : q = Status!Tool("PreToolUse", "interactive")
    OBVIOUS
  <2>2. q \in Hooks /\ q.name = "PreToolUse" /\ q.tool = "interactive" /\ q.child = FALSE
    BY <1>5, <2>1
  <2>3. Status!ToLifecycleEvent(v1.vendor, q) = "NeedsInput"
    BY <1>7, <2>2, ClaudeSays
  <2>4. Says(v1.vendor, q, Due("dialog"))
    BY <1>2, <2>2, <2>3, EventSays
  <2>5. Status!Call("dialog", <<q>>)
    BY <1>7, <2>1
  <2> QED
    BY <1>3, <2>2, <2>4, <2>5
<1>8. CASE /\ v1.vendor \in {"claude", "codex"}
           /\ \E class \in {"none", "plain"} :
                Status!Call("dialog", <<Status!Tool("PreToolUse", "plain"), Status!Tool("PermissionRequest", class)>>)
  <2>1. PICK class \in {"none", "plain"} :
          Status!Call("dialog", <<Status!Tool("PreToolUse", "plain"), Status!Tool("PermissionRequest", class)>>)
    BY <1>8
  <2>2. PICK q : q = Status!Tool("PermissionRequest", class)
    OBVIOUS
  <2>3. PICK r : r = Status!Tool("PreToolUse", "plain")
    OBVIOUS
  <2>4. q \in Hooks /\ q.name = "PermissionRequest" /\ q.child = FALSE /\ r \in Hooks
    BY <1>5, <2>2, <2>3
  <2>5. Status!ToLifecycleEvent(v1.vendor, q) = "NeedsInput"
    BY <1>8, <2>4, ClaudeSays, CodexSays
  <2>6. Says(v1.vendor, q, Due("dialog"))
    BY <1>2, <2>4, <2>5, EventSays
  <2>7. Status!Call("dialog", <<r, q>>)
    BY <2>1, <2>2, <2>3
  <2> QED
    BY <1>4, <2>4, <2>6, <2>7
<1>9. CASE /\ v1.vendor = "pi"
           /\ \/ Status!Call("dialog", <<Status!Tool("tool_call", "plain"), Status!Bare("atm_needs_input_open")>>)
              \/ Status!Call("dialog", <<Status!Bare("atm_needs_input_open")>>)
  <2>1. PICK q : q = Status!Bare("atm_needs_input_open") /\ q \in Hooks /\ q.name = "atm_needs_input_open" /\ q.child = FALSE
    <3>1. "atm_needs_input_open" \in HookNames
      BY DEF HookNames
    <3> QED
      BY <3>1, HookMade DEF Made
  <2>2. PICK r : r = Status!Tool("tool_call", "plain")
    OBVIOUS
  <2>3. r \in Hooks
    BY <1>5, <2>2
  <2>4. Status!ToLifecycleEvent(v1.vendor, q) = "NeedsInput"
    BY <1>9, <2>1, PiSays
  <2>5. Says(v1.vendor, q, Due("dialog"))
    BY <1>2, <2>1, <2>4, EventSays
  <2>6. CASE Status!Call("dialog", <<r, q>>)
    BY <1>4, <2>1, <2>3, <2>5, <2>6
  <2>7. CASE Status!Call("dialog", <<q>>)
    BY <1>3, <2>1, <2>5, <2>7
  <2> QED
    BY <1>9, <2>1, <2>2, <2>6, <2>7
<1> QED
  BY <1>6, <1>7, <1>8, <1>9 DEF Status!CallAsks, Status!Is

\* An open dialog, or an idle prompt, is told again.
LEMMA StatusReminds ==
  ASSUME StatusInv, Status!DialogReminds \/ Status!IdleReminds
  PROVE  StatusInv'
<1>1. PICK note \in {"permission_prompt", "elicitation_dialog", "agent_needs_input", "idle_prompt"} :
        /\ v2' = Append(v2, Status!Noted("Notification", note)) /\ v1.vendor = "claude" /\ v3' = v3
        /\ \/ v1' = [v1 EXCEPT !.sides = @ + 1] /\ v1.phase = "dialog" /\ note # "idle_prompt"
           \/ v1' = [v1 EXCEPT !.sides = @ + 1, !.told = TRUE] /\ v1.phase = "ready" /\ note = "idle_prompt"
  BY DEF Status!DialogReminds, Status!IdleReminds, Status!Is
<1>2. PICK q : q = Status!Noted("Notification", note)
  OBVIOUS
<1>3. q \in Hooks /\ q.name = "Notification" /\ q.note = note /\ q.child = FALSE
  <2>1. "Notification" \in HookNames /\ note \in HookNotes
    BY DEF HookNames, HookNotes
  <2> QED
    BY <1>2, <2>1, HookMade DEF Made
<1>4. v1' \in StatusAgents /\ v1'.vendor = v1.vendor /\ v1'.phase = v1.phase
  BY <1>1, VendorIs DEF StatusAgents
<1>5. v1'.phase = "dialog" => v1'.told
  <2>1. CASE v1' = [v1 EXCEPT !.sides = @ + 1]
    BY <1>4, <2>1, VendorIs DEF StatusInv, StatusAgents
  <2>2. CASE v1' = [v1 EXCEPT !.sides = @ + 1, !.told = TRUE]
    BY <2>2, VendorIs DEF StatusAgents
  <2> QED
    BY <1>1, <2>1, <2>2
<1>6. Says(v1.vendor, q, Due(v1.phase))
  <2>1. Due("dialog") = "attention" /\ Due("ready") = "idle"
    BY DEF Due
  <2>2. CASE v1.phase = "dialog" /\ note # "idle_prompt"
    <3>1. Status!ToLifecycleEvent("claude", q) = "NeedsInput"
      BY <1>3, <2>2, ClaudeSays
    <3> QED
      BY <1>1, <1>3, <2>1, <2>2, <3>1, EventSays
  <2>3. CASE v1.phase = "ready" /\ note = "idle_prompt"
    <3>1. Status!ToLifecycleEvent("claude", q) \in IdleEvents
      BY <1>3, <2>3, ClaudeSays
    <3> QED
      BY <1>1, <1>3, <2>1, <2>3, <3>1, EventSays
  <2> QED
    BY <1>1, <2>2, <2>3
<1>7. v2' = v2 \o <<q>>
  BY <1>1, <1>2, <1>3, VendorIs, AppendIsConcat
<1> QED
  BY <1>1, <1>3, <1>4, <1>5, <1>6, <1>7, OneTells

\* The answer, the end of a call or of the turn, and a compaction.
LEMMA StatusMoves ==
  ASSUME StatusInv,
         \/ Status!DialogAnswered \/ Status!DialogCancelled \/ Status!CallEnds \/ Status!TurnEnds
         \/ Status!CompactStarts \/ Status!CompactEnds \/ Status!CompactFails
  PROVE  StatusInv'
<1> DEFINE Phases == {"ready", "turn", "dialog", "running", "compacting"}
<1>1. Due("ready") = "idle" /\ Due("running") = "working" /\ Due("turn") = "working" /\ Due("compacting") = "working"
  BY DEF Due
<1>2. ASSUME NEW phase \in {"ready", "turn", "running"}, NEW inTurn \in BOOLEAN, Status!MovesUnseen(phase, inTurn)
      PROVE  StatusInv'
  <2>1. v1' = [v1 EXCEPT !.phase = phase, !.inTurn = inTurn, !.told = FALSE] /\ v2' = v2 /\ v3' = v3
    BY <1>2 DEF Status!MovesUnseen
  <2>2. v1' \in StatusAgents /\ ~ v1'.told /\ v1'.phase = phase
    BY <2>1, VendorIs DEF StatusAgents
  <2> QED
    BY <2>1, <2>2, StatusUntold
<1>3. ASSUME NEW phase \in {"ready", "turn", "running"}, NEW inTurn \in BOOLEAN, NEW q \in Hooks,
             Status!Moves(phase, inTurn, <<q>>), Says(v1.vendor, q, Due(phase))
      PROVE  StatusInv'
  <2>1. v1' = [v1 EXCEPT !.phase = phase, !.inTurn = inTurn, !.told = TRUE] /\ v2' = v2 \o <<q>> /\ v3' = v3
    BY <1>3 DEF Status!Moves
  <2>2. v1' \in StatusAgents /\ v1'.told /\ v1'.phase = phase /\ v1'.vendor = v1.vendor
    BY <2>1, VendorIs DEF StatusAgents
  <2> QED
    BY <1>3, <2>1, <2>2, OneTells
<1>4. \A name \in HookNames : /\ Status!Bare(name) \in Hooks /\ Status!Bare(name).name = name /\ Status!Bare(name).child = FALSE
                              /\ Status!Tool(name, "plain") \in Hooks /\ Status!Tool(name, "plain").name = name
                              /\ Status!Tool(name, "plain").tool = "plain" /\ Status!Tool(name, "plain").child = FALSE
  <2>1. "plain" \in {"none", "plain", "interactive"}
    OBVIOUS
  <2> QED
    BY <2>1, HookMade DEF Made
<1>5. {"atm_needs_input_resolved", "tool_execution_end", "PostToolUse", "PostToolUseFailure", "agent_end", "Stop",
       "StopFailure", "PreCompact", "PostCompact", "SubagentStop", "SessionStart"} \subseteq HookNames
  BY DEF HookNames
<1>6. CASE Status!DialogAnswered
  <2>1. CASE v1.vendor = "pi"
    <3>1. Status!Moves("running", TRUE, <<Status!Bare("atm_needs_input_resolved")>>)
      BY <1>6, <2>1 DEF Status!DialogAnswered, Status!Is
    <3>2. PICK q : q = Status!Bare("atm_needs_input_resolved")
      OBVIOUS
    <3>3. q \in Hooks /\ q.name = "atm_needs_input_resolved" /\ q.child = FALSE
      BY <1>4, <1>5, <3>2
    <3>4. Status!ToLifecycleEvent(v1.vendor, q) \in WorkingEvents
      BY <2>1, <3>3, PiSays
    <3>5. Says(v1.vendor, q, Due("running")) /\ Status!Moves("running", TRUE, <<q>>)
      BY <1>1, <3>1, <3>2, <3>3, <3>4, EventSays
    <3> QED
      BY <1>3, <3>3, <3>5
  <2>2. CASE v1.vendor # "pi"
    <3>1. Status!MovesUnseen("running", TRUE)
      BY <1>6, <2>2 DEF Status!DialogAnswered, Status!Is
    <3> QED
      BY <1>2, <3>1
  <2> QED
    BY <2>1, <2>2
<1>7. CASE Status!DialogCancelled
  BY <1>2, <1>7 DEF Status!DialogCancelled
<1>8. CASE Status!CallEnds
  <2>1. PICK name \in {"tool_execution_end", "PostToolUse", "PostToolUseFailure"} :
          /\ Status!Moves("turn", TRUE, <<Status!Tool(name, "plain")>>)
          /\ v1.vendor = "pi" => name = "tool_execution_end"
          /\ v1.vendor = "codex" => name = "PostToolUse"
          /\ v1.vendor = "claude" => name \in {"PostToolUse", "PostToolUseFailure"}
    <3>1. PICK name \in (IF v1.vendor = "pi" THEN {"tool_execution_end"}
                         ELSE IF v1.vendor = "codex" THEN {"PostToolUse"}
                         ELSE {"PostToolUse", "PostToolUseFailure"}) :
            Status!Moves("turn", TRUE, <<Status!Tool(name, "plain")>>)
      BY <1>8 DEF Status!CallEnds, Status!Is
    <3> QED
      BY <3>1
  <2>2. PICK q : q = Status!Tool(name, "plain")
    OBVIOUS
  <2>3. q \in Hooks /\ q.name = name /\ q.tool = "plain" /\ q.child = FALSE
    BY <1>4, <1>5, <2>2
  <2>4. Status!ToLifecycleEvent(v1.vendor, q) \in WorkingEvents
    BY <2>1, <2>3, ClaudeSays, CodexSays, PiSays, VendorIs
  <2>5. Says(v1.vendor, q, Due("turn")) /\ Status!Moves("turn", TRUE, <<q>>)
    BY <1>1, <2>1, <2>2, <2>3, <2>4, EventSays
  <2> QED
    BY <1>3, <2>3, <2>5
<1>9. CASE Status!TurnEnds
  <2>1. PICK name \in {"agent_end", "Stop", "StopFailure"} :
          /\ Status!Moves("ready", FALSE, <<Status!Bare(name)>>)
          /\ v1.vendor = "pi" => name = "agent_end"
          /\ v1.vendor = "codex" => name = "Stop"
          /\ v1.vendor = "claude" => name \in {"Stop", "StopFailure"}
    <3>1. PICK name \in (IF v1.vendor = "pi" THEN {"agent_end"}
                         ELSE IF v1.vendor = "codex" THEN {"Stop"}
                         ELSE {"Stop", "StopFailure"}) :
            Status!Moves("ready", FALSE, <<Status!Bare(name)>>)
      BY <1>9 DEF Status!TurnEnds, Status!Is
    <3> QED
      BY <3>1
  <2>2. PICK q : q = Status!Bare(name)
    OBVIOUS
  <2>3. q \in Hooks /\ q.name = name /\ q.child = FALSE
    BY <1>4, <1>5, <2>2
  <2>4. Status!ToLifecycleEvent(v1.vendor, q) \in IdleEvents
    BY <2>1, <2>3, ClaudeSays, CodexSays, PiSays, VendorIs
  <2>5. Says(v1.vendor, q, Due("ready")) /\ Status!Moves("ready", FALSE, <<q>>)
    BY <1>1, <2>1, <2>2, <2>3, <2>4, EventSays
  <2> QED
    BY <1>3, <2>3, <2>5
<1>10. CASE Status!CompactStarts
  <2>1. /\ v1.vendor # "pi" /\ v3' = v3 /\ v2' = Append(v2, Status!Bare("PreCompact"))
        /\ v1' = [v1 EXCEPT !.phase = "compacting", !.told = TRUE, !.calls = @ + 1]
    BY <1>10 DEF Status!CompactStarts, Status!Is
  <2>2. PICK q : q = Status!Bare("PreCompact")
    OBVIOUS
  <2>3. q \in Hooks /\ q.name = "PreCompact" /\ q.child = FALSE
    BY <1>4, <1>5, <2>2
  <2>4. Status!ToLifecycleEvent(v1.vendor, q) \in WorkingEvents
    BY <2>1, <2>3, ClaudeSays, CodexSays, VendorIs
  <2>5. Says(v1.vendor, q, Due("compacting"))
    BY <1>1, <2>3, <2>4, EventSays
  <2>6. v1' \in StatusAgents /\ v1'.told /\ v1'.phase = "compacting" /\ v1'.vendor = v1.vendor
    BY <2>1, VendorIs DEF StatusAgents
  <2>7. v2' = v2 \o <<q>>
    BY <2>1, <2>2, <2>3, VendorIs, AppendIsConcat
  <2> QED
    BY <2>1, <2>3, <2>5, <2>6, <2>7, OneTells
<1>11. CASE Status!CompactEnds
  <2>1. PICK phase \in {"turn", "ready"} : phase = IF v1.inTurn THEN "turn" ELSE "ready"
    OBVIOUS
  <2>2. PICK told \in BOOLEAN : told = ~ v1.inTurn
    OBVIOUS
  <2>3. /\ v2' = v2 \o (IF v1.vendor \in {"codex"} THEN <<Status!Bare("PostCompact")>>
                        ELSE <<Status!Bare("SubagentStop"), Status!Noted("SessionStart", "compact")>>)
        /\ v1' = [v1 EXCEPT !.phase = phase, !.told = told] /\ v3' = v3 /\ v1.phase = "compacting"
    BY <1>11, <2>1, <2>2 DEF Status!CompactEnds, Status!Is
  <2>4. /\ v1' \in StatusAgents /\ v1'.vendor = v1.vendor /\ v1'.phase \notin {"dialog", "compacting"}
        /\ v1'.told => v1'.phase = "ready"
    BY <2>1, <2>2, <2>3, VendorIs DEF StatusAgents
  <2>5. CASE v1.vendor = "codex"
    <3>1. PICK q : q = Status!Bare("PostCompact")
      OBVIOUS
    <3>2. q \in Hooks /\ q.name = "PostCompact" /\ q.child = FALSE /\ v2' = v2 \o <<q>>
      BY <1>4, <1>5, <2>3, <2>5, <3>1
    <3>3. Status!ToLifecycleEvent(v1.vendor, q) \in IdleEvents
      BY <2>5, <3>2, CodexSays
    <3>4. v1'.told => Says(v1.vendor, q, Due(v1'.phase))
      BY <1>1, <2>4, <3>2, <3>3, EventSays
    <3> QED
      BY <2>3, <2>4, <3>2, <3>4, OneTells
  <2>6. CASE v1.vendor = "claude"
    <3>1. PICK r : r = Status!Bare("SubagentStop")
      OBVIOUS
    <3>2. PICK q : q = Status!Noted("SessionStart", "compact")
      OBVIOUS
    <3>3. q \in Hooks /\ q.name = "SessionStart" /\ q.child = FALSE
      <4>1. "SessionStart" \in HookNames /\ "compact" \in HookNotes
        BY DEF HookNames, HookNotes
      <4> QED
        BY <3>2, <4>1, HookMade DEF Made
    <3>4. r \in Hooks /\ v2' = v2 \o <<r, q>>
      BY <1>4, <1>5, <2>3, <2>6, <3>1, <3>2
    <3>5. Status!ToLifecycleEvent(v1.vendor, q) \in IdleEvents
      BY <2>6, <3>3, ClaudeSays
    <3>6. v1'.told => Says(v1.vendor, q, Due(v1'.phase))
      BY <1>1, <2>4, <3>3, <3>5, EventSays
    <3> QED
      BY <2>3, <2>4, <3>3, <3>4, <3>6, TwoTell
  <2>7. CASE v1.vendor = "pi"
    <3>1. v1.phase # "compacting"
      BY <2>7 DEF StatusInv
    <3> QED
      BY <2>3, <3>1
  <2> QED
    BY <2>5, <2>6, <2>7, VendorIs
<1>12. CASE Status!CompactFails
  <2>1. PICK phase \in {"turn", "ready"} : phase = IF v1.inTurn THEN "turn" ELSE "ready"
    OBVIOUS
  <2>2. PICK inTurn \in BOOLEAN : inTurn = v1.inTurn
    BY VendorIs
  <2>3. Status!MovesUnseen(phase, inTurn)
    BY <1>12, <2>1, <2>2 DEF Status!CompactFails
  <2> QED
    BY <1>2, <2>3
<1> QED
  BY <1>6, <1>7, <1>8, <1>9, <1>10, <1>11, <1>12

\* A child's hook, wherever it arrives, says nothing of the agent.
LEMMA StatusChild ==
  ASSUME StatusInv, Status!ChildReports
  PROVE  StatusInv'
<1>1. PICK name \in {"SubagentStart", "SubagentStop", "PermissionRequest", "PostToolUse"}, n \in 0 .. Len(v2) :
        /\ v2' = SubSeq(v2, 1, n) \o <<Status!Raw(name, "plain", "none", TRUE)>> \o SubSeq(v2, n + 1, Len(v2))
        /\ name \notin {"SubagentStart", "SubagentStop"} => v1.vendor = "claude"
        /\ v1' = [v1 EXCEPT !.sides = @ + 1] /\ v3' = v3 /\ v1.vendor \in {"claude", "codex"}
  <2>1. PICK raw \in {Status!Raw(name, "plain", "none", TRUE) :
                        name \in {"SubagentStart", "SubagentStop"}
                                   \cup (IF v1.vendor = "claude" THEN {"PermissionRequest", "PostToolUse"} ELSE {})},
             n \in 0 .. Len(v2) :
          v2' = SubSeq(v2, 1, n) \o <<raw>> \o SubSeq(v2, n + 1, Len(v2))
    BY DEF Status!ChildReports, Status!Is
  <2>2. PICK name \in {"SubagentStart", "SubagentStop"}
                        \cup (IF v1.vendor = "claude" THEN {"PermissionRequest", "PostToolUse"} ELSE {}) :
          raw = Status!Raw(name, "plain", "none", TRUE)
    BY <2>1
  <2>3. /\ name \in {"SubagentStart", "SubagentStop", "PermissionRequest", "PostToolUse"}
        /\ name \notin {"SubagentStart", "SubagentStop"} => v1.vendor = "claude"
    BY <2>2
  <2>4. v1' = [v1 EXCEPT !.sides = @ + 1] /\ v3' = v3 /\ v1.vendor \in {"claude", "codex"}
    BY DEF Status!ChildReports, Status!Is
  <2> QED
    BY <2>1, <2>2, <2>3, <2>4
<1>2. PICK raw : raw = Status!Raw(name, "plain", "none", TRUE)
  OBVIOUS
<1>3. raw \in Hooks /\ raw.name = name /\ raw.tool = "plain" /\ raw.child = TRUE
  <2>1. name \in HookNames /\ "none" \in HookNotes /\ "plain" \in {"none", "plain", "interactive"}
    BY DEF HookNames, HookNotes
  <2> QED
    BY <1>2, <2>1 DEF Status!Raw, Hooks
<1>4. Status!Silent(raw)
  <2>1. CASE name \in {"SubagentStart", "SubagentStop"}
    <3>1. /\ Status!ClaudeNames["SubagentStart"] = "ChildSessionStart" /\ "SubagentStart" \in DOMAIN Status!ClaudeNames
          /\ Status!ClaudeNames["SubagentStop"] = "ChildSessionEnd" /\ "SubagentStop" \in DOMAIN Status!ClaudeNames
      BY DEF Status!ClaudeNames
    <3>2. /\ Status!CodexNames["SubagentStart"] = "ChildSessionStart" /\ "SubagentStart" \in DOMAIN Status!CodexNames
          /\ Status!CodexNames["SubagentStop"] = "ChildSessionEnd" /\ "SubagentStop" \in DOMAIN Status!CodexNames
      BY DEF Status!CodexNames
    <3>3. Status!ClaudeEvent(raw) \in {"ChildSessionStart", "ChildSessionEnd"}
      BY <1>3, <2>1, <3>1 DEF Status!ClaudeEvent
    <3>4. Status!CodexEvent(raw) \in {"ChildSessionStart", "ChildSessionEnd"}
      BY <1>3, <2>1, <3>2 DEF Status!CodexEvent
    <3>5. Status!ToLifecycleEvent(v1.vendor, raw) \in {"ChildSessionStart", "ChildSessionEnd"}
      BY <1>1, <3>3, <3>4 DEF Status!ToLifecycleEvent
    <3> QED
      BY <3>5 DEF Status!Silent
  <2>2. CASE name \notin {"SubagentStart", "SubagentStop"}
    BY <1>1, <1>3, <2>2 DEF Status!Silent, Status!ChildAgent
  <2> QED
    BY <2>1, <2>2
<1>5. PICK m \in Nat : m = Len(v2)
  BY VendorIs, LenProperties
<1>6. PICK new : new = v2'
  OBVIOUS
<1>7. n \in 0 .. m
  BY <1>1, <1>5
<1>8. /\ new \in Seq(Hooks) /\ Len(new) = m + 1 /\ new[n + 1] = raw
      /\ \A j \in 1 .. n : new[j] = v2[j]
      /\ \A j \in n + 1 .. m : new[j + 1] = v2[j]
  <2> DEFINE a == SubSeq(v2, 1, n)
             b == SubSeq(v2, n + 1, m)
             c == <<raw>>
  <2>1. \A j \in 1 .. m : v2[j] \in Hooks
    BY <1>5, VendorIs, ElementOfSeq
  <2>2. a \in Seq(Hooks) /\ Len(a) = n /\ \A j \in 1 .. n : a[j] = v2[j]
    <3>1. (\A j \in 1 .. n : v2[j] \in Hooks) /\ (~ 1 <= n => n = 0) /\ n - 1 + 1 = n
      BY <1>7, <2>1
    <3>2. a \in Seq(Hooks) /\ Len(a) = (IF 1 <= n THEN n - 1 + 1 ELSE 0) /\ \A j \in 1 .. n - 1 + 1 : a[j] = v2[1 + j - 1]
      BY <1>7, <3>1, SubSeqProperties
    <3> HIDE DEF a
    <3> QED
      BY <1>7, <3>1, <3>2
  <2>3. b \in Seq(Hooks) /\ Len(b) = m - n /\ \A j \in n + 1 .. m : b[j - n] = v2[j] /\ j - n \in 1 .. m - n
    <3>1. (\A j \in n + 1 .. m : v2[j] \in Hooks) /\ (~ n + 1 <= m => m - n = 0) /\ m - (n + 1) + 1 = m - n
      BY <1>7, <2>1
    <3>2. b \in Seq(Hooks) /\ Len(b) = (IF n + 1 <= m THEN m - (n + 1) + 1 ELSE 0) /\ \A j \in 1 .. m - (n + 1) + 1 : b[j] = v2[n + 1 + j - 1]
      BY <1>7, <3>1, SubSeqProperties
    <3> HIDE DEF b
    <3>3. ASSUME NEW j \in n + 1 .. m  PROVE b[j - n] = v2[j] /\ j - n \in 1 .. m - n
      <4>1. j - n \in 1 .. m - (n + 1) + 1 /\ n + 1 + (j - n) - 1 = j /\ j - n \in 1 .. m - n
        BY <1>7
      <4> QED
        BY <3>2, <4>1
    <3>4. Len(b) = m - n
      BY <1>7, <3>1, <3>2
    <3> QED
      BY <3>2, <3>3, <3>4
  <2>4. c \in Seq(Hooks) /\ Len(c) = 1 /\ c[1] = raw
    BY <1>3
  <2>5. new = (a \o c) \o b
    BY <1>1, <1>2, <1>5, <1>6
  <2> HIDE DEF a, b, c
  <2> DEFINE d == a \o c
  <2>6. /\ d \in Seq(Hooks) /\ Len(d) = n + 1
        /\ \A j \in 1 .. n : d[j] = v2[j]
        /\ d[n + 1] = raw
    <3>1. a \in Seq(Hooks) /\ c \in Seq(Hooks)
      BY <2>2, <2>4
    <3>2. /\ d \in Seq(Hooks) /\ Len(d) = Len(a) + Len(c)
          /\ \A j \in 1 .. Len(a) : d[j] = a[j]
          /\ \A j \in 1 .. Len(c) : d[Len(a) + j] = c[j]
      BY ONLY <3>1, Concat
    <3>3. 1 \in 1 .. 1
      OBVIOUS
    <3> HIDE DEF d
    <3> QED
      BY <2>2, <2>4, <3>2, <3>3
  <2> HIDE DEF d
  <2>7. /\ d \o b \in Seq(Hooks) /\ Len(d \o b) = Len(d) + Len(b)
        /\ \A j \in 1 .. Len(d) : (d \o b)[j] = d[j]
        /\ \A j \in 1 .. Len(b) : (d \o b)[Len(d) + j] = b[j]
    <3>1. d \in Seq(Hooks) /\ b \in Seq(Hooks)
      BY <2>3, <2>6
    <3> QED
      BY ONLY <3>1, Concat
  <2>8. new = d \o b
    BY <2>5 DEF d
  <2>9. new \in Seq(Hooks) /\ Len(new) = m + 1
    BY <1>7, <2>3, <2>6, <2>7, <2>8
  <2>10. \A j \in 1 .. n + 1 : new[j] = d[j]
    BY <2>6, <2>7, <2>8
  <2>11. n + 1 \in 1 .. n + 1 /\ \A j \in 1 .. n : j \in 1 .. n + 1
    BY <1>7
  <2>12. ASSUME NEW j \in n + 1 .. m  PROVE new[j + 1] = v2[j]
    <3>1. n + 1 + (j - n) = j + 1 /\ j - n \in 1 .. Len(b) /\ b[j - n] = v2[j]
      BY <1>7, <2>3
    <3>2. new[n + 1 + (j - n)] = b[j - n]
      BY <2>6, <2>7, <2>8, <3>1
    <3> QED
      BY <3>1, <3>2
  <2> QED
    BY <2>6, <2>9, <2>10, <2>11, <2>12
<1>9. v1' \in StatusAgents /\ v1'.vendor = v1.vendor /\ v1'.phase = v1.phase /\ v1'.told = v1.told
  BY <1>1, VendorIs DEF StatusAgents
<1>10. StatusTypes' /\ v3' = v3
  BY <1>1, <1>6, <1>8, <1>9 DEF StatusInv, StatusTypes
<1>11. \A q : Status!Silent(q)' <=> Status!Silent(q)
  BY <1>9 DEF Status!Silent
<1>12. \A j \in 1 .. m + 1 : j \in 1 .. n \/ j = n + 1 \/ (j - 1 \in n + 1 .. m /\ (j - 1) + 1 = j)
  BY <1>7
<1>13. \A j \in 1 .. n : j \in 1 .. m
  BY <1>7
<1>14. \A j \in n + 1 .. m : j \in 1 .. m
  BY <1>7
<1>15. ASSUME v1.told  PROVE WireTells'
  <2>1. WireTells
    BY <1>15 DEF StatusInv
  <2>2. ASSUME \/ \E i \in 1 .. m + 1 :
                    Says(v1.vendor, new[i], Due(v1.phase)) /\ \A j \in 1 .. m + 1 : j > i => Status!Silent(new[j])
               \/ (\A i \in 1 .. m + 1 : Status!Silent(new[i])) /\ (v3.lost \/ v3.status = Due(v1.phase))
        PROVE  WireTells'
    BY <1>6, <1>8, <1>9, <1>10, <1>11, <2>2 DEF WireTells, Status!Silent
  <2>3. CASE \E i \in 1 .. m : Says(v1.vendor, v2[i], Due(v1.phase)) /\ \A j \in 1 .. m : j > i => Status!Silent(v2[j])
    <3>1. PICK i \in 1 .. m : Says(v1.vendor, v2[i], Due(v1.phase)) /\ \A j \in 1 .. m : j > i => Status!Silent(v2[j])
      BY <2>3
    <3>2. PICK k \in 1 .. m + 1 : new[k] = v2[i] /\ (IF i <= n THEN k = i ELSE k = i + 1)
      <4>1. CASE i <= n
        BY <1>7, <1>8, <4>1
      <4>2. CASE ~ i <= n
        BY <1>7, <1>8, <4>2
      <4> QED
        BY <4>1, <4>2
    <3>3. ASSUME NEW j \in 1 .. m + 1, j > k  PROVE Status!Silent(new[j])
      <4>1. CASE j \in 1 .. n
        BY <1>7, <1>8, <1>13, <3>1, <3>2, <3>3, <4>1
      <4>2. CASE j = n + 1
        BY <1>4, <1>8, <4>2
      <4>3. CASE j - 1 \in n + 1 .. m /\ (j - 1) + 1 = j
        <5>1. j - 1 > i
          BY <1>7, <3>2, <3>3, <4>3
        <5>2. new[j] = v2[j - 1] /\ j - 1 \in 1 .. m
          BY <1>8, <1>14, <4>3
        <5> QED
          BY <3>1, <5>1, <5>2
      <4> QED
        BY <1>12, <4>1, <4>2, <4>3
    <3> QED
      BY <2>2, <3>1, <3>2, <3>3
  <2>4. CASE (\A i \in 1 .. m : Status!Silent(v2[i])) /\ (v3.lost \/ v3.status = Due(v1.phase))
    <3>1. ASSUME NEW j \in 1 .. m + 1  PROVE Status!Silent(new[j])
      BY <1>4, <1>8, <1>12, <1>13, <1>14, <2>4
    <3> QED
      BY <2>2, <2>4, <3>1
  <2> QED
    BY <1>5, <2>1, <2>3, <2>4 DEF WireTells
<1> QED
  BY <1>9, <1>10, <1>15 DEF StatusInv

\* A hook arrives, or is lost.
LEMMA StatusArrives ==
  ASSUME StatusInv, Status!Deliver \/ Status!HookTimesOut
  PROVE  StatusInv'
<1>1. v2' = Tail(v2) /\ v2 # <<>> /\ v2 \in Seq(Hooks) /\ v3 \in [status : Statuses, lost : BOOLEAN]
  BY DEF StatusInv, StatusTypes, Status!Deliver, Status!HookTimesOut
<1>2. v1' \in StatusAgents /\ v1'.vendor = v1.vendor /\ v1'.phase = v1.phase /\ v1'.told = v1.told
  <2>1. v1' = v1 \/ v1' = [v1 EXCEPT !.losses = @ + 1]
    BY DEF Status!Deliver, Status!HookTimesOut
  <2> QED
    BY <2>1, VendorIs DEF StatusAgents
<1>3. PICK m \in Nat : m = Len(v2)
  BY <1>1, LenProperties
<1>4. PICK r : r = Head(v2)
  OBVIOUS
<1>5. PICK new : new = v2'
  OBVIOUS
<1>6. /\ m > 0 /\ r = v2[1] /\ new \in Seq(Hooks) /\ Len(new) = m - 1
      /\ \A i \in 1 .. m - 1 : i + 1 \in 1 .. m /\ new[i] = v2[i + 1]
      /\ \A i \in 2 .. m : i - 1 \in 1 .. m - 1 /\ new[i - 1] = v2[i]
  <2>1. /\ m > 0 /\ r = v2[1] /\ new \in Seq(Hooks) /\ Len(new) = m - 1
        /\ \A i \in 1 .. Len(new) : i + 1 \in 1 .. m /\ new[i] = v2[i + 1]
        /\ \A i \in 2 .. m : i - 1 \in 1 .. Len(new) /\ new[i - 1] = v2[i]
    BY <1>1, <1>3, <1>4, <1>5, HeadTail
  <2> QED
    BY <2>1
<1>7. /\ v3' \in [status : Statuses, lost : BOOLEAN]
      /\ Status!Silent(r) => v3'.status = v3.status /\ v3'.lost = v3.lost
      /\ \A status : Says(v1.vendor, r, status) => v3'.lost \/ v3'.status = status
  <2>1. CASE Status!HookTimesOut
    <3>1. v3' = [v3 EXCEPT !.lost = @ \/ ~ Status!Silent(r)]
      BY <1>4, <2>1 DEF Status!HookTimesOut
    <3>2. \A status : Says(v1.vendor, r, status) => ~ Status!Silent(r)
      BY DEF Says, Status!Silent
    <3>3. PICK lost \in BOOLEAN : lost <=> (v3.lost \/ ~ Status!Silent(r))
      OBVIOUS
    <3>4. v3' = [v3 EXCEPT !.lost = lost]
      BY <1>1, <3>1, <3>3
    <3>5. v3' \in [status : Statuses, lost : BOOLEAN] /\ v3'.status = v3.status /\ v3'.lost = lost
      BY <1>1, <3>4
    <3> QED
      BY <1>1, <3>2, <3>3, <3>5
  <2>2. CASE Status!Deliver /\ Status!ChildAgent(v1.vendor, r)
    <3>1. v3' = v3
      BY <1>4, <2>2 DEF Status!Deliver
    <3> QED
      BY <1>1, <2>2, <3>1 DEF Says
  <2>3. CASE Status!Deliver /\ ~ Status!ChildAgent(v1.vendor, r)
    <3>1. PICK event : event = Status!ToLifecycleEvent(v1.vendor, r)
      OBVIOUS
    <3>2. v3' = [status |-> Status!ApplyLifecycleEvent(v3.status, event), lost |-> v3.lost /\ Status!Silent(r)]
      BY <1>4, <2>3, <3>1 DEF Status!Deliver
    <3>3. PICK lost \in BOOLEAN : lost <=> (v3.lost /\ Status!Silent(r))
      OBVIOUS
    <3>4. v3' = [status |-> Status!ApplyLifecycleEvent(v3.status, event), lost |-> lost]
      BY <1>1, <3>2, <3>3
    <3>5. v3.status \in Statuses /\ v3.lost \in BOOLEAN
      BY <1>1
    <3>6. Status!ApplyLifecycleEvent(v3.status, event) \in Statuses
      BY <3>5 DEF Status!ApplyLifecycleEvent, Statuses
    <3>7. v3' \in [status : Statuses, lost : BOOLEAN]
      BY <3>4, <3>6
    <3>8. Status!Silent(r) => v3'.status = v3.status /\ v3'.lost = v3.lost
      <4> SUFFICES ASSUME Status!Silent(r)  PROVE v3'.status = v3.status /\ v3'.lost = v3.lost
        OBVIOUS
      <4>1. event \in {"none", "Notification", "ChildSessionStart", "ChildSessionEnd", "ContextUpdate", "ProviderModelChange"}
        BY <2>3, <3>1 DEF Status!Silent
      <4>2. Status!ApplyLifecycleEvent(v3.status, event) = v3.status
        BY <4>1 DEF Status!ApplyLifecycleEvent
      <4> QED
        BY <3>3, <3>4, <3>5, <4>2
    <3>9. \A status : Says(v1.vendor, r, status) => v3'.status = status
      BY <3>1, <3>4, <3>5 DEF Says
    <3> QED
      BY <3>7, <3>8, <3>9
  <2> QED
    BY <2>1, <2>2, <2>3
<1>8. StatusTypes'
  BY <1>2, <1>5, <1>6, <1>7 DEF StatusTypes
<1>9. \A q : Status!Silent(q)' <=> Status!Silent(q)
  BY <1>2 DEF Status!Silent
<1>10. ASSUME v1.told  PROVE WireTells'
  <2>1. WireTells
    BY <1>10 DEF StatusInv
  <2>2. ASSUME \/ \E i \in 1 .. m - 1 :
                    Says(v1.vendor, new[i], Due(v1.phase)) /\ \A j \in 1 .. m - 1 : j > i => Status!Silent(new[j])
               \/ (\A i \in 1 .. m - 1 : Status!Silent(new[i])) /\ (v3'.lost \/ v3'.status = Due(v1.phase))
        PROVE  WireTells'
    BY <1>2, <1>5, <1>6, <1>9, <2>2 DEF WireTells, Status!Silent
  <2>3. CASE \E i \in 1 .. m : Says(v1.vendor, v2[i], Due(v1.phase)) /\ \A j \in 1 .. m : j > i => Status!Silent(v2[j])
    <3>1. PICK i \in 1 .. m : Says(v1.vendor, v2[i], Due(v1.phase)) /\ \A j \in 1 .. m : j > i => Status!Silent(v2[j])
      BY <2>3
    <3>2. ASSUME NEW j \in 1 .. m - 1, j > i - 1  PROVE Status!Silent(new[j])
      BY <1>6, <3>1, <3>2
    <3>3. CASE i = 1
      <4>1. \A j \in 1 .. m - 1 : Status!Silent(new[j])
        BY <3>2, <3>3
      <4> QED
        BY <1>6, <1>7, <2>2, <3>1, <3>3, <4>1
    <3>4. CASE i # 1
      <4>1. i \in 2 .. m /\ i - 1 \in 1 .. m - 1 /\ new[i - 1] = v2[i]
        BY <1>6, <3>1, <3>4
      <4> QED
        BY <2>2, <3>1, <3>2, <4>1
    <3> QED
      BY <3>3, <3>4
  <2>4. CASE (\A i \in 1 .. m : Status!Silent(v2[i])) /\ (v3.lost \/ v3.status = Due(v1.phase))
    <3>1. \A i \in 1 .. m - 1 : Status!Silent(new[i])
      BY <1>6, <2>4
    <3>2. 1 \in 1 .. m
      BY <1>6
    <3>3. v3'.lost \/ v3'.status = Due(v1.phase)
      BY <1>6, <1>7, <2>4, <3>2
    <3> QED
      BY <2>2, <3>1, <3>3
  <2> QED
    BY <1>3, <2>1, <2>3, <2>4 DEF WireTells
<1> QED
  BY <1>2, <1>8, <1>10 DEF StatusInv

\* Every step of the agent, its hooks and the daemon keeps the invariant.
LEMMA StatusKeepsInv ==
  ASSUME StatusInv, [Status!Next]_<<v1, v2, v3>>
  PROVE  StatusInv'
<1>1. CASE UNCHANGED <<v1, v2, v3>>
  BY <1>1 DEF StatusInv, StatusTypes, WireTells, Status!Silent
<1> QED
  BY <1>1, StatusPrompt, StatusCall, StatusReminds, StatusMoves, StatusChild, StatusArrives DEF Status!Next

\* What the invariant says of a row that has heard all.
LEMMA StatusShown == StatusInv => Status!OpenDialogShows /\ Status!TurnShows
<1> SUFFICES ASSUME StatusInv, v2 = <<>>, ~ v3.lost, v1.told
             PROVE  v3.status = Due(v1.phase)
  BY DEF Status!OpenDialogShows, Status!TurnShows, Status!Heard, StatusInv, Due
<1>1. Len(v2) = 0
  OBVIOUS
<1> QED
  BY <1>1 DEF StatusInv, WireTells

-----------------------------------------------------------------------------
(* Setup.  Its variables are v1 (world) and v2 (job).                         *)

Entries == SUBSET {"atm", "user"}
FileSet ==
  [kind : {"object", "absent", "torn", "other", "kept"}, hooks : Seq(Entries), line : {"none", "atm", "mine", "mine2"}]
FileSteps ==
  [do : {"install-script", "read", "add-line", "add-hooks", "read-or-empty", "remove-hooks", "remove-line",
         "drop-backup", "remove-script", "remove-package"},
   of : {"claude", "pi", "codex"}]
FileWorlds ==
  [has : SUBSET {"claude", "pi", "codex"}, file : [{"claude", "pi", "codex"} -> FileSet],
   script : [{"claude", "pi", "codex"} -> BOOLEAN], backup : {"none", "atm", "mine", "mine2", "torn"},
   keep : {"none", "mine", "mine2"}]
FileJobs ==
  [run : {"idle", "setup", "uninstall"}, todo : Seq(FileSteps), mem : FileSet, runs : Nat, edits : Nat,
   fails : Nat]
FileTypes == v1 \in FileWorlds /\ v2 \in FileJobs

RunsScript(hooks) == \E i \in 1 .. Len(hooks) : "atm" \in hooks[i]
OnlyOnce(hooks) == \A i, j \in 1 .. Len(hooks) : "atm" \in hooks[i] /\ "atm" \in hooks[j] => i = j

\* What the user's files hold, whoever wrote last: hooks of a script that is there, one
\* an event, and only of a harness that was detected; the user's status line, and no other
\* but ATM's in its place; no status line where the harness has none.
FilesSound ==
  /\ \A h \in {"claude", "codex"} :
       OnlyOnce(v1.file[h].hooks) /\ (RunsScript(v1.file[h].hooks) => v1.script[h])
  /\ RunsScript(v1.file["codex"].hooks) => "codex" \in v1.has
  /\ v1.file["pi"].line = "none" /\ v1.file["codex"].line = "none"
  /\ v1.keep # "none" =>
       /\ v1.keep \in {v1.file["claude"].line, v1.backup}
       /\ v1.file["claude"].line \notin {"none", "atm"} => v1.keep = v1.file["claude"].line

\* The steps of a run, each of which finds what the one before it has left.
StepFits(s) ==
  /\ s.do \in {"add-line", "remove-line", "drop-backup"} => s.of = "claude"
  /\ s.do = "add-hooks" => s.of \in v1.has
  /\ s.do \in {"read-or-empty", "remove-hooks", "remove-script"} => s.of \in {"claude", "codex"}
StepAfter(a, b) ==
  \/ /\ b.of = a.of
     /\ \/ a.do = "install-script" /\ b.do = "read"
        \/ a.do = "read" /\ b.do = IF a.of = "claude" THEN "add-line" ELSE "add-hooks"
        \/ a.do = "add-line" /\ b.do = "add-hooks"
        \/ a.do = "read-or-empty" /\ b.do = "remove-hooks"
        \/ a.do = "remove-hooks" /\ b.do = IF a.of = "claude" THEN "remove-line" ELSE "remove-script"
        \/ a.do = "remove-line" /\ b.do = "drop-backup"
        \/ a.do = "drop-backup" /\ b.do = "remove-script"
  \/ a.do = "add-hooks" /\ b.do = "install-script"
  \/ /\ a.do \in {"remove-script", "remove-package"}
     /\ \/ b.do \in {"remove-package", "read-or-empty"}
        \/ b.do = "remove-script" /\ b.of = "codex" /\ "codex" \notin v1.has
StepsFollow ==
  /\ \A i \in 1 .. Len(v2.todo) : StepFits(v2.todo[i])
  /\ \A i \in 2 .. Len(v2.todo) : StepAfter(v2.todo[i - 1], v2.todo[i])
  /\ v2.run = "idle" => v2.todo = <<>>

\* What is in memory is what the file holds, but for a status line that is saved.
StepReady(s) ==
  /\ s.do \in {"read", "add-line", "add-hooks"} => v1.script[s.of]
  /\ s.do \in {"add-line", "add-hooks", "remove-hooks", "remove-line"} =>
       v2.mem.kind = "object" /\ v2.mem.hooks = v1.file[s.of].hooks
  /\ s.do \in {"add-line", "remove-hooks", "remove-line", "drop-backup"} => v2.mem.line = v1.file[s.of].line
  /\ s.do = "add-hooks" =>
       /\ s.of # "claude" => v2.mem.line = "none"
       /\ s.of = "claude" => v2.mem.line = "atm" /\ v1.keep \in {"none", v1.backup}
  /\ s.do \in {"remove-line", "drop-backup", "remove-script"} => ~ RunsScript(v1.file[s.of].hooks)
  /\ s.do = "drop-backup" /\ (v2.mem.kind # "kept" \/ v2.mem.line # "none") =>
       v1.keep \in {"none", v1.file["claude"].line}

FilesInv == FileTypes /\ FilesSound /\ StepsFollow /\ (v2.todo # <<>> => StepReady(Head(v2.todo)))

\* The entries that remove_hook_command_marker keeps of the first m.
KeptOf(hooks, m, k) ==
  k = [n \in 0 .. m |-> IF n = 0 THEN <<>>
                        ELSE IF hooks[n] \subseteq {"atm"} THEN k[n - 1]
                        ELSE Append(k[n - 1], hooks[n] \ {"atm"})]

\* There is such a function, for any number of entries.
LEMMA KeptIs ==
  ASSUME NEW hooks, NEW L \in Nat
  PROVE  \E k : KeptOf(hooks, L, k)
<1> DEFINE S == {m \in Nat : \E k : KeptOf(hooks, m, k)}
<1>1. 0 \in S
  <2>1. PICK k : k = [n \in 0 .. 0 |-> <<>>]
    OBVIOUS
  <2>2. KeptOf(hooks, 0, k)
    BY <2>1 DEF KeptOf
  <2> QED
    BY <2>2
<1>2. ASSUME NEW m \in Nat, m \in S  PROVE m + 1 \in S
  <2>1. PICK k : KeptOf(hooks, m, k)
    BY <1>2
  <2>2. PICK q : q = [n \in 0 .. m + 1 |-> IF n = m + 1
                                             THEN (IF hooks[n] \subseteq {"atm"} THEN k[m] ELSE Append(k[m], hooks[n] \ {"atm"}))
                                             ELSE k[n]]
    OBVIOUS
  <2>3. \A n \in 0 .. m : q[n] = k[n]
    BY <2>2
  <2>4. ASSUME NEW n \in 0 .. m + 1
        PROVE  q[n] = IF n = 0 THEN <<>>
                      ELSE IF hooks[n] \subseteq {"atm"} THEN q[n - 1]
                      ELSE Append(q[n - 1], hooks[n] \ {"atm"})
    <3>1. CASE n = m + 1
      <4>1. q[n] = IF hooks[n] \subseteq {"atm"} THEN k[m] ELSE Append(k[m], hooks[n] \ {"atm"})
        BY <2>2, <3>1
      <4>2. n # 0 /\ n - 1 = m /\ q[m] = k[m]
        BY <2>3, <3>1
      <4> QED
        BY <4>1, <4>2
    <3>2. CASE n # m + 1
      <4>1. n \in 0 .. m /\ q[n] = k[n] /\ (n # 0 => n - 1 \in 0 .. m /\ q[n - 1] = k[n - 1])
        BY <2>3, <3>2
      <4>2. k[n] = IF n = 0 THEN <<>>
                   ELSE IF hooks[n] \subseteq {"atm"} THEN k[n - 1]
                   ELSE Append(k[n - 1], hooks[n] \ {"atm"})
        BY <2>1, <4>1 DEF KeptOf
      <4> QED
        BY <4>1, <4>2
    <3> QED
      BY <3>1, <3>2
  <2>5. KeptOf(hooks, m + 1, q)
    <3>1. DOMAIN q = 0 .. m + 1 /\ q = [n \in 0 .. m + 1 |-> q[n]]
      BY <2>2
    <3> QED
      BY <2>4, <3>1 DEF KeptOf
  <2> QED
    BY <2>5
<1> HIDE DEF S
<1>3. L \in S
  BY <1>1, <1>2, SetInduction
<1> QED
  BY <1>3 DEF S

\* remove_hook_command_marker leaves no entry that runs the script, and the user's own.
RunsOwn(hooks) == \E i \in 1 .. Len(hooks) : "user" \in hooks[i]
Cleaned(hooks, n, s) ==
  /\ s \in Seq(Entries) /\ \A i \in 1 .. Len(s) : "atm" \notin s[i]
  /\ (\E i \in 1 .. n : "user" \in hooks[i]) => RunsOwn(s)

\* What is left has no script's entry, and the user's own if there was one.
LEMMA RemoveCleans ==
  ASSUME NEW hooks \in Seq(Entries), NEW new, new = Files!RemoveHook(hooks)
  PROVE  new \in Seq(Entries) /\ ~ RunsScript(new) /\ (RunsOwn(hooks) => RunsOwn(new))
<1>1. PICK L \in Nat : L = Len(hooks)
  BY LenProperties
<1> DEFINE kept == CHOOSE k : KeptOf(hooks, L, k)
<1>2. new = kept[L]
  BY <1>1 DEF Files!RemoveHook, KeptOf
<1>3. KeptOf(hooks, L, kept)
  BY KeptIs
<1> HIDE DEF kept
<1>4. \A n \in 0 .. L : kept[n] = IF n = 0 THEN <<>>
                                  ELSE IF hooks[n] \subseteq {"atm"} THEN kept[n - 1]
                                  ELSE Append(kept[n - 1], hooks[n] \ {"atm"})
  BY <1>3 DEF KeptOf
<1> DEFINE S == {n \in Nat : n <= L => Cleaned(hooks, n, kept[n])}
<1>5. 0 \in S
  <2>1. 0 \in 0 .. L
    OBVIOUS
  <2>2. kept[0] = <<>>
    BY <1>4, <2>1
  <2>3. PICK s : s = <<>>
    OBVIOUS
  <2>4. s \in Seq(Entries) /\ Len(s) = 0
    BY <2>3
  <2>5. Cleaned(hooks, 0, s)
    BY <2>4 DEF Cleaned
  <2> QED
    BY <2>2, <2>3, <2>5
<1>6. ASSUME NEW n \in Nat, n \in S  PROVE n + 1 \in S
  <2> SUFFICES ASSUME n + 1 <= L  PROVE Cleaned(hooks, n + 1, kept[n + 1])
    OBVIOUS
  <2>1. /\ n + 1 \in 0 .. L /\ n + 1 # 0 /\ (n + 1) - 1 = n /\ n + 1 \in 1 .. L /\ hooks[n + 1] \in Entries
        /\ \A i \in 1 .. n + 1 : i \in 1 .. n \/ i = n + 1
    BY <1>1, ElementOfSeq
  <2>2. PICK s : s = kept[n]
    OBVIOUS
  <2>3. Cleaned(hooks, n, s)
    BY <1>6, <2>2
  <2>4. CASE hooks[n + 1] \subseteq {"atm"}
    <3>1. kept[n + 1] = s
      BY <1>4, <2>1, <2>2, <2>4
    <3>2. "user" \notin hooks[n + 1]
      BY <2>4
    <3> QED
      BY <2>1, <2>3, <3>1, <3>2 DEF Cleaned
  <2>5. CASE ~ (hooks[n + 1] \subseteq {"atm"})
    <3>1. PICK e : e = hooks[n + 1] \ {"atm"}
      OBVIOUS
    <3>2. kept[n + 1] = Append(s, e)
      BY <1>4, <2>1, <2>2, <2>5, <3>1
    <3>3. e \in Entries /\ "atm" \notin e /\ "user" \in e
      BY <2>1, <2>5, <3>1 DEF Entries
    <3>4. PICK q : q = Append(s, e)
      OBVIOUS
    <3>5. /\ q \in Seq(Entries) /\ Len(s) \in Nat /\ Len(q) = Len(s) + 1 /\ q[Len(s) + 1] = e
          /\ \A i \in 1 .. Len(s) : q[i] = s[i]
      BY <2>3, <3>3, <3>4, AppendProperties, LenProperties DEF Cleaned
    <3>6. \A i \in 1 .. Len(q) : i \in 1 .. Len(s) \/ i = Len(s) + 1
      BY <3>5
    <3>7. Len(s) + 1 \in 1 .. Len(q)
      BY <3>5
    <3> QED
      BY <2>3, <3>2, <3>3, <3>4, <3>5, <3>6, <3>7 DEF Cleaned, RunsOwn
  <2> QED
    BY <2>4, <2>5
<1> HIDE DEF S
<1>7. L \in S
  BY <1>5, <1>6, SetInduction
<1>8. Cleaned(hooks, L, new)
  BY <1>2, <1>7 DEF S
<1> QED
  BY <1>1, <1>8 DEF Cleaned, RunsScript, RunsOwn

\* add_hook_entries adds at most the one entry that is missing.
LEMMA AddAdds ==
  ASSUME NEW hooks \in Seq(Entries), NEW new, new = Files!AddHook(hooks)
  PROVE  new \in Seq(Entries) /\ (OnlyOnce(hooks) => OnlyOnce(new)) /\ (RunsOwn(hooks) => RunsOwn(new))
<1>1. CASE RunsScript(hooks)
  BY <1>1 DEF RunsScript, Files!AddHook, Files!HasMarker
<1>2. CASE ~ RunsScript(hooks)
  <2>1. new = Append(hooks, {"atm"}) /\ {"atm"} \in Entries
    BY <1>2 DEF RunsScript, Files!AddHook, Files!HasMarker, Entries
  <2>2. /\ new \in Seq(Entries) /\ Len(hooks) \in Nat /\ Len(new) = Len(hooks) + 1 /\ new[Len(hooks) + 1] = {"atm"}
        /\ \A i \in 1 .. Len(hooks) : new[i] = hooks[i]
    BY <2>1, AppendProperties, LenProperties
  <2>3. \A i \in 1 .. Len(new) : i \in 1 .. Len(hooks) \/ i = Len(hooks) + 1
    BY <2>2
  <2>4. \A i \in 1 .. Len(hooks) : i \in 1 .. Len(new)
    BY <2>2
  <2>5. OnlyOnce(new)
    BY <1>2, <2>2, <2>3 DEF OnlyOnce, RunsScript
  <2> QED
    BY <2>2, <2>4, <2>5 DEF RunsOwn
<1> QED
  BY <1>1, <1>2

\* The first runs: files of the user's own.
LEMMA FilesInit == Files!Init => FilesInv
<1> SUFFICES ASSUME Files!Init  PROVE FilesInv
  OBVIOUS
<1>1. PICK has \in SUBSET {"claude", "pi", "codex"}, file \in {Files!Absent, Files!Other, Files!Object(<<{"user"}>>, "mine")} :
        v1 = [has |-> has, file |-> [h \in {"claude", "pi", "codex"} |-> IF h = "claude" THEN file ELSE Files!Absent],
              script |-> [h \in {"claude", "pi", "codex"} |-> FALSE], backup |-> "none", keep |-> file.line]
  BY DEF Files!Init, Files!Harnesses
<1>2. v2 = [run |-> "idle", todo |-> <<>>, mem |-> Files!Absent, runs |-> 0, edits |-> 0, fails |-> 0]
  BY DEF Files!Init
<1>3. Files!Absent \in FileSet /\ Files!Absent.line = "none" /\ ~ RunsScript(Files!Absent.hooks)
  BY DEF Files!Absent, FileSet, RunsScript
<1>4. /\ file \in FileSet /\ file.line \in {"none", "mine"}
      /\ ~ RunsScript(file.hooks)
  <2>1. CASE file = Files!Object(<<{"user"}>>, "mine")
    <3>1. PICK hooks : hooks = <<{"user"}>>
      OBVIOUS
    <3>2. hooks \in Seq(Entries) /\ Len(hooks) = 1 /\ hooks[1] = {"user"}
      BY <3>1 DEF Entries
    <3>3. ~ RunsScript(hooks)
      BY <3>2 DEF RunsScript
    <3>4. file = [kind |-> "object", hooks |-> hooks, line |-> "mine"]
      BY <2>1, <3>1 DEF Files!Object
    <3> QED
      BY <3>2, <3>3, <3>4 DEF FileSet
  <2>2. CASE file = Files!Other
    BY <2>2 DEF Files!Other, FileSet, RunsScript
  <2> QED
    BY <1>1, <1>3, <2>1, <2>2
<1>5. FileTypes
  BY <1>1, <1>2, <1>3, <1>4 DEF FileTypes, FileWorlds, FileJobs
<1>6. FilesSound
  BY <1>1, <1>3, <1>4 DEF FilesSound, OnlyOnce, RunsScript
<1>7. v2.todo = <<>> /\ Len(v2.todo) = 0
  BY <1>2
<1>8. StepsFollow
  BY <1>7 DEF StepsFollow
<1> QED
  BY <1>5, <1>6, <1>7, <1>8 DEF FilesInv

\* A step is done: the next one finds what it needs.
LEMMA FilesStep ==
  ASSUME FilesInv, v2.todo # <<>>, NEW s, s = Head(v2.todo), NEW mem \in FileSet, Files!Done(mem),
         v1' \in FileWorlds, v1'.has = v1.has, FilesSound',
         \A b \in FileSteps : StepAfter(s, b) /\ StepFits(b) /\ v2'.mem = mem => StepReady(b)'
  PROVE  FilesInv'
<1>1. FileTypes /\ StepsFollow /\ v2 \in FileJobs
  BY DEF FilesInv, FileTypes
<1>2. v2.todo \in Seq(FileSteps)
  BY <1>1 DEF FileJobs
<1>3. PICK todo : todo = v2.todo
  OBVIOUS
<1>4. PICK rest : rest = Tail(todo)
  OBVIOUS
<1>5. PICK n \in Nat : n = Len(todo)
  BY <1>2, <1>3, LenProperties
<1>6. /\ n > 0 /\ s = todo[1] /\ rest \in Seq(FileSteps) /\ Len(rest) = n - 1
      /\ \A i \in 1 .. n - 1 : i + 1 \in 1 .. n /\ rest[i] = todo[i + 1]
  <2>1. /\ n > 0 /\ s = todo[1] /\ rest \in Seq(FileSteps) /\ Len(rest) = n - 1
        /\ \A i \in 1 .. Len(rest) : i + 1 \in 1 .. n /\ rest[i] = todo[i + 1]
    BY <1>2, <1>3, <1>4, <1>5, HeadTail
  <2> QED
    BY <2>1
<1>7. v2' = [v2 EXCEPT !.todo = rest, !.mem = mem]
  BY <1>3, <1>4 DEF Files!Done
<1>8. v2' \in FileJobs /\ v2'.todo = rest /\ v2'.mem = mem /\ v2'.run = v2.run
  BY <1>1, <1>6, <1>7 DEF FileJobs
<1>9. /\ \A a : StepFits(a)' <=> StepFits(a)
      /\ \A a, b : StepAfter(a, b)' <=> StepAfter(a, b)
  BY DEF StepFits, StepAfter
<1>10. /\ \A i \in 1 .. n : StepFits(todo[i])
       /\ \A i \in 2 .. n : StepAfter(todo[i - 1], todo[i])
       /\ v2.run # "idle"
  BY <1>1, <1>3, <1>5 DEF StepsFollow
<1>11. StepsFollow'
  <2>1. \A i \in 1 .. n - 1 : StepFits(rest[i])'
    BY <1>6, <1>9, <1>10
  <2>2. ASSUME NEW i \in 2 .. n - 1  PROVE StepAfter(rest[i - 1], rest[i])'
    <3>1. i - 1 \in 1 .. n - 1 /\ (i - 1) + 1 = i /\ i \in 1 .. n - 1 /\ i + 1 \in 2 .. n /\ (i + 1) - 1 = i
      OBVIOUS
    <3>2. rest[i - 1] = todo[i] /\ rest[i] = todo[i + 1] /\ StepAfter(todo[i], todo[i + 1])
      BY <1>6, <1>10, <3>1
    <3> QED
      BY <1>9, <3>2
  <2> QED
    BY <1>6, <1>8, <1>10, <2>1, <2>2 DEF StepsFollow, StepFits, StepAfter
<1>12. ASSUME v2'.todo # <<>>  PROVE StepReady(Head(rest))'
  <2>1. n - 1 > 0
    BY <1>6, <1>8, <1>12, EmptySeq
  <2>2. 2 \in 2 .. n /\ 2 - 1 = 1 /\ 1 \in 1 .. n - 1 /\ 1 + 1 = 2 /\ 2 \in 1 .. n
    BY <2>1
  <2>3. PICK b \in FileSteps : b = Head(rest) /\ b = todo[2]
    BY <1>6, <1>8, <1>12, <2>2, HeadTail
  <2>4. StepAfter(s, b) /\ StepFits(b)
    BY <1>6, <1>10, <2>2, <2>3
  <2>5. StepReady(b)'
    BY <1>8, <2>4
  <2> QED
    BY <2>3, <2>5 DEF StepReady
<1>13. v2'.todo # <<>> => (StepReady(Head(v2.todo)))'
  BY <1>8, <1>12 DEF StepReady
<1> QED
  BY <1>8, <1>11, <1>13 DEF FilesInv, FileTypes

\* The run is over, or ends with an error.
LEMMA FilesStop ==
  ASSUME FilesInv, v2' = Files!Abort \/ v2' = [Files!Abort EXCEPT !.fails = @ + 1],
         v1' \in FileWorlds, FilesSound'
  PROVE  FilesInv'
<1>1. v2 \in FileJobs /\ v2.fails \in Nat /\ v2.fails + 1 \in Nat
  BY DEF FilesInv, FileTypes, FileJobs
<1>2. Files!Absent \in FileSet
  BY DEF Files!Absent, FileSet
<1>3. v2' \in FileJobs /\ v2'.todo = <<>>
  <2>1. PICK mem \in FileSet : mem = Files!Absent
    BY <1>2
  <2>2. PICK j : j = [v2 EXCEPT !.run = "idle", !.todo = <<>>, !.mem = mem]
    OBVIOUS
  <2>3. j \in FileJobs /\ j.todo = <<>> /\ j.fails = v2.fails
    <3>1. PICK todo \in Seq(FileSteps) : todo = <<>>
      <4>1. PICK todo : todo = <<>>
        OBVIOUS
      <4>2. todo \in Seq(FileSteps)
        BY <4>1
      <4> QED
        BY <4>1, <4>2
    <3>2. PICK run \in {"idle", "setup", "uninstall"} : run = "idle"
      OBVIOUS
    <3>3. j = [v2 EXCEPT !.run = run, !.todo = todo, !.mem = mem]
      BY <2>2, <3>1, <3>2
    <3> QED
      BY <1>1, <2>1, <3>1, <3>3 DEF FileJobs
  <2>4. v2' = j \/ v2' = [j EXCEPT !.fails = v2.fails + 1]
    BY <2>1, <2>2, <2>3 DEF Files!Abort
  <2>5. [j EXCEPT !.fails = v2.fails + 1] \in FileJobs /\ [j EXCEPT !.fails = v2.fails + 1].todo = <<>>
    BY <1>1, <2>3 DEF FileJobs
  <2> QED
    BY <2>3, <2>4, <2>5
<1>4. Len(v2'.todo) = 0
  BY <1>3
<1> QED
  BY <1>3, <1>4 DEF FilesInv, FileTypes, StepsFollow

\* What may be written over a file.
FitsIn(h, mem) ==
  /\ h \in {"claude", "codex"} => OnlyOnce(mem.hooks) /\ (RunsScript(mem.hooks) => v1.script[h])
  /\ h = "codex" /\ RunsScript(mem.hooks) => "codex" \in v1.has
  /\ h # "claude" => mem.line = "none"
  /\ h = "claude" /\ v1.keep # "none" =>
       v1.keep \in {mem.line, v1.backup} /\ (mem.line \notin {"none", "atm"} => v1.keep = mem.line)
FilePut(h, mem, keep) ==
  /\ v1' \in FileWorlds /\ FilesSound'
  /\ v1'.has = v1.has /\ v1'.script = v1.script /\ v1'.backup = v1.backup /\ v1'.keep = keep
  /\ v1'.file[h] = mem /\ \A g \in {"claude", "pi", "codex"} : g # h => v1'.file[g] = v1.file[g]

\* With what fits in it, the file is written and the files are as sound as before.
LEMMA FilePuts ==
  ASSUME FileTypes, FilesSound, NEW h \in {"claude", "pi", "codex"}, NEW mem \in FileSet, FitsIn(h, mem),
         v1' = [v1 EXCEPT !.file[h] = mem]
  PROVE  FilePut(h, mem, v1.keep)
<1>1. /\ v1' \in FileWorlds
      /\ v1'.has = v1.has /\ v1'.script = v1.script /\ v1'.backup = v1.backup /\ v1'.keep = v1.keep
      /\ v1'.file[h] = mem /\ \A g \in {"claude", "pi", "codex"} : g # h => v1'.file[g] = v1.file[g]
  BY DEF FileTypes, FileWorlds
<1>2. \A g \in {"claude", "codex"} :
        OnlyOnce(v1'.file[g].hooks) /\ (RunsScript(v1'.file[g].hooks) => v1'.script[g])
  BY <1>1 DEF FilesSound, FitsIn
<1>3. /\ RunsScript(v1'.file["codex"].hooks) => "codex" \in v1'.has
      /\ v1'.file["pi"].line = "none" /\ v1'.file["codex"].line = "none"
  BY <1>1 DEF FilesSound, FitsIn
<1>4. v1'.keep # "none" =>
        /\ v1'.keep \in {v1'.file["claude"].line, v1'.backup}
        /\ v1'.file["claude"].line \notin {"none", "atm"} => v1'.keep = v1'.file["claude"].line
  BY <1>1 DEF FilesSound, FitsIn
<1>5. FilesSound'
  BY <1>2, <1>3, <1>4 DEF FilesSound, OnlyOnce, RunsScript
<1> QED
  BY <1>1, <1>5 DEF FilePut

\* A file that cannot be read has nothing that runs, nor the user's line.
LEMMA FileTears ==
  ASSUME FileTypes, FilesSound, NEW h \in {"claude", "pi", "codex"}, NEW mem \in {Files!Absent, Files!Torn},
         NEW keep \in {"none", v1.keep}, v1.keep = v1.file[h].line => keep = "none",
         v1' = [v1 EXCEPT !.file[h] = mem, !.keep = keep]
  PROVE  FilePut(h, mem, keep)
<1>1. mem \in FileSet /\ mem.line = "none" /\ mem.hooks = <<>> /\ Len(mem.hooks) = 0
  <2>1. PICK hooks \in Seq(Entries) : hooks = <<>>
    <3>1. PICK hooks : hooks = <<>>
      OBVIOUS
    <3>2. hooks \in Seq(Entries)
      BY <3>1
    <3> QED
      BY <3>1, <3>2
  <2>2. CASE mem = Files!Absent
    BY <2>1, <2>2 DEF FileSet, Files!Absent
  <2>3. CASE mem = Files!Torn
    BY <2>1, <2>3 DEF FileSet, Files!Torn
  <2> QED
    BY <2>2, <2>3
<1>2. OnlyOnce(mem.hooks) /\ ~ RunsScript(mem.hooks)
  BY <1>1 DEF OnlyOnce, RunsScript
<1>3. keep \in {"none", "mine", "mine2"}
  BY DEF FileTypes, FileWorlds
<1>4. /\ v1' \in FileWorlds
      /\ v1'.has = v1.has /\ v1'.script = v1.script /\ v1'.backup = v1.backup /\ v1'.keep = keep
      /\ v1'.file[h] = mem /\ \A g \in {"claude", "pi", "codex"} : g # h => v1'.file[g] = v1.file[g]
  BY <1>1, <1>3 DEF FileTypes, FileWorlds
<1>5. \A g \in {"claude", "codex"} :
        OnlyOnce(v1'.file[g].hooks) /\ (RunsScript(v1'.file[g].hooks) => v1'.script[g])
  BY <1>2, <1>4 DEF FilesSound
<1>6. /\ RunsScript(v1'.file["codex"].hooks) => "codex" \in v1'.has
      /\ v1'.file["pi"].line = "none" /\ v1'.file["codex"].line = "none"
  BY <1>1, <1>2, <1>4 DEF FilesSound
<1>7. v1'.keep # "none" =>
        /\ v1'.keep \in {v1'.file["claude"].line, v1'.backup}
        /\ v1'.file["claude"].line \notin {"none", "atm"} => v1'.keep = v1'.file["claude"].line
  BY <1>1, <1>4 DEF FilesSound
<1>8. FilesSound'
  BY <1>5, <1>6, <1>7 DEF FilesSound, OnlyOnce, RunsScript
<1> QED
  BY <1>4, <1>8 DEF FilePut

\* A write in place: it is done, or it fails and the run ends.
LEMMA FileSaves ==
  ASSUME FilesInv, v2.todo # <<>>, NEW h \in {"claude", "pi", "codex"}, h = Head(v2.todo).of,
         NEW mem \in FileSet, Files!Save(mem), FitsIn(h, mem)
  PROVE  FilesInv' \/ (Files!Done(mem) /\ FilePut(h, mem, v1.keep))
<1>1. FileTypes /\ FilesSound /\ v1 \in FileWorlds
  BY DEF FilesInv, FileTypes
<1>2. CASE v1' = [v1 EXCEPT !.file[h] = mem] /\ Files!Done(mem)
  BY <1>1, <1>2, FilePuts
<1>3. CASE v2' = [Files!Abort EXCEPT !.fails = @ + 1] /\ v1' = v1
  <2>1. v1' \in FileWorlds /\ FilesSound'
    BY <1>1, <1>3 DEF FilesSound
  <2> QED
    BY <1>3, <2>1, FilesStop
<1>4. CASE /\ v2' = [Files!Abort EXCEPT !.fails = @ + 1]
           /\ v1' = [v1 EXCEPT !.file[h] = Files!Torn, !.keep = IF v1.file[h].line = @ THEN "none" ELSE @]
  <2>1. PICK keep \in {"none", v1.keep} : keep = IF v1.file[h].line = v1.keep THEN "none" ELSE v1.keep
    OBVIOUS
  <2>2. v1' = [v1 EXCEPT !.file[h] = Files!Torn, !.keep = keep]
    BY <1>1, <1>4, <2>1 DEF FileWorlds
  <2>3. FilePut(h, Files!Torn, keep)
    BY <1>1, <2>1, <2>2, FileTears
  <2> QED
    BY <1>4, <2>3, FilesStop DEF FilePut
<1> QED
  BY <1>2, <1>3, <1>4 DEF Files!Save, Files!Fail, Files!H

\* A list of steps, each of which may follow the one before it.
Chain(s) ==
  /\ s \in Seq(FileSteps)
  /\ \A i \in 1 .. Len(s) : StepFits(s[i])
  /\ \A i \in 2 .. Len(s) : StepAfter(s[i - 1], s[i])
ChainFromTo(s, a, b) == Chain(s) /\ Len(s) \in Nat /\ Len(s) > 0 /\ s[1] = a /\ s[Len(s)] = b

\* Two lists are one, when the second may follow the first.
LEMMA ChainJoin ==
  ASSUME NEW s, NEW t, NEW a, NEW b, NEW c, NEW d, ChainFromTo(s, a, b), ChainFromTo(t, c, d), StepAfter(b, c)
  PROVE  ChainFromTo(s \o t, a, d)
<1>1. PICK q : q = s \o t
  OBVIOUS
<1>2. s \in Seq(FileSteps) /\ t \in Seq(FileSteps)
  BY DEF ChainFromTo, Chain
<1>3. PICK m \in Nat, n \in Nat : m = Len(s) /\ n = Len(t) /\ m > 0 /\ n > 0
  BY DEF ChainFromTo
<1>4. /\ q \in Seq(FileSteps) /\ Len(q) = m + n
      /\ \A i \in 1 .. m : q[i] = s[i]
      /\ \A i \in 1 .. n : q[m + i] = t[i]
  BY ONLY <1>1, <1>2, <1>3, Concat
<1>5. q[1] = a /\ q[m] = b /\ q[m + 1] = c /\ q[m + n] = d
  BY <1>3, <1>4 DEF ChainFromTo
<1>6. ASSUME NEW i \in 1 .. m + n  PROVE StepFits(q[i])
  <2>1. CASE i \in 1 .. m
    BY <1>3, <1>4, <2>1 DEF ChainFromTo, Chain
  <2>2. CASE i \notin 1 .. m
    <3>1. PICK k \in 1 .. n : k = i - m
      <4>1. i - m \in 1 .. n
        BY <1>3, <2>2
      <4> QED
        BY <4>1
    <3>2. i = m + k
      BY <1>3, <3>1
    <3> QED
      BY <1>3, <1>4, <3>2 DEF ChainFromTo, Chain
  <2> QED
    BY <2>1, <2>2
<1>7. ASSUME NEW i \in 2 .. m + n  PROVE StepAfter(q[i - 1], q[i])
  <2>1. CASE i \in 2 .. m
    <3>1. i - 1 \in 1 .. m /\ i \in 1 .. m
      BY <1>3, <2>1
    <3>2. StepAfter(s[i - 1], s[i])
      BY <1>3, <2>1 DEF ChainFromTo, Chain
    <3> QED
      BY <1>4, <3>1, <3>2
  <2>2. CASE i = m + 1
    <3>1. i - 1 = m
      BY <1>3, <2>2
    <3> QED
      BY <1>5, <2>2, <3>1
  <2>3. CASE i > m + 1
    <3>1. PICK k \in 2 .. n : k = i - m
      <4>1. i - m \in 2 .. n
        BY <1>3, <2>3
      <4> QED
        BY <4>1
    <3>2. i = m + k /\ i - 1 = m + (k - 1) /\ k \in 1 .. n /\ k - 1 \in 1 .. n
      BY <1>3, <3>1
    <3>3. StepAfter(t[k - 1], t[k])
      BY <1>3 DEF ChainFromTo, Chain
    <3> QED
      BY <1>4, <3>2, <3>3
  <2> QED
    BY <1>3, <2>1, <2>2, <2>3
<1>8. m + n \in Nat /\ m + n > 0
  BY <1>3
<1> QED
  BY <1>1, <1>4, <1>5, <1>6, <1>7, <1>8 DEF ChainFromTo, Chain

\* The lists of a harness, and of one step.
LEMMA ChainsOfSteps ==
  ASSUME NEW a \in FileSteps, StepFits(a)
  PROVE  /\ ChainFromTo(<<a>>, a, a)
         /\ \A b \in FileSteps : StepFits(b) /\ StepAfter(a, b) => ChainFromTo(<<a, b>>, a, b)
<1>1. PICK s : s = <<a>>
  OBVIOUS
<1>2. s \in Seq(FileSteps) /\ Len(s) = 1 /\ s[1] = a
  BY <1>1
<1>3. ChainFromTo(s, a, a)
  BY <1>2 DEF ChainFromTo, Chain
<1>4. ASSUME NEW b \in FileSteps, StepFits(b), StepAfter(a, b)  PROVE ChainFromTo(<<a, b>>, a, b)
  <2>1. PICK t : t = <<a, b>>
    OBVIOUS
  <2>2. t \in Seq(FileSteps) /\ Len(t) = 2 /\ t[1] = a /\ t[2] = b
    BY <2>1
  <2>3. \A i \in 1 .. Len(t) : StepFits(t[i])
    BY <1>4, <2>2
  <2>4. \A i \in 2 .. Len(t) : StepAfter(t[i - 1], t[i])
    BY <1>4, <2>2
  <2> QED
    BY <2>1, <2>2, <2>3, <2>4 DEF ChainFromTo, Chain
<1> QED
  BY <1>1, <1>3, <1>4

\* A run starts with its list, whose first step needs nothing.
LEMMA FilesStart ==
  ASSUME FilesInv, NEW run \in {"setup", "uninstall"}, NEW steps, Chain(steps),
         steps # <<>> => steps[1].do \in {"install-script", "read-or-empty"},
         Files!Start(run, steps)
  PROVE  FilesInv'
<1>1. v1' = v1 /\ v2 \in FileJobs /\ v2.runs \in Nat /\ v2.runs + 1 \in Nat /\ v1 \in FileWorlds
  BY DEF Files!Start, FilesInv, FileTypes, FileJobs
<1>2. v2' = [v2 EXCEPT !.run = run, !.todo = steps, !.runs = v2.runs + 1]
  BY <1>1 DEF Files!Start, FileJobs
<1>3. v2' \in FileJobs /\ v2'.todo = steps /\ v2'.run = run
  BY <1>1, <1>2 DEF FileJobs, Chain
<1>4. FilesSound'
  BY <1>1 DEF FilesInv, FilesSound
<1>5. /\ \A a : StepFits(a)' <=> StepFits(a)
      /\ \A a, b : StepAfter(a, b)' <=> StepAfter(a, b)
  BY <1>1 DEF StepFits, StepAfter
<1>6. StepsFollow'
  BY <1>3, <1>5 DEF StepsFollow, Chain, StepFits, StepAfter
<1>7. ASSUME steps # <<>>  PROVE StepReady(Head(steps))'
  <2>1. PICK s : s = Head(steps) /\ s.do \in {"install-script", "read-or-empty"}
    BY <1>7, HeadTail DEF Chain
  <2>2. StepReady(s)'
    BY <2>1 DEF StepReady
  <2> QED
    BY <2>1, <2>2 DEF StepReady
<1>8. v2'.todo # <<>> => StepReady(Head(v2.todo))'
  BY <1>3, <1>7 DEF StepReady
<1> QED
  BY <1>1, <1>3, <1>4, <1>6, <1>8 DEF FilesInv, FileTypes

\* `atm setup`: each harness that is there is set up in turn.
LEMMA FilesSetup == FilesInv /\ Files!StartSetup => FilesInv'
<1> SUFFICES ASSUME FilesInv, Files!StartSetup  PROVE FilesInv'
  OBVIOUS
<1> DEFINE step(name, h) == [do |-> name, of |-> h]
<1>1. \A name \in {"install-script", "read", "add-line", "add-hooks"}, h \in {"claude", "pi", "codex"} :
        step(name, h) \in FileSteps /\ step(name, h).do = name /\ step(name, h).of = h
  BY DEF FileSteps
<1> HIDE DEF step
<1> DEFINE Part(s) == s = <<>> \/ \E g, h \in {"claude", "pi", "codex"} :
                        ChainFromTo(s, step("install-script", g), step("add-hooks", h))
           ofc == <<step("install-script", "claude"), step("read", "claude"),
                    step("add-line", "claude"), step("add-hooks", "claude")>>
           of(h) == <<step("install-script", h), step("read", h), step("add-hooks", h)>>
<1>2. ASSUME "claude" \in v1.has  PROVE Part(ofc)
  <2>1. PICK a \in FileSteps, b \in FileSteps, c \in FileSteps, d \in FileSteps :
          /\ a = step("install-script", "claude") /\ b = step("read", "claude")
          /\ c = step("add-line", "claude") /\ d = step("add-hooks", "claude")
    BY <1>1
  <2>2. /\ a.do = "install-script" /\ b.do = "read" /\ c.do = "add-line" /\ d.do = "add-hooks"
        /\ a.of = "claude" /\ b.of = "claude" /\ c.of = "claude" /\ d.of = "claude"
    BY <1>1, <2>1
  <2>3. StepFits(a) /\ StepFits(b) /\ StepFits(c) /\ StepFits(d)
    BY <1>2, <2>2 DEF StepFits
  <2>4. StepAfter(a, b) /\ StepAfter(b, c) /\ StepAfter(c, d)
    BY <2>2 DEF StepAfter
  <2>5. PICK s : s = <<a, b, c, d>>
    OBVIOUS
  <2>6. s \in Seq(FileSteps) /\ Len(s) = 4 /\ s[1] = a /\ s[2] = b /\ s[3] = c /\ s[4] = d
    BY <2>5
  <2>7. ChainFromTo(s, a, d)
    BY <2>3, <2>4, <2>6 DEF ChainFromTo, Chain
  <2>8. ofc = s
    BY <2>1, <2>5
  <2> QED
    BY <2>1, <2>7, <2>8
<1>3. ASSUME NEW h \in {"pi", "codex"}, h \in v1.has  PROVE Part(of(h))
  <2>1. PICK a \in FileSteps, b \in FileSteps, c \in FileSteps :
          a = step("install-script", h) /\ b = step("read", h) /\ c = step("add-hooks", h)
    BY <1>1
  <2>2. /\ a.do = "install-script" /\ b.do = "read" /\ c.do = "add-hooks"
        /\ a.of = h /\ b.of = h /\ c.of = h
    BY <1>1, <2>1
  <2>3. StepFits(a) /\ StepFits(b) /\ StepFits(c)
    BY <1>3, <2>2 DEF StepFits
  <2>4. StepAfter(a, b) /\ StepAfter(b, c)
    BY <2>2 DEF StepAfter
  <2>5. PICK s : s = <<a, b, c>>
    OBVIOUS
  <2>6. s \in Seq(FileSteps) /\ Len(s) = 3 /\ s[1] = a /\ s[2] = b /\ s[3] = c
    BY <2>5
  <2>7. ChainFromTo(s, a, c)
    BY <2>3, <2>4, <2>6 DEF ChainFromTo, Chain
  <2>8. of(h) = s
    BY <2>1, <2>5
  <2> QED
    BY <2>1, <2>7, <2>8
<1>4. ASSUME NEW s, NEW t, Part(s), Part(t)  PROVE Part(s \o t)
  <2>1. s \in Seq(FileSteps) /\ t \in Seq(FileSteps)
    <3>1. ASSUME NEW q, Part(q)  PROVE q \in Seq(FileSteps)
      <4>1. CASE q = <<>>
        BY <4>1
      <4>2. CASE q # <<>>
        BY <3>1, <4>2 DEF ChainFromTo, Chain
      <4> QED
        BY <4>1, <4>2
    <3> QED
      BY <1>4, <3>1
  <2>2. CASE s = <<>> \/ t = <<>>
    BY <1>4, <2>1, <2>2, ConcatEmptySeq
  <2>3. CASE s # <<>> /\ t # <<>>
    <3>1. PICK a, b, c, d \in {"claude", "pi", "codex"} :
            /\ ChainFromTo(s, step("install-script", a), step("add-hooks", b))
            /\ ChainFromTo(t, step("install-script", c), step("add-hooks", d))
      BY <1>4, <2>3
    <3>2. StepAfter(step("add-hooks", b), step("install-script", c))
      BY <1>1 DEF StepAfter
    <3>3. ChainFromTo(s \o t, step("install-script", a), step("add-hooks", d))
      BY <3>1, <3>2, ChainJoin
    <3> QED
      BY <3>3
  <2> QED
    BY <2>2, <2>3
<1>5. PICK c, p, x : /\ c = IF "claude" \in v1.has THEN ofc ELSE <<>>
                     /\ p = IF "pi" \in v1.has THEN of("pi") ELSE <<>>
                     /\ x = IF "codex" \in v1.has THEN of("codex") ELSE <<>>
  OBVIOUS
<1>6. Part(c) /\ Part(p) /\ Part(x)
  BY <1>2, <1>3, <1>5
<1>7. PICK steps : steps = c \o p \o x
  OBVIOUS
<1>8. Part(steps)
  <2>1. PICK cp : cp = c \o p
    OBVIOUS
  <2>2. Part(cp)
    BY <1>4, <1>6, <2>1
  <2> HIDE DEF Part
  <2> QED
    BY <1>4, <1>6, <1>7, <2>1, <2>2
<1>9. Files!Start("setup", steps)
  <2>1. Files!SetupSteps = steps
    BY <1>5, <1>7 DEF Files!SetupSteps, Files!IfHas, Files!Step, step
  <2> QED
    BY <2>1 DEF Files!StartSetup
<1>10. Chain(steps) /\ (steps # <<>> => steps[1].do = "install-script")
  <2>1. CASE steps = <<>>
    <3>1. steps \in Seq(FileSteps) /\ Len(steps) = 0
      BY <2>1
    <3> QED
      BY <2>1, <3>1 DEF Chain
  <2>2. CASE steps # <<>>
    BY <1>1, <1>8, <2>2 DEF ChainFromTo
  <2> QED
    BY <2>1, <2>2
<1> QED
  BY <1>9, <1>10, FilesStart

\* `atm uninstall`: Claude Code's files are cleaned detected or not, Codex's script too.
LEMMA FilesUninstall == FilesInv /\ Files!StartUninstall => FilesInv'
<1> SUFFICES ASSUME FilesInv, Files!StartUninstall  PROVE FilesInv'
  OBVIOUS
<1> DEFINE step(name, h) == [do |-> name, of |-> h]
<1>1. \A name \in {"read-or-empty", "remove-hooks", "remove-line", "drop-backup", "remove-script", "remove-package"},
         h \in {"claude", "pi", "codex"} :
        step(name, h) \in FileSteps /\ step(name, h).do = name /\ step(name, h).of = h
  BY DEF FileSteps
<1> HIDE DEF step
<1>2. PICK a \in FileSteps, b \in FileSteps, c \in FileSteps, d \in FileSteps, e \in FileSteps,
           f \in FileSteps, g \in FileSteps, h \in FileSteps, i \in FileSteps :
        /\ a = step("read-or-empty", "claude") /\ b = step("remove-hooks", "claude")
        /\ c = step("remove-line", "claude") /\ d = step("drop-backup", "claude")
        /\ e = step("remove-script", "claude") /\ f = step("remove-package", "pi")
        /\ g = step("read-or-empty", "codex") /\ h = step("remove-hooks", "codex")
        /\ i = step("remove-script", "codex")
  BY <1>1
<1>3. /\ a.do = "read-or-empty" /\ b.do = "remove-hooks" /\ c.do = "remove-line" /\ d.do = "drop-backup"
      /\ e.do = "remove-script" /\ f.do = "remove-package" /\ g.do = "read-or-empty" /\ h.do = "remove-hooks"
      /\ i.do = "remove-script"
      /\ a.of = "claude" /\ b.of = "claude" /\ c.of = "claude" /\ d.of = "claude" /\ e.of = "claude"
      /\ f.of = "pi" /\ g.of = "codex" /\ h.of = "codex" /\ i.of = "codex"
  BY <1>1, <1>2
<1>4. /\ StepFits(a) /\ StepFits(b) /\ StepFits(c) /\ StepFits(d) /\ StepFits(e)
      /\ StepFits(f) /\ StepFits(g) /\ StepFits(h) /\ StepFits(i)
  BY <1>3 DEF StepFits
<1>5. /\ StepAfter(a, b) /\ StepAfter(b, c) /\ StepAfter(c, d) /\ StepAfter(d, e)
      /\ StepAfter(e, f) /\ StepAfter(e, g) /\ StepAfter(f, g) /\ StepAfter(g, h) /\ StepAfter(h, i)
      /\ "codex" \notin v1.has => StepAfter(e, i) /\ StepAfter(f, i)
  BY <1>3 DEF StepAfter
<1>6. PICK of1, of2, of3, of4 :
        /\ of1 = <<a, b, c, d, e>> /\ of4 = <<i>>
        /\ of2 = IF "pi" \in v1.has THEN <<f>> ELSE <<>>
        /\ of3 = IF "codex" \in v1.has THEN <<g, h>> ELSE <<>>
  OBVIOUS
<1>7. ChainFromTo(of1, a, e)
  <2>1. /\ of1 \in Seq(FileSteps) /\ Len(of1) = 5
        /\ of1[1] = a /\ of1[2] = b /\ of1[3] = c /\ of1[4] = d /\ of1[5] = e
    BY <1>6
  <2> QED
    BY <1>4, <1>5, <2>1 DEF ChainFromTo, Chain
<1>8. PICK two : two = of1 \o of2
  OBVIOUS
<1>9. ChainFromTo(two, a, e) \/ ChainFromTo(two, a, f)
  <2>1. CASE "pi" \in v1.has
    <3>1. ChainFromTo(of2, f, f)
      BY <1>4, <1>6, <2>1, ChainsOfSteps
    <3> QED
      BY <1>5, <1>7, <1>8, <3>1, ChainJoin
  <2>2. CASE "pi" \notin v1.has
    <3>1. of1 \in Seq(FileSteps)
      BY <1>7 DEF ChainFromTo, Chain
    <3>2. two = of1
      BY <1>6, <1>8, <2>2, <3>1, ConcatEmptySeq
    <3> QED
      BY <1>7, <3>2
  <2> QED
    BY <2>1, <2>2
<1>10. PICK three : three = two \o of3
  OBVIOUS
<1>11. PICK z : ChainFromTo(three, a, z) /\ StepAfter(z, i)
  <2>1. CASE "codex" \in v1.has
    <3>1. ChainFromTo(of3, g, h)
      BY <1>4, <1>5, <1>6, <2>1, ChainsOfSteps
    <3>2. ChainFromTo(three, a, h)
      BY <1>5, <1>9, <1>10, <3>1, ChainJoin
    <3> QED
      BY <1>5, <3>2
  <2>2. CASE "codex" \notin v1.has
    <3>1. two \in Seq(FileSteps)
      BY <1>9 DEF ChainFromTo, Chain
    <3>2. three = two
      BY <1>6, <1>10, <2>2, <3>1, ConcatEmptySeq
    <3> QED
      BY <1>5, <1>9, <2>2, <3>2
  <2> QED
    BY <2>1, <2>2
<1>12. PICK steps : steps = three \o of4
  OBVIOUS
<1>13. ChainFromTo(steps, a, i)
  <2>1. ChainFromTo(of4, i, i)
    BY <1>4, <1>6, ChainsOfSteps
  <2> QED
    BY <1>11, <1>12, <2>1, ChainJoin
<1>14. Files!Start("uninstall", steps)
  <2>1. Files!UninstallSteps = steps
    BY <1>2, <1>6, <1>8, <1>10, <1>12 DEF Files!UninstallSteps, Files!IfHas, Files!Step, step
  <2> QED
    BY <2>1 DEF Files!StartUninstall
<1> QED
  BY <1>3, <1>13, <1>14, FilesStart DEF ChainFromTo

\* The step at hand fits its run and finds what it needs.
LEMMA FileHead ==
  ASSUME FilesInv, v2.todo # <<>>
  PROVE  \E s \in FileSteps : s = Head(v2.todo) /\ s.of = Files!H /\ s.of \in {"claude", "pi", "codex"}
                              /\ StepFits(s) /\ StepReady(s)
<1>1. v2.todo \in Seq(FileSteps)
  BY DEF FilesInv, FileTypes, FileJobs
<1>2. PICK s \in FileSteps : s = Head(v2.todo) /\ s = v2.todo[1] /\ 1 \in 1 .. Len(v2.todo)
  BY <1>1, HeadTail
<1>3. StepFits(s) /\ StepReady(s)
  BY <1>2 DEF FilesInv, StepsFollow
<1>4. s.of = Files!H /\ s.of \in {"claude", "pi", "codex"}
  BY <1>2 DEF Files!H, FileSteps
<1> QED
  BY <1>2, <1>3, <1>4

\* A step that changes no file leaves them sound.
LEMMA FilesSame ==
  ASSUME FilesInv, v1' = v1
  PROVE  v1' \in FileWorlds /\ v1'.has = v1.has /\ FilesSound'
BY DEF FilesInv, FileTypes, FilesSound

\* Nothing is in memory.
LEMMA AbsentFile == \E mem \in FileSet : mem = Files!Absent
<1>1. Files!Absent \in FileSet
  BY DEF Files!Absent, FileSet
<1> QED
  BY <1>1

\* A step that fails ends the run.
LEMMA FilesFail ==
  ASSUME FilesInv, Files!Fail, v1' \in FileWorlds, FilesSound'
  PROVE  FilesInv'
BY FilesStop DEF Files!Fail

\* install_script writes the harness's script.
LEMMA FilesInstall == FilesInv /\ Files!InstallScript => FilesInv'
<1> SUFFICES ASSUME FilesInv, Files!InstallScript  PROVE FilesInv'
  OBVIOUS
<1>1. v2.todo # <<>> /\ Head(v2.todo).do = "install-script"
  BY DEF Files!InstallScript, Files!At
<1>2. PICK s \in FileSteps : s = Head(v2.todo) /\ s.of = Files!H /\ s.of \in {"claude", "pi", "codex"}
                             /\ StepFits(s) /\ StepReady(s)
  BY <1>1, FileHead
<1>3. CASE v1' = [v1 EXCEPT !.script[s.of] = TRUE] /\ Files!Done(Files!Absent)
  <2>1. PICK mem \in FileSet : mem = Files!Absent
    BY AbsentFile
  <2>2. /\ v1' \in FileWorlds /\ v1'.has = v1.has /\ v1'.file = v1.file /\ v1'.backup = v1.backup
        /\ v1'.keep = v1.keep /\ v1'.script[s.of]
        /\ \A h \in {"claude", "pi", "codex"} : v1.script[h] => v1'.script[h]
    BY <1>2, <1>3 DEF FilesInv, FileTypes, FileWorlds
  <2>3. FilesSound'
    BY <2>2 DEF FilesInv, FilesSound
  <2>4. ASSUME NEW b \in FileSteps, StepAfter(s, b)  PROVE StepReady(b)'
    BY <1>1, <1>2, <2>2, <2>4 DEF StepAfter, StepReady
  <2> QED
    BY <1>1, <1>2, <1>3, <2>1, <2>2, <2>3, <2>4, FilesStep
<1>4. CASE Files!Fail /\ v1' = v1
  BY <1>4, FilesSame, FilesFail
<1> QED
  BY <1>2, <1>3, <1>4 DEF Files!InstallScript

\* A file that is read is in memory as it is.
LEMMA FilesRead == FilesInv /\ (Files!Read \/ Files!ReadOrEmpty) => FilesInv'
<1> SUFFICES ASSUME FilesInv, Files!Read \/ Files!ReadOrEmpty  PROVE FilesInv'
  OBVIOUS
<1>1. v2.todo # <<>> /\ Head(v2.todo).do \in {"read", "read-or-empty"} /\ v1' = v1
  BY DEF Files!Read, Files!ReadOrEmpty, Files!At
<1>2. PICK s \in FileSteps : s = Head(v2.todo) /\ s.of = Files!H /\ s.of \in {"claude", "pi", "codex"}
                             /\ StepFits(s) /\ StepReady(s)
  BY <1>1, FileHead
<1>3. v1' \in FileWorlds /\ v1'.has = v1.has /\ FilesSound'
  BY <1>1, FilesSame
<1>4. CASE v2' = Files!Abort
  BY <1>3, <1>4, FilesStop, SMTT(30)
<1>5. CASE Files!Done(Files!Object(v1.file[s.of].hooks, v1.file[s.of].line))
  <2>1. PICK mem : mem = Files!Object(v1.file[s.of].hooks, v1.file[s.of].line)
    OBVIOUS
  <2>2. v1.file[s.of] \in FileSet
    BY <1>2 DEF FilesInv, FileTypes, FileWorlds
  <2>3. mem \in FileSet /\ mem.kind = "object" /\ mem.hooks = v1.file[s.of].hooks /\ mem.line = v1.file[s.of].line
    BY <2>1, <2>2 DEF Files!Object, FileSet
  <2>4. s.of # "claude" => mem.line = "none"
    BY <1>2, <2>3 DEF FilesInv, FilesSound
  <2>5. ASSUME NEW b \in FileSteps, StepAfter(s, b), v2'.mem = mem  PROVE StepReady(b)'
    <3>1. b.of = s.of
      BY <1>1, <1>2, <2>5 DEF StepAfter
    <3>2. CASE s.do = "read"
      <4>1. v1.script[s.of] /\ b.do = IF s.of = "claude" THEN "add-line" ELSE "add-hooks"
        BY <1>2, <2>5, <3>2 DEF StepAfter, StepReady
      <4> QED
        BY <1>1, <2>3, <2>4, <2>5, <3>1, <4>1 DEF StepReady
    <3>3. CASE s.do = "read-or-empty"
      <4>1. b.do = "remove-hooks"
        BY <2>5, <3>3 DEF StepAfter
      <4> QED
        BY <1>1, <2>3, <2>5, <3>1, <4>1 DEF StepReady
    <3> QED
      BY <1>1, <1>2, <3>2, <3>3
  <2> QED
    BY <1>1, <1>2, <1>3, <1>5, <2>1, <2>3, <2>5, FilesStep
<1> QED
  BY <1>2, <1>4, <1>5 DEF Files!Read, Files!ReadOrEmpty

\* A line of the user's own is saved, or the backup is cut short.
LineSaved ==
  \/ v1' = v1
  \/ /\ v1.file["claude"].line \notin {"none", "atm"}
     /\ \E backup \in {"mine", "mine2", "torn"} : v1' = [v1 EXCEPT !.backup = backup]

\* install_status_line saves the user's own line before ATM's takes its place.
LEMMA FilesAddLine == FilesInv /\ Files!AddLine => FilesInv'
<1> SUFFICES ASSUME FilesInv, Files!AddLine  PROVE FilesInv'
  OBVIOUS
<1>1. v2.todo # <<>> /\ Head(v2.todo).do = "add-line"
  BY DEF Files!AddLine, Files!At
<1>2. PICK s \in FileSteps : s = Head(v2.todo) /\ s.of = Files!H /\ s.of \in {"claude", "pi", "codex"}
                             /\ StepFits(s) /\ StepReady(s)
  BY <1>1, FileHead
<1>3. /\ s.of = "claude" /\ v1.script["claude"] /\ v2.mem.kind = "object"
      /\ v2.mem.hooks = v1.file["claude"].hooks /\ v2.mem.line = v1.file["claude"].line
  BY <1>1, <1>2 DEF StepFits, StepReady
<1>4. v1 \in FileWorlds /\ v2.mem \in FileSet /\ FilesSound
  BY DEF FilesInv, FileTypes, FileJobs
<1>5. PICK mem : mem = [v2.mem EXCEPT !.line = "atm"]
  OBVIOUS
<1>6. mem \in FileSet /\ mem.kind = "object" /\ mem.hooks = v1.file["claude"].hooks /\ mem.line = "atm"
  BY <1>3, <1>4, <1>5 DEF FileSet
<1>7. ASSUME LineSaved
      PROVE  v1' \in FileWorlds /\ v1'.has = v1.has /\ v1'.file = v1.file /\ v1'.script = v1.script
             /\ v1'.keep = v1.keep /\ FilesSound'
  <2>1. v1' \in FileWorlds /\ v1'.has = v1.has /\ v1'.file = v1.file /\ v1'.script = v1.script /\ v1'.keep = v1.keep
    BY <1>4, <1>7 DEF FileWorlds, LineSaved
  <2>2. v1'.backup = v1.backup \/ v1.file["claude"].line \notin {"none", "atm"}
    BY <1>7 DEF LineSaved
  <2> QED
    BY <1>4, <2>1, <2>2 DEF FilesSound
<1>8. ASSUME Files!Done(mem), LineSaved, v1.keep \in {"none", v1'.backup}  PROVE FilesInv'
  <2>1. ASSUME NEW b \in FileSteps, StepAfter(s, b), v2'.mem = mem  PROVE StepReady(b)'
    <3>1. b.of = "claude" /\ b.do = "add-hooks"
      BY <1>1, <1>2, <1>3, <2>1 DEF StepAfter
    <3> QED
      BY <1>3, <1>6, <1>7, <1>8, <2>1, <3>1 DEF StepReady
  <2> QED
    BY <1>1, <1>2, <1>6, <1>7, <1>8, <2>1, FilesStep
<1>9. CASE v2.mem.line \in {"none", "atm"}
  <2>1. Files!Done(mem) /\ v1' = v1
    BY <1>5, <1>9 DEF Files!AddLine
  <2>2. v1.keep \in {"none", v1.backup} /\ v1'.backup = v1.backup
    BY <1>3, <1>4, <1>9, <2>1 DEF FilesSound, FileWorlds
  <2>3. v1.keep \in {"none", v1'.backup}
    BY <2>2
  <2> QED
    BY <1>8, <2>1, <2>3 DEF LineSaved
<1>10. CASE v2.mem.line \notin {"none", "atm"}
  <2>1. v1.file["claude"].line \notin {"none", "atm"} /\ v2.mem.line \in {"mine", "mine2", "torn"}
        /\ v1.keep \in {"none", v2.mem.line}
    BY <1>3, <1>4, <1>10 DEF FilesSound, FileSet
  <2>2. CASE Files!Done(mem) /\ v1' = [v1 EXCEPT !.backup = v2.mem.line]
    <3>1. v1'.backup = v2.mem.line
      BY <1>4, <2>2 DEF FileWorlds
    <3> QED
      BY <1>8, <2>1, <2>2, <3>1 DEF LineSaved
  <2>3. CASE Files!Fail /\ (v1' = v1 \/ v1' = [v1 EXCEPT !.backup = "torn"])
    BY <1>7, <2>1, <2>3, FilesFail DEF LineSaved
  <2> QED
    BY <1>5, <1>10, <2>2, <2>3 DEF Files!AddLine
<1> QED
  BY <1>9, <1>10

\* A step of a run takes no command of the user's own out of a file it does not tear.
OwnKept ==
  \A h \in {"claude", "pi", "codex"} :
    RunsOwn(v1.file[h].hooks) => RunsOwn(v1'.file[h].hooks) \/ v1'.file[h] = Files!Torn

\* A write in place keeps the user's own commands, or tears the file.
LEMMA SaveOwn ==
  ASSUME FilesInv, NEW h \in {"claude", "pi", "codex"}, h = Files!H, NEW mem \in FileSet, Files!Save(mem),
         RunsOwn(v1.file[h].hooks) => RunsOwn(mem.hooks)
  PROVE  OwnKept
<1>1. v1 \in FileWorlds
  BY DEF FilesInv, FileTypes
<1>2. CASE v1' = [v1 EXCEPT !.file[h] = mem]
  <2>1. v1'.file[h] = mem /\ \A g \in {"claude", "pi", "codex"} : g # h => v1'.file[g] = v1.file[g]
    BY <1>1, <1>2 DEF FileWorlds
  <2> QED
    BY <2>1 DEF OwnKept
<1>3. CASE v1' = v1
  BY <1>3 DEF OwnKept
<1>4. CASE v1' = [v1 EXCEPT !.file[h] = Files!Torn, !.keep = IF v1.file[h].line = @ THEN "none" ELSE @]
  <2>1. v1'.file[h] = Files!Torn /\ \A g \in {"claude", "pi", "codex"} : g # h => v1'.file[g] = v1.file[g]
    BY <1>1, <1>4 DEF FileWorlds
  <2> QED
    BY <2>1 DEF OwnKept
<1> QED
  BY <1>2, <1>3, <1>4 DEF Files!Save

\* add_hook_entries, and the write when something is new.
LEMMA FilesAddHooks == FilesInv /\ Files!AddHooks => FilesInv' /\ OwnKept
<1> SUFFICES ASSUME FilesInv, Files!AddHooks  PROVE FilesInv' /\ OwnKept
  OBVIOUS
<1>1. v2.todo # <<>> /\ Head(v2.todo).do = "add-hooks"
  BY DEF Files!AddHooks, Files!At
<1>2. PICK s \in FileSteps : s = Head(v2.todo) /\ s.of = Files!H /\ s.of \in {"claude", "pi", "codex"}
                             /\ StepFits(s) /\ StepReady(s)
  BY <1>1, FileHead
<1>3. /\ s.of \in v1.has /\ v1.script[s.of] /\ v2.mem.hooks = v1.file[s.of].hooks
      /\ s.of # "claude" => v2.mem.line = "none"
      /\ s.of = "claude" => v2.mem.line = "atm" /\ v1.keep \in {"none", v1.backup}
  BY <1>1, <1>2 DEF StepFits, StepReady
<1>4. v1 \in FileWorlds /\ v2.mem \in FileSet /\ v2.mem.hooks \in Seq(Entries) /\ FilesSound
  BY DEF FilesInv, FileTypes, FileJobs, FileSet
<1>5. PICK hooks : hooks = Files!AddHook(v2.mem.hooks)
  OBVIOUS
<1>6. /\ hooks \in Seq(Entries) /\ (OnlyOnce(v2.mem.hooks) => OnlyOnce(hooks))
      /\ RunsOwn(v2.mem.hooks) => RunsOwn(hooks)
  BY <1>4, <1>5, AddAdds
<1>7. PICK new : new = [v2.mem EXCEPT !.hooks = hooks]
  OBVIOUS
<1>8. new \in FileSet /\ new.hooks = hooks /\ new.line = v2.mem.line
  BY <1>4, <1>6, <1>7 DEF FileSet
<1>9. \A b \in FileSteps : StepAfter(s, b) => StepReady(b)'
  BY <1>1, <1>2 DEF StepAfter, StepReady
<1>10. CASE Files!Done(new) /\ v1' = v1
  <2>1. v1' \in FileWorlds /\ v1'.has = v1.has /\ FilesSound'
    BY <1>10, FilesSame
  <2> QED
    BY <1>1, <1>2, <1>8, <1>9, <1>10, <2>1, FilesStep DEF OwnKept
<1>11. CASE Files!Save(new)
  <2>1. FitsIn(s.of, new)
    <3>1. s.of \in {"claude", "codex"} => OnlyOnce(new.hooks) /\ v1.script[s.of]
      BY <1>3, <1>4, <1>6, <1>8 DEF FilesSound
    <3>2. s.of = "claude" /\ v1.keep # "none" =>
            v1.keep \in {new.line, v1.backup} /\ (new.line \notin {"none", "atm"} => v1.keep = new.line)
      BY <1>3, <1>8
    <3> QED
      BY <1>3, <1>8, <3>1, <3>2 DEF FitsIn
  <2>2. FilesInv' \/ (Files!Done(new) /\ FilePut(s.of, new, v1.keep))
    BY <1>1, <1>2, <1>8, <1>11, <2>1, FileSaves
  <2>3. ASSUME Files!Done(new), FilePut(s.of, new, v1.keep)  PROVE FilesInv'
    BY <1>1, <1>2, <1>8, <1>9, <2>3, FilesStep DEF FilePut
  <2>4. OwnKept
    BY <1>2, <1>3, <1>6, <1>8, <1>11, SaveOwn
  <2> QED
    BY <2>2, <2>3, <2>4
<1> QED
  BY <1>5, <1>7, <1>10, <1>11 DEF Files!AddHooks

\* remove_hook_command_marker, and the write when something went.
LEMMA FilesRemoveHooks == FilesInv /\ Files!RemoveHooks => FilesInv' /\ OwnKept
<1> SUFFICES ASSUME FilesInv, Files!RemoveHooks  PROVE FilesInv' /\ OwnKept
  OBVIOUS
<1>1. v2.todo # <<>> /\ Head(v2.todo).do = "remove-hooks"
  BY DEF Files!RemoveHooks, Files!At
<1>2. PICK s \in FileSteps : s = Head(v2.todo) /\ s.of = Files!H /\ s.of \in {"claude", "pi", "codex"}
                             /\ StepFits(s) /\ StepReady(s)
  BY <1>1, FileHead
<1>3. /\ s.of \in {"claude", "codex"} /\ v2.mem.kind = "object" /\ v2.mem.hooks = v1.file[s.of].hooks
      /\ v2.mem.line = v1.file[s.of].line
  BY <1>1, <1>2 DEF StepFits, StepReady
<1>4. v1 \in FileWorlds /\ v2.mem \in FileSet /\ v2.mem.hooks \in Seq(Entries) /\ FilesSound
  BY DEF FilesInv, FileTypes, FileJobs, FileSet
<1>5. PICK hooks : hooks = Files!RemoveHook(v2.mem.hooks)
  OBVIOUS
<1>6. hooks \in Seq(Entries) /\ ~ RunsScript(hooks) /\ (RunsOwn(v2.mem.hooks) => RunsOwn(hooks))
  BY <1>4, <1>5, RemoveCleans
<1>7. PICK new : new = [v2.mem EXCEPT !.hooks = hooks]
  OBVIOUS
<1>8. new \in FileSet /\ new.hooks = hooks /\ new.line = v2.mem.line /\ new.kind = "object"
  BY <1>3, <1>4, <1>6, <1>7 DEF FileSet
<1>9. ASSUME v1'.file[s.of].hooks = hooks, v1'.file[s.of].line = new.line,
             NEW b \in FileSteps, StepAfter(s, b), v2'.mem = new
      PROVE  StepReady(b)'
  <2>1. b.of = s.of /\ b.do \in {"remove-line", "remove-script"}
    BY <1>1, <1>2, <1>9 DEF StepAfter
  <2>2. ~ RunsScript(v1'.file[b.of].hooks)
    BY <1>6, <1>9, <2>1
  <2> QED
    BY <1>8, <1>9, <2>1, <2>2 DEF StepReady, RunsScript
<1>10. CASE new = v2.mem /\ Files!Done(new) /\ v1' = v1
  <2>1. v1' \in FileWorlds /\ v1'.has = v1.has /\ FilesSound'
    BY <1>10, FilesSame
  <2>2. v1'.file[s.of].hooks = hooks /\ v1'.file[s.of].line = new.line
    BY <1>3, <1>8, <1>10
  <2>3. OwnKept
    BY <1>10 DEF OwnKept
  <2> QED
    BY <1>1, <1>2, <1>8, <1>9, <1>10, <2>1, <2>2, <2>3, FilesStep
<1>11. CASE Files!Save(new)
  <2>1. FitsIn(s.of, new)
    BY <1>2, <1>3, <1>4, <1>6, <1>8 DEF FilesSound, FitsIn, OnlyOnce, RunsScript
  <2>2. FilesInv' \/ (Files!Done(new) /\ FilePut(s.of, new, v1.keep))
    BY <1>1, <1>2, <1>8, <1>11, <2>1, FileSaves
  <2>3. ASSUME Files!Done(new), FilePut(s.of, new, v1.keep)  PROVE FilesInv'
    <3>1. v1'.file[s.of].hooks = hooks /\ v1'.file[s.of].line = new.line
      BY <1>8, <2>3 DEF FilePut
    <3> QED
      BY <1>1, <1>2, <1>8, <1>9, <2>3, <3>1, FilesStep DEF FilePut
  <2>4. OwnKept
    BY <1>2, <1>3, <1>6, <1>8, <1>11, SaveOwn
  <2> QED
    BY <2>2, <2>3, <2>4
<1> QED
  BY <1>5, <1>7, <1>10, <1>11 DEF Files!RemoveHooks

\* uninstall_status_line: the saved line comes back in place of ATM's.
LEMMA FilesRemoveLine == FilesInv /\ Files!RemoveLine => FilesInv' /\ OwnKept
<1> SUFFICES ASSUME FilesInv, Files!RemoveLine  PROVE FilesInv' /\ OwnKept
  OBVIOUS
<1>1. v2.todo # <<>> /\ Head(v2.todo).do = "remove-line"
  BY DEF Files!RemoveLine, Files!At
<1>2. PICK s \in FileSteps : s = Head(v2.todo) /\ s.of = Files!H /\ s.of \in {"claude", "pi", "codex"}
                             /\ StepFits(s) /\ StepReady(s)
  BY <1>1, FileHead
<1>3. /\ s.of = "claude" /\ v2.mem.kind = "object" /\ v2.mem.hooks = v1.file["claude"].hooks
      /\ v2.mem.line = v1.file["claude"].line /\ ~ RunsScript(v1.file["claude"].hooks)
  BY <1>1, <1>2 DEF StepFits, StepReady
<1>4. v1 \in FileWorlds /\ v2.mem \in FileSet /\ FilesSound
  BY DEF FilesInv, FileTypes, FileJobs
<1>5. CASE v2.mem.line = "atm"
  <2>1. PICK saved \in {"none", "atm", "mine", "mine2"} : saved = IF v1.backup = "torn" THEN "none" ELSE v1.backup
    BY <1>4 DEF FileWorlds
  <2>2. v1.keep \in {"none", saved}
    BY <1>3, <1>4, <1>5, <2>1 DEF FilesSound, FileWorlds
  <2>3. PICK new : new = [v2.mem EXCEPT !.line = saved]
    OBVIOUS
  <2>4. new \in FileSet /\ new.hooks = v1.file["claude"].hooks /\ new.line = saved
    BY <1>3, <1>4, <2>1, <2>3 DEF FileSet
  <2>5. Files!Save(new)
    BY <1>5, <2>1, <2>3 DEF Files!RemoveLine
  <2>6. FitsIn(s.of, new)
    BY <1>3, <1>4, <2>2, <2>4 DEF FilesSound, FitsIn
  <2>7. FilesInv' \/ (Files!Done(new) /\ FilePut(s.of, new, v1.keep))
    BY <1>1, <1>2, <2>4, <2>5, <2>6, FileSaves
  <2>8. ASSUME Files!Done(new), FilePut(s.of, new, v1.keep)  PROVE FilesInv'
    <3>1. /\ v1'.file["claude"] = new /\ v1'.keep = v1.keep
          /\ v1' \in FileWorlds /\ FilesSound' /\ v1'.has = v1.has
      BY <1>3, <2>8 DEF FilePut
    <3>2. ASSUME NEW b \in FileSteps, StepAfter(s, b), v2'.mem = new  PROVE StepReady(b)'
      <4>1. b.of = "claude" /\ b.do = "drop-backup"
        BY <1>1, <1>2, <1>3, <3>2 DEF StepAfter
      <4>2. ~ RunsScript(v1'.file["claude"].hooks)
        BY <1>3, <2>4, <3>1
      <4> QED
        BY <2>2, <2>4, <3>1, <3>2, <4>1, <4>2 DEF StepReady, RunsScript
    <3> QED
      BY <1>1, <1>2, <2>4, <2>8, <3>1, <3>2, FilesStep
  <2>9. OwnKept
    BY <1>2, <1>3, <2>4, <2>5, SaveOwn
  <2> QED
    BY <2>7, <2>8, <2>9
<1>6. CASE v2.mem.line # "atm"
  <2>1. PICK new : new = [v2.mem EXCEPT !.kind = "kept"]
    OBVIOUS
  <2>2. new \in FileSet /\ new.line = v2.mem.line /\ new.kind = "kept"
    BY <1>4, <2>1 DEF FileSet
  <2>3. Files!Done(new) /\ v1' = v1
    BY <1>6, <2>1 DEF Files!RemoveLine
  <2>4. v1' \in FileWorlds /\ v1'.has = v1.has /\ FilesSound'
    BY <2>3, FilesSame
  <2>5. ASSUME NEW b \in FileSteps, StepAfter(s, b), v2'.mem = new  PROVE StepReady(b)'
    <3>1. b.of = "claude" /\ b.do = "drop-backup"
      BY <1>1, <1>2, <1>3, <2>5 DEF StepAfter
    <3>2. new.line # "none" => v1.keep \in {"none", v1.file["claude"].line}
      BY <1>3, <1>4, <1>6, <2>2 DEF FilesSound
    <3> QED
      BY <1>3, <2>2, <2>3, <2>5, <3>1, <3>2 DEF StepReady, RunsScript
  <2>6. OwnKept
    BY <2>3 DEF OwnKept
  <2> QED
    BY <1>1, <1>2, <2>2, <2>3, <2>4, <2>5, <2>6, FilesStep
<1> QED
  BY <1>5, <1>6

\* The backup goes once its line is restored or superseded.
LEMMA FilesDropBackup == FilesInv /\ Files!DropBackup => FilesInv'
<1> SUFFICES ASSUME FilesInv, Files!DropBackup  PROVE FilesInv'
  OBVIOUS
<1>1. v2.todo # <<>> /\ Head(v2.todo).do = "drop-backup"
  BY DEF Files!DropBackup, Files!At
<1>2. PICK s \in FileSteps : s = Head(v2.todo) /\ s.of = Files!H /\ s.of \in {"claude", "pi", "codex"}
                             /\ StepFits(s) /\ StepReady(s)
  BY <1>1, FileHead
<1>3. /\ s.of = "claude" /\ v2.mem.line = v1.file["claude"].line /\ ~ RunsScript(v1.file["claude"].hooks)
      /\ v2.mem.kind # "kept" \/ v2.mem.line # "none" => v1.keep \in {"none", v1.file["claude"].line}
  BY <1>1, <1>2 DEF StepFits, StepReady
<1>4. v1 \in FileWorlds /\ FilesSound
  BY DEF FilesInv, FileTypes
<1>5. PICK mem \in FileSet : mem = Files!Absent
  BY AbsentFile
<1>6. /\ v1' \in FileWorlds /\ v1'.has = v1.has /\ v1'.file = v1.file /\ v1'.script = v1.script
      /\ FilesSound'
  <2>1. CASE v1' = v1
    BY <1>4, <2>1, FilesSame
  <2>2. CASE v1' = [v1 EXCEPT !.backup = "none"] /\ v1.keep \in {"none", v1.file["claude"].line}
    <3>1. /\ v1' \in FileWorlds /\ v1'.has = v1.has /\ v1'.file = v1.file /\ v1'.script = v1.script
          /\ v1'.keep = v1.keep
      BY <1>4, <2>2 DEF FileWorlds
    <3> QED
      BY <1>4, <2>2, <3>1 DEF FilesSound
  <2> QED
    BY <1>3, <2>1, <2>2 DEF Files!DropBackup
<1>7. ASSUME NEW b \in FileSteps, StepAfter(s, b)  PROVE StepReady(b)'
  <2>1. b.of = "claude" /\ b.do = "remove-script"
    BY <1>1, <1>2, <1>3, <1>7 DEF StepAfter
  <2> QED
    BY <1>3, <1>6, <2>1 DEF StepReady, RunsScript
<1>8. Files!Done(mem)
  BY <1>5 DEF Files!DropBackup
<1> QED
  BY <1>1, <1>2, <1>5, <1>6, <1>7, <1>8, FilesStep

\* What may follow the end of a harness's steps is ready.
LEMMA ReadyNext ==
  ASSUME NEW s \in FileSteps, s.do \in {"remove-script", "remove-package"}, v1'.has = v1.has, FilesSound',
         NEW b \in FileSteps, StepAfter(s, b)
  PROVE  StepReady(b)'
<1>1. CASE b.do \in {"remove-package", "read-or-empty"}
  BY <1>1 DEF StepReady
<1>2. CASE b.do = "remove-script" /\ b.of = "codex" /\ "codex" \notin v1.has
  <2>1. ~ RunsScript(v1'.file[b.of].hooks)
    BY <1>2 DEF FilesSound, RunsScript
  <2> QED
    BY <1>2, <2>1 DEF StepReady, RunsScript
<1> QED
  BY <1>1, <1>2 DEF StepAfter

\* remove_script takes the script that no hook runs any more.
LEMMA FilesRemoveScript == FilesInv /\ Files!RemoveScript => FilesInv'
<1> SUFFICES ASSUME FilesInv, Files!RemoveScript  PROVE FilesInv'
  OBVIOUS
<1>1. v2.todo # <<>> /\ Head(v2.todo).do = "remove-script"
  BY DEF Files!RemoveScript, Files!At
<1>2. PICK s \in FileSteps : s = Head(v2.todo) /\ s.of = Files!H /\ s.of \in {"claude", "pi", "codex"}
                             /\ StepFits(s) /\ StepReady(s)
  BY <1>1, FileHead
<1>3. ~ RunsScript(v1.file[s.of].hooks) /\ v1 \in FileWorlds /\ FilesSound
  BY <1>1, <1>2 DEF StepReady, FilesInv, FileTypes
<1>4. CASE v1' = [v1 EXCEPT !.script[s.of] = FALSE] /\ Files!Done(Files!Absent)
  <2>1. /\ v1' \in FileWorlds /\ v1'.has = v1.has /\ v1'.file = v1.file /\ v1'.backup = v1.backup
        /\ v1'.keep = v1.keep
        /\ \A h \in {"claude", "pi", "codex"} : h # s.of => v1'.script[h] = v1.script[h]
    BY <1>2, <1>3, <1>4 DEF FileWorlds
  <2>2. FilesSound'
    BY <1>3, <2>1 DEF FilesSound
  <2>3. PICK mem \in FileSet : mem = Files!Absent
    BY AbsentFile
  <2>4. \A b \in FileSteps : StepAfter(s, b) => StepReady(b)'
    BY <1>1, <1>2, <2>1, <2>2, ReadyNext
  <2> QED
    BY <1>1, <1>2, <1>4, <2>1, <2>2, <2>3, <2>4, FilesStep
<1>5. CASE Files!Fail /\ v1' = v1
  BY <1>5, FilesSame, FilesFail
<1> QED
  BY <1>2, <1>4, <1>5 DEF Files!RemoveScript

\* uninstall_pi_extension, which goes on whatever fails.
LEMMA FilesRemovePackage == FilesInv /\ Files!RemovePackage => FilesInv' /\ OwnKept
<1> SUFFICES ASSUME FilesInv, Files!RemovePackage  PROVE FilesInv' /\ OwnKept
  OBVIOUS
<1>1. v2.todo # <<>> /\ Head(v2.todo).do = "remove-package"
  BY DEF Files!RemovePackage, Files!At
<1>2. PICK s \in FileSteps : s = Head(v2.todo) /\ s.of = Files!H /\ s.of \in {"claude", "pi", "codex"}
                             /\ StepFits(s) /\ StepReady(s)
  BY <1>1, FileHead
<1>3. v1 \in FileWorlds /\ FilesSound
  BY DEF FilesInv, FileTypes
<1>4. PICK file : file = v1.file["pi"]
  OBVIOUS
<1>5. file \in FileSet /\ file.hooks \in Seq(Entries) /\ file.line = "none"
  BY <1>3, <1>4 DEF FileWorlds, FileSet, FilesSound
<1>6. PICK hooks : hooks = Files!RemoveHook(file.hooks)
  OBVIOUS
<1>7. hooks \in Seq(Entries) /\ (RunsOwn(file.hooks) => RunsOwn(hooks))
  BY <1>5, <1>6, RemoveCleans
<1>8. PICK clean : clean = [file EXCEPT !.hooks = hooks]
  OBVIOUS
<1>9. clean \in FileSet /\ clean.hooks = hooks /\ clean.line = "none"
  BY <1>5, <1>7, <1>8 DEF FileSet
<1>10. Files!Torn \in FileSet /\ Files!Torn.line = "none"
  BY DEF Files!Torn, FileSet
<1>11. PICK gone : gone = [v1 EXCEPT !.script["pi"] = FALSE]
  OBVIOUS
<1>12. /\ gone \in FileWorlds /\ gone.has = v1.has /\ gone.file = v1.file /\ gone.backup = v1.backup
       /\ gone.keep = v1.keep
       /\ \A h \in {"claude", "codex"} : gone.script[h] = v1.script[h]
  BY <1>3, <1>11 DEF FileWorlds
<1>13. \/ v1' \in {v1, gone}
       \/ v1' = [gone EXCEPT !.file["pi"] = clean]
       \/ v1' = [gone EXCEPT !.file["pi"] = Files!Torn]
  <2>1. [gone EXCEPT !.file["pi"].hooks = Files!RemoveHook(@)] = [gone EXCEPT !.file["pi"] = clean]
    BY <1>3, <1>4, <1>6, <1>8, <1>12 DEF FileWorlds
  <2> QED
    BY <1>11, <2>1 DEF Files!RemovePackage
<1>14. /\ v1' \in FileWorlds /\ v1'.has = v1.has /\ v1'.backup = v1.backup /\ v1'.keep = v1.keep
       /\ \A h \in {"claude", "codex"} : v1'.file[h] = v1.file[h] /\ v1'.script[h] = v1.script[h]
       /\ v1'.file["pi"] \in {file, clean, Files!Torn}
  <2>1. CASE v1' \in {v1, gone}
    BY <1>3, <1>4, <1>12, <2>1
  <2>2. CASE v1' = [gone EXCEPT !.file["pi"] = clean]
    BY <1>9, <1>12, <2>2 DEF FileWorlds
  <2>3. CASE v1' = [gone EXCEPT !.file["pi"] = Files!Torn]
    BY <1>10, <1>12, <2>3 DEF FileWorlds
  <2> QED
    BY <1>13, <2>1, <2>2, <2>3
<1>15. FilesSound'
  <2>1. v1'.file["pi"].line = "none"
    BY <1>5, <1>9, <1>10, <1>14
  <2> QED
    BY <1>3, <1>14, <2>1 DEF FilesSound
<1>16. OwnKept
  BY <1>4, <1>7, <1>9, <1>14 DEF OwnKept
<1>17. PICK mem \in FileSet : mem = Files!Absent
  BY AbsentFile
<1>18. \A b \in FileSteps : StepAfter(s, b) => StepReady(b)'
  BY <1>1, <1>2, <1>14, <1>15, ReadyNext
<1>19. Files!Done(mem)
  BY <1>17 DEF Files!RemovePackage
<1>20. FilesInv'
  BY <1>1, <1>2, <1>14, <1>15, <1>17, <1>18, <1>19, FilesStep
<1> QED
  BY <1>16, <1>20

\* The user edits a file between the runs.
LEMMA FilesEdit ==
  ASSUME FilesInv, NEW w, Files!Edit(w), w \in FileWorlds, FilesSound'
  PROVE  FilesInv' /\ v2.run = "idle"
<1>1. v2 \in FileJobs /\ v2.edits \in Nat /\ v2.edits + 1 \in Nat /\ v2.run = "idle" /\ v2.todo = <<>> /\ v1' = w
  BY DEF FilesInv, FileTypes, FileJobs, StepsFollow, Files!Edit
<1>2. v2' = [v2 EXCEPT !.edits = v2.edits + 1]
  BY <1>1 DEF Files!Edit
<1>3. v2' \in FileJobs /\ v2'.todo = <<>>
  BY <1>1, <1>2 DEF FileJobs
<1>4. Len(v2'.todo) = 0
  BY <1>3
<1> QED
  BY <1>1, <1>3, <1>4 DEF FilesInv, FileTypes, StepsFollow

\* The user picks a status line of their own, or drops the one there is.
LEMMA FilesLineEdits == FilesInv /\ (Files!OwnLine \/ Files!DropLine) => FilesInv' /\ v2.run = "idle"
<1> SUFFICES ASSUME FilesInv, Files!OwnLine \/ Files!DropLine  PROVE FilesInv' /\ v2.run = "idle"
  OBVIOUS
<1>1. v1 \in FileWorlds /\ FilesSound
  BY DEF FilesInv, FileTypes
<1>2. PICK line \in {"none", "mine", "mine2"}, keep \in {"none", "mine", "mine2"} :
        /\ Files!Edit([v1 EXCEPT !.file["claude"].line = line, !.keep = keep])
        /\ line # "none" => keep = line
        /\ line = "none" => keep = IF v1.file["claude"].line = "atm" THEN v1.keep ELSE "none"
  <2>1. CASE Files!OwnLine
    BY <2>1 DEF Files!OwnLine
  <2>2. CASE Files!DropLine
    <3>1. PICK keep \in {"none", "mine", "mine2"} : keep = IF v1.file["claude"].line = "atm" THEN v1.keep ELSE "none"
      BY <1>1 DEF FileWorlds
    <3>2. [v1 EXCEPT !.file["claude"].line = "none", !.keep = IF v1.file["claude"].line = "atm" THEN @ ELSE "none"]
            = [v1 EXCEPT !.file["claude"].line = "none", !.keep = keep]
      BY <1>1, <3>1 DEF FileWorlds
    <3> QED
      BY <2>2, <3>1, <3>2 DEF Files!DropLine
  <2> QED
    BY <2>1, <2>2
<1>3. PICK file : file = [v1.file["claude"] EXCEPT !.line = line]
  OBVIOUS
<1>4. file \in FileSet /\ file.line = line /\ file.hooks = v1.file["claude"].hooks
  BY <1>1, <1>3 DEF FileWorlds, FileSet
<1>5. PICK w : w = [v1 EXCEPT !.file["claude"] = file, !.keep = keep]
  OBVIOUS
<1>6. /\ w \in FileWorlds /\ w.has = v1.has /\ w.script = v1.script /\ w.backup = v1.backup /\ w.keep = keep
      /\ w.file["claude"] = file
      /\ \A h \in {"pi", "codex"} : w.file[h] = v1.file[h]
  BY <1>1, <1>4, <1>5 DEF FileWorlds
<1>7. Files!Edit(w) /\ v1' = w
  <2>1. [v1 EXCEPT !.file["claude"].line = line, !.keep = keep] = w
    BY <1>1, <1>3, <1>5 DEF FileWorlds
  <2> QED
    BY <1>2, <2>1 DEF Files!Edit
<1>8. FilesSound'
  <2>1. keep # "none" => keep \in {line, v1.backup} /\ (line \notin {"none", "atm"} => keep = line)
    BY <1>1, <1>2 DEF FilesSound, FileWorlds
  <2> QED
    BY <1>1, <1>4, <1>6, <1>7, <2>1 DEF FilesSound
<1> QED
  BY <1>6, <1>7, <1>8, FilesEdit

\* A file of the user's is deleted.
LEMMA FilesDelete == FilesInv /\ Files!DeleteFile => FilesInv' /\ v2.run = "idle"
<1> SUFFICES ASSUME FilesInv, Files!DeleteFile  PROVE FilesInv' /\ v2.run = "idle"
  OBVIOUS
<1>1. FileTypes /\ v1 \in FileWorlds /\ FilesSound
  BY DEF FilesInv, FileTypes
<1>2. PICK h \in {"claude", "pi", "codex"} :
        Files!Edit([v1 EXCEPT !.file[h] = Files!Absent,
                              !.keep = IF v1.file[h].line \in {"mine", "mine2"} THEN "none" ELSE @])
  BY DEF Files!DeleteFile, Files!Harnesses
<1>3. PICK keep \in {"none", v1.keep} : keep = IF v1.file[h].line \in {"mine", "mine2"} THEN "none" ELSE v1.keep
  OBVIOUS
<1>4. PICK w : w = [v1 EXCEPT !.file[h] = Files!Absent, !.keep = keep]
  OBVIOUS
<1>5. Files!Edit(w)
  BY <1>1, <1>2, <1>3, <1>4 DEF FileWorlds
<1>6. v1' = w
  BY <1>5 DEF Files!Edit
<1>7. v1.keep = v1.file[h].line => keep = "none"
  BY <1>1, <1>3 DEF FileWorlds
<1>8. FilePut(h, Files!Absent, keep)
  BY <1>1, <1>4, <1>6, <1>7, FileTears
<1> QED
  BY <1>5, <1>6, <1>8, FilesEdit DEF FilePut

\* A command of the user's joins an entry.
LEMMA FilesJoin == FilesInv /\ Files!JoinEntry => FilesInv' /\ v2.run = "idle"
<1> SUFFICES ASSUME FilesInv, Files!JoinEntry  PROVE FilesInv' /\ v2.run = "idle"
  OBVIOUS
<1>1. FileTypes /\ v1 \in FileWorlds /\ FilesSound
  BY DEF FilesInv, FileTypes
<1>2. PICK h \in {"claude", "codex"} :
        /\ v1.file[h].hooks # <<>>
        /\ Files!Edit([v1 EXCEPT !.file[h].hooks = <<Head(@) \cup {"user"}>> \o Tail(@)])
  BY DEF Files!JoinEntry
<1>3. PICK hooks : hooks = v1.file[h].hooks
  OBVIOUS
<1>4. hooks \in Seq(Entries) /\ hooks # <<>> /\ v1.file[h] \in FileSet
  BY <1>1, <1>2, <1>3 DEF FileWorlds, FileSet
<1>5. PICK e : e = Head(hooks) \cup {"user"}
  OBVIOUS
<1>6. PICK rest : rest = Tail(hooks)
  OBVIOUS
<1>7. /\ Len(hooks) \in Nat /\ Len(hooks) > 0 /\ Head(hooks) = hooks[1] /\ hooks[1] \in Entries
      /\ rest \in Seq(Entries) /\ Len(rest) = Len(hooks) - 1
      /\ \A i \in 1 .. Len(rest) : i + 1 \in 1 .. Len(hooks) /\ rest[i] = hooks[i + 1]
  BY ONLY <1>4, <1>6, HeadTail
<1>8. e \in Entries /\ ("atm" \in e <=> "atm" \in hooks[1])
  BY <1>5, <1>7 DEF Entries
<1>9. PICK one : one = <<e>>
  OBVIOUS
<1>10. one \in Seq(Entries) /\ Len(one) = 1 /\ one[1] = e
  BY <1>8, <1>9
<1>11. PICK new : new = one \o rest
  OBVIOUS
<1>12. /\ new \in Seq(Entries) /\ Len(new) = Len(one) + Len(rest)
       /\ \A i \in 1 .. Len(one) : new[i] = one[i]
       /\ \A i \in 1 .. Len(rest) : new[Len(one) + i] = rest[i]
  BY ONLY <1>7, <1>10, <1>11, Concat
<1>13. Len(new) = Len(hooks)
  BY <1>7, <1>10, <1>12
<1>14. ASSUME NEW i \in 1 .. Len(hooks)  PROVE "atm" \in new[i] <=> "atm" \in hooks[i]
  <2>1. CASE i = 1
    BY <1>8, <1>10, <1>12, <2>1
  <2>2. CASE i # 1
    <3>1. i - 1 \in 1 .. Len(rest) /\ i = Len(one) + (i - 1) /\ (i - 1) + 1 = i
      BY <1>7, <1>10, <2>2
    <3>2. new[i] = rest[i - 1] /\ rest[i - 1] = hooks[i]
      BY <1>7, <1>12, <3>1
    <3> QED
      BY <3>2
  <2> QED
    BY <2>1, <2>2
<1>15. (RunsScript(new) <=> RunsScript(hooks)) /\ (OnlyOnce(hooks) => OnlyOnce(new))
  BY <1>13, <1>14 DEF RunsScript, OnlyOnce
<1>16. PICK file : file = [v1.file[h] EXCEPT !.hooks = new]
  OBVIOUS
<1>17. file \in FileSet /\ file.hooks = new /\ file.line = v1.file[h].line
  BY <1>4, <1>12, <1>16 DEF FileSet
<1>18. PICK w : w = [v1 EXCEPT !.file[h] = file]
  OBVIOUS
<1>19. Files!Edit(w)
  BY <1>1, <1>2, <1>3, <1>5, <1>6, <1>9, <1>11, <1>16, <1>18 DEF FileWorlds
<1>20. v1' = w
  BY <1>19 DEF Files!Edit
<1>21. FitsIn(h, file)
  BY <1>1, <1>3, <1>15, <1>17 DEF FilesSound, FitsIn
<1>22. FilePut(h, file, v1.keep)
  BY <1>1, <1>17, <1>18, <1>20, <1>21, FilePuts
<1> QED
  BY <1>19, <1>20, <1>22, FilesEdit DEF FilePut

\* Every step, of a run and of the user.
LEMMA FilesKeepInv == FilesInv /\ [Files!Next]_<<v1, v2>> => FilesInv' /\ (v2.run # "idle" => OwnKept)
<1> SUFFICES ASSUME FilesInv, [Files!Next]_<<v1, v2>>  PROVE FilesInv' /\ (v2.run # "idle" => OwnKept)
  OBVIOUS
<1>1. CASE UNCHANGED <<v1, v2>>
  <2>1. FilesInv'
    BY <1>1 DEF FilesInv, FileTypes, FilesSound, StepsFollow, StepReady, StepFits, StepAfter
  <2> QED
    BY <1>1, <2>1 DEF OwnKept
<1>2. CASE Files!StartSetup \/ Files!StartUninstall
  BY <1>2, FilesSetup, FilesUninstall DEF Files!StartSetup, Files!StartUninstall, Files!Start
<1>3. CASE Files!Finish
  <2>1. v1' = v1 /\ v2' = Files!Abort
    BY <1>3 DEF Files!Finish
  <2>2. FilesInv'
    BY <2>1, FilesSame, FilesStop
  <2> QED
    BY <2>1, <2>2 DEF OwnKept
<1>4. ASSUME v1'.file = v1.file  PROVE OwnKept
  BY <1>4 DEF OwnKept
<1>5. v1 \in FileWorlds
  BY DEF FilesInv, FileTypes
<1>6. CASE Files!InstallScript
  <2>1. v1'.file = v1.file
    BY <1>5, <1>6 DEF Files!InstallScript, FileWorlds
  <2> QED
    BY <1>4, <1>6, <2>1, FilesInstall
<1>7. CASE Files!Read \/ Files!ReadOrEmpty
  <2>1. v1' = v1
    BY <1>7 DEF Files!Read, Files!ReadOrEmpty
  <2> QED
    BY <1>4, <1>7, <2>1, FilesRead
<1>8. CASE Files!AddLine
  <2>1. v1'.file = v1.file
    BY <1>5, <1>8 DEF Files!AddLine, FileWorlds
  <2> QED
    BY <1>4, <1>8, <2>1, FilesAddLine
<1>9. CASE Files!AddHooks \/ Files!RemoveHooks \/ Files!RemoveLine \/ Files!RemovePackage
  BY <1>9, FilesAddHooks, FilesRemoveHooks, FilesRemoveLine, FilesRemovePackage
<1>10. CASE Files!DropBackup
  <2>1. v1'.file = v1.file
    BY <1>5, <1>10 DEF Files!DropBackup, FileWorlds
  <2> QED
    BY <1>4, <1>10, <2>1, FilesDropBackup
<1>11. CASE Files!RemoveScript
  <2>1. v1'.file = v1.file
    BY <1>5, <1>11 DEF Files!RemoveScript, FileWorlds
  <2> QED
    BY <1>4, <1>11, <2>1, FilesRemoveScript
<1>12. CASE Files!OwnLine \/ Files!DropLine \/ Files!JoinEntry \/ Files!DeleteFile
  BY <1>12, FilesLineEdits, FilesJoin, FilesDelete
<1> QED
  BY <1>1, <1>2, <1>3, <1>6, <1>7, <1>8, <1>9, <1>10, <1>11, <1>12 DEF Files!Next

\* The user's line is kept, and the hooks run the script once.
LEMMA FilesShown == FilesInv => Files!StatusLineKept /\ Files!HooksRunOnce
<1> SUFFICES ASSUME FilesInv  PROVE Files!StatusLineKept /\ Files!HooksRunOnce
  OBVIOUS
<1>1. FilesSound
  BY DEF FilesInv
<1>2. Files!StatusLineKept
  BY <1>1 DEF FilesSound, Files!StatusLineKept
<1>3. Files!HooksRunOnce
  BY <1>1 DEF FilesSound, OnlyOnce, RunsScript, Files!HooksRunOnce
<1> QED
  BY <1>2, <1>3

\* KeepsOwnHooks.
LEMMA FilesKeepOwn == FilesInv /\ [Files!Next]_<<v1, v2>> => Files!KeepsOwnHooks
BY FilesKeepInv DEF OwnKept, RunsOwn, Files!KeepsOwnHooks, Files!Harnesses

-----------------------------------------------------------------------------
(* SkillInstall.  Its variables are v1 (world) and v2 (job).                   *)

Copies == {"none", "old", "new", "part"}
SkillTypes ==
  /\ v1 \in [dir : Copies, new : Copies, old : Copies]
  /\ v2 \in [at : {"idle", "clean", "build", "aside", "swap", "sweep", "remove"}, runs : Nat, fails : Nat,
             had : BOOLEAN, killed : BOOLEAN]

\* A copy that was whole when the run began is where the next step leaves it: under its
\* name, or aside with the new one whole beside it.
CopyKept ==
  /\ v2.at \in {"clean", "build", "aside", "swap", "sweep"} => v2.fails = 0
  /\ v2.at \in {"clean", "build", "aside"} /\ v2.had => Skill!Whole(v1.dir)
  /\ v2.at = "aside" => v1.new = "new"
  /\ v2.at = "swap" => v1.new = "new" /\ v1.dir = "none" /\ (v2.had => Skill!Whole(v1.old))
  /\ v2.at = "sweep" => v1.dir = "new"
SkillInv == SkillTypes /\ CopyKept

\* No run yet, and a copy or none.
LEMMA SkillInit == Skill!Init => SkillInv
BY DEF Skill!Init, SkillInv, SkillTypes, CopyKept, Copies

\* A step that says where it goes and what it leaves in the folders.
LEMMA SkillGoes ==
  ASSUME SkillInv, NEW at \in {"idle", "clean", "build", "aside", "swap", "sweep"},
         NEW w \in [dir : Copies, new : Copies, old : Copies], Skill!Goes(at, w) \/ Skill!Fails(at, w)
  PROVE  SkillTypes' /\ v1' = w /\ v2'.at = at /\ v2'.had = v2.had /\ v2'.killed = v2.killed
         /\ (Skill!Goes(at, w) => v2'.fails = v2.fails) /\ v2'.fails \in {v2.fails, v2.fails + 1}
<1>1. v2.fails \in Nat /\ v2.fails + 1 \in Nat
  BY DEF SkillInv, SkillTypes
<1>2. CASE Skill!Goes(at, w)
  BY <1>1, <1>2 DEF SkillInv, SkillTypes, Skill!Goes
<1>3. CASE Skill!Fails(at, w)
  <2>1. v2' = [v2 EXCEPT !.at = at, !.fails = v2.fails + 1] /\ v1' = w
    BY <1>1, <1>3 DEF Skill!Fails, SkillInv, SkillTypes
  <2>2. /\ SkillTypes' /\ v2'.at = at /\ v2'.had = v2.had /\ v2'.killed = v2.killed
        /\ v2'.fails = v2.fails + 1
    BY <1>1, <2>1 DEF SkillInv, SkillTypes
  <2>3. Skill!Goes(at, w) => v2'.fails = v2.fails
    BY DEF Skill!Goes, SkillInv, SkillTypes
  <2> QED
    BY <2>1, <2>2, <2>3
<1> QED
  BY <1>2, <1>3

\* Every step keeps it, and no install leaves less than a whole copy.
LEMMA SkillKeepsInv == SkillInv /\ [Skill!Next]_<<v1, v2>> => SkillInv' /\ Skill!LeavesWhole
<1> SUFFICES ASSUME SkillInv, [Skill!Next]_<<v1, v2>>  PROVE SkillInv' /\ Skill!LeavesWhole
  OBVIOUS
<1>1. /\ v1 \in [dir : Copies, new : Copies, old : Copies] /\ CopyKept /\ v2.fails \in Nat
      /\ v2.at \in {"idle", "clean", "build", "aside", "swap", "sweep", "remove"}
  BY DEF SkillInv, SkillTypes
<1> DEFINE Folders == [dir : Copies, new : Copies, old : Copies]
<1>2. CASE UNCHANGED <<v1, v2>>
  BY <1>2 DEF SkillInv, SkillTypes, CopyKept, Skill!LeavesWhole
<1>3. CASE Skill!StartSetup \/ Skill!StartUninstall
  <2>1. PICK run \in {"clean", "remove"} : Skill!Begin(run)
    BY <1>3 DEF Skill!StartSetup, Skill!StartUninstall
  <2>2. PICK dir \in Copies : dir = IF v1.dir = "new" THEN "old" ELSE v1.dir
    BY <1>1 DEF Copies
  <2>3. PICK had \in BOOLEAN : had = Skill!Whole(v1.dir)
    <3>1. PICK had : had = (v1.dir \in {"old", "new"})
      OBVIOUS
    <3>2. had \in BOOLEAN
      BY <3>1
    <3> QED
      BY <3>1, <3>2 DEF Skill!Whole
  <2>4. PICK runs \in Nat : runs = v2.runs + 1
    BY DEF SkillInv, SkillTypes
  <2>5. /\ v1' = [v1 EXCEPT !.dir = dir]
        /\ v2' = [v2 EXCEPT !.at = run, !.runs = runs, !.fails = 0, !.had = had, !.killed = FALSE]
        /\ v2.at = "idle"
    BY <1>1, <2>1, <2>2, <2>3, <2>4 DEF Skill!Begin, SkillInv, SkillTypes
  <2>6. /\ v1' \in Folders /\ v1'.dir = dir
        /\ SkillTypes' /\ v2'.at = run /\ v2'.fails = 0 /\ v2'.had = had
    BY <1>1, <2>5 DEF SkillInv, SkillTypes
  <2>7. had => Skill!Whole(dir)
    BY <2>2, <2>3 DEF Skill!Whole
  <2>8. Skill!LeavesWhole
    BY <2>5 DEF Skill!LeavesWhole
  <2> QED
    BY <2>6, <2>7, <2>8 DEF SkillInv, CopyKept, Skill!Whole
<1>4. CASE Skill!Clean
  <2>1. PICK n \in Copies, o \in Copies, at \in {"idle", "build"} :
          /\ Skill!Goes(at, [v1 EXCEPT !.new = n, !.old = o]) \/ Skill!Fails(at, [v1 EXCEPT !.new = n, !.old = o])
          /\ at = "build" => Skill!Goes(at, [v1 EXCEPT !.new = n, !.old = o])
    BY <1>1, <1>4 DEF Skill!Clean, Skill!Removed, Copies
  <2>2. PICK w : w = [v1 EXCEPT !.new = n, !.old = o]
    OBVIOUS
  <2>3. w \in Folders /\ w.dir = v1.dir
    BY <1>1, <2>1, <2>2
  <2>4. /\ SkillTypes' /\ v1' = w /\ v2'.at = at /\ v2'.had = v2.had
        /\ Skill!Goes(at, w) => v2'.fails = v2.fails
    <3>1. at \in {"idle", "clean", "build", "aside", "swap", "sweep"}
      OBVIOUS
    <3> QED
      BY <2>1, <2>2, <2>3, <3>1, SkillGoes
  <2>5. v2.at = "clean"
    BY <1>4 DEF Skill!Clean
  <2> QED
    BY <1>1, <2>1, <2>2, <2>3, <2>4, <2>5 DEF SkillInv, CopyKept, Skill!LeavesWhole, Skill!Whole
<1>5. CASE Skill!Build
  <2>1. PICK n \in Copies, at \in {"idle", "aside"} :
          /\ Skill!Goes(at, [v1 EXCEPT !.new = n]) \/ Skill!Fails(at, [v1 EXCEPT !.new = n])
          /\ at = "aside" => Skill!Goes(at, [v1 EXCEPT !.new = n]) /\ n = "new"
    BY <1>1, <1>5 DEF Skill!Build, Copies
  <2>2. PICK w : w = [v1 EXCEPT !.new = n]
    OBVIOUS
  <2>3. w \in Folders /\ w.dir = v1.dir /\ w.new = n
    BY <1>1, <2>1, <2>2
  <2>4. /\ SkillTypes' /\ v1' = w /\ v2'.at = at /\ v2'.had = v2.had
        /\ at = "aside" => v2'.fails = v2.fails
    BY <2>1, <2>2, <2>3, SkillGoes
  <2>5. v2.at = "build"
    BY <1>5 DEF Skill!Build
  <2> QED
    BY <1>1, <2>1, <2>2, <2>3, <2>4, <2>5 DEF SkillInv, CopyKept, Skill!LeavesWhole, Skill!Whole
<1>6. CASE Skill!Aside
  <2>1. v2.at = "aside"
    BY <1>6 DEF Skill!Aside
  <2>2. CASE Skill!Goes("swap", [v1 EXCEPT !.dir = "none", !.old = v1.dir])
    <3>1. PICK w : w = [v1 EXCEPT !.dir = "none", !.old = v1.dir]
      OBVIOUS
    <3>2. w \in Folders /\ w.dir = "none" /\ w.old = v1.dir /\ w.new = v1.new
      BY <1>1, <3>1 DEF Copies
    <3>3. SkillTypes' /\ v1' = w /\ v2'.at = "swap" /\ v2'.had = v2.had /\ v2'.fails = v2.fails
      BY <2>2, <3>1, <3>2, SkillGoes
    <3> QED
      BY <1>1, <2>1, <3>2, <3>3 DEF SkillInv, CopyKept, Skill!LeavesWhole, Skill!Whole
  <2>3. CASE Skill!Fails("idle", [v1 EXCEPT !.new = "none"])
    <3>1. PICK w : w = [v1 EXCEPT !.new = "none"]
      OBVIOUS
    <3>2. w \in Folders /\ w.dir = v1.dir
      BY <1>1, <3>1 DEF Copies
    <3>3. SkillTypes' /\ v1' = w /\ v2'.at = "idle" /\ v2'.had = v2.had
      BY <2>3, <3>1, <3>2, SkillGoes
    <3> QED
      BY <1>1, <2>1, <3>2, <3>3 DEF SkillInv, CopyKept, Skill!LeavesWhole, Skill!Whole
  <2> QED
    BY <1>6, <2>2, <2>3 DEF Skill!Aside
<1>7. CASE Skill!Swap
  <2>1. v2.at = "swap" /\ v1.new = "new" /\ v1.dir = "none" /\ v2.fails = 0 /\ (v2.had => Skill!Whole(v1.old))
    BY <1>1, <1>7 DEF Skill!Swap, CopyKept
  <2>2. CASE Skill!Goes("sweep", [v1 EXCEPT !.dir = v1.new, !.new = "none"])
    <3>1. PICK w : w = [v1 EXCEPT !.dir = v1.new, !.new = "none"]
      OBVIOUS
    <3>2. w \in Folders /\ w.dir = "new"
      BY <1>1, <2>1, <3>1 DEF Copies
    <3>3. SkillTypes' /\ v1' = w /\ v2'.at = "sweep" /\ v2'.had = v2.had /\ v2'.fails = v2.fails
      BY <2>2, <3>1, <3>2, SkillGoes
    <3> QED
      BY <1>1, <2>1, <3>2, <3>3 DEF SkillInv, CopyKept, Skill!LeavesWhole, Skill!Whole
  <2>3. CASE Skill!Fails("idle", [dir |-> v1.old, new |-> "none", old |-> "none"])
    <3>1. PICK w : w = [dir |-> v1.old, new |-> "none", old |-> "none"]
      OBVIOUS
    <3>2. w \in Folders /\ w.dir = v1.old
      BY <1>1, <3>1 DEF Copies
    <3>3. SkillTypes' /\ v1' = w /\ v2'.at = "idle" /\ v2'.had = v2.had
      BY <2>3, <3>1, <3>2, SkillGoes
    <3> QED
      BY <1>1, <2>1, <3>2, <3>3 DEF SkillInv, CopyKept, Skill!LeavesWhole, Skill!Whole
  <2>4. CASE v2' = [v2 EXCEPT !.at = "idle", !.fails = @ + 2] /\ v1' = [v1 EXCEPT !.new = "none"]
    <3>1. v2' = [v2 EXCEPT !.at = "idle", !.fails = 2]
      BY <2>1, <2>4 DEF SkillInv, SkillTypes
    <3>2. v1' \in Folders /\ v1'.dir = "none"
      BY <1>1, <2>1, <2>4 DEF Copies
    <3>3. PICK f \in Nat : f = 2
      OBVIOUS
    <3>4. SkillTypes' /\ v2'.at = "idle" /\ v2'.fails = f
      BY <3>1, <3>2, <3>3 DEF SkillInv, SkillTypes
    <3> QED
      BY <3>2, <3>3, <3>4 DEF SkillInv, CopyKept, Skill!LeavesWhole
  <2> QED
    BY <1>7, <2>2, <2>3, <2>4 DEF Skill!Swap
<1>8. CASE Skill!Sweep
  <2>1. PICK o \in Copies :
          /\ Skill!Goes("idle", [v1 EXCEPT !.old = o]) \/ Skill!Fails("idle", [v1 EXCEPT !.old = o])
    BY <1>1, <1>8 DEF Skill!Sweep, Skill!Removed, Copies
  <2>2. PICK w : w = [v1 EXCEPT !.old = o]
    OBVIOUS
  <2>3. w \in Folders /\ w.dir = v1.dir
    BY <1>1, <2>1, <2>2
  <2>4. SkillTypes' /\ v1' = w /\ v2'.at = "idle" /\ v2'.had = v2.had
    BY <2>1, <2>2, <2>3, SkillGoes
  <2>5. v2.at = "sweep"
    BY <1>8 DEF Skill!Sweep
  <2> QED
    BY <1>1, <2>1, <2>2, <2>3, <2>4, <2>5 DEF SkillInv, CopyKept, Skill!LeavesWhole, Skill!Whole
<1>9. CASE Skill!Remove
  <2>1. PICK w \in Folders : Skill!Goes("idle", w) \/ Skill!Fails("idle", w)
    <3>1. CASE Skill!Goes("idle", [dir |-> "none", new |-> "none", old |-> "none"])
      BY <3>1 DEF Copies
    <3>2. CASE \E d \in Skill!Removed(v1.dir) \cup {"none"}, n \in {"none", v1.new}, o \in {"none", v1.old} :
                 Skill!Fails("idle", [dir |-> d, new |-> n, old |-> o])
      BY <1>1, <3>2 DEF Skill!Removed, Copies
    <3> QED
      BY <1>9, <3>1, <3>2 DEF Skill!Remove
  <2>2. SkillTypes' /\ v2'.at = "idle"
    BY <2>1, SkillGoes
  <2>3. v2.at = "remove"
    BY <1>9 DEF Skill!Remove
  <2> QED
    BY <2>2, <2>3 DEF SkillInv, CopyKept, Skill!LeavesWhole
<1>10. CASE Skill!Kill
  <2>1. /\ v2' = [v2 EXCEPT !.at = "idle", !.killed = TRUE]
        /\ v1' \in Folders /\ (v2.at # "remove" => v1'.dir = v1.dir)
    <3>1. CASE v1' = v1
      BY <1>1, <1>10, <3>1 DEF Skill!Kill
    <3>2. CASE v2.at = "build" /\ v1' = [v1 EXCEPT !.new = "part"]
      BY <1>1, <1>10, <3>2 DEF Skill!Kill, Copies
    <3>3. CASE v2.at = "remove" /\ v1' = [v1 EXCEPT !.dir = IF @ = "none" THEN @ ELSE "part"]
      <4>1. PICK d \in Copies : d = IF v1.dir = "none" THEN v1.dir ELSE "part"
        BY <1>1 DEF Copies
      <4>2. v1' = [v1 EXCEPT !.dir = d]
        BY <1>1, <3>3, <4>1
      <4> QED
        BY <1>1, <1>10, <3>3, <4>2 DEF Skill!Kill
    <3> QED
      BY <1>10, <3>1, <3>2, <3>3 DEF Skill!Kill
  <2>2. SkillTypes' /\ v2'.at = "idle" /\ v2'.killed
    BY <2>1 DEF SkillInv, SkillTypes
  <2> QED
    BY <2>1, <2>2 DEF SkillInv, CopyKept, Skill!LeavesWhole
<1> QED
  BY <1>2, <1>3, <1>4, <1>5, <1>6, <1>7, <1>8, <1>9, <1>10
     DEF Skill!Next

-----------------------------------------------------------------------------
(* Discovery.  Its variables are v1 (procs) and v2 (scan).                     *)

KindNames ==
  {"shell", "claude", "teammate", "pi", "amp", "wrapper", "codex", "appwrapper", "appserver", "bwrap", "sandbox"}
Processes == [kind : KindNames, parent : Nat, launch : Nat, alive : BOOLEAN]

\* What the table of harnesses makes of each kind: the harness it matches, 0 for none,
\* whether its comm is the harness's binary, and whether an exclude takes it.
HarnessOf(kind) ==
  CASE kind \in {"shell", "amp"} -> 0
    [] kind \in {"claude", "teammate"} -> 1
    [] kind = "pi" -> 2
    [] OTHER -> 3
IsBinary(kind) == kind \in {"claude", "codex", "appserver", "sandbox"}
IsOut(kind) == kind \in {"appserver", "bwrap", "sandbox"}

\* The table of harnesses, each record with its fields.
LEMMA HarnessTable ==
  /\ DOMAIN Scan!BuiltinHarnesses = 1 .. 4
  /\ Scan!BuiltinHarnesses[1] = [id |-> "claude", binary |-> "claude",
       matchers |-> {"claude", "/claude", "/claude/versions/2"}, excludes |-> {},
       discovery_enabled |-> TRUE, allow_bare |-> TRUE]
  /\ Scan!BuiltinHarnesses[2] = [id |-> "pi", binary |-> "pi", matchers |-> {"/pi"}, excludes |-> {},
       discovery_enabled |-> TRUE, allow_bare |-> FALSE]
  /\ Scan!BuiltinHarnesses[3] = [id |-> "codex", binary |-> "codex", matchers |-> {"codex", "/codex"},
       excludes |-> {<<2, "app-server">>, <<1, "/codex-linux-sandbox">>, <<1, "bwrap">>},
       discovery_enabled |-> TRUE, allow_bare |-> TRUE]
  /\ ~ Scan!BuiltinHarnesses[4].discovery_enabled
BY DEF Scan!BuiltinHarnesses, Scan!Definition

\* Which harness matches what /proc shows, one harness at a time.
LEMMA KindMatches ==
  ASSUME NEW kind \in KindNames, NEW shown, shown = Scan!Kinds[kind]
  PROVE  /\ HarnessOf(kind) = 0 => Scan!Matching(shown) = {}
         /\ HarnessOf(kind) # 0 => Scan!Matching(shown) = {HarnessOf(kind)}
<1>1. \A i \in 1 .. 4 : i \in {1, 2, 3, 4}
  OBVIOUS
<1> QED
  BY <1>1, HarnessTable DEF Scan!Matching, Scan!CheckViaExe, Scan!CheckViaCmdline, Scan!PathLike, Scan!Kinds, Scan!Shows,
     KindNames, HarnessOf

\* Whether the comm is the binary's, and whether an exclude takes the process.
LEMMA KindShown ==
  ASSUME NEW kind \in KindNames, HarnessOf(kind) # 0, NEW shown, shown = Scan!Kinds[kind],
         NEW d, d = Scan!BuiltinHarnesses[HarnessOf(kind)]
  PROVE  (shown.comm = d.binary <=> IsBinary(kind)) /\ (Scan!IsExcluded(shown, d) <=> IsOut(kind))
<1>1. shown.comm = d.binary <=> IsBinary(kind)
  BY HarnessTable DEF Scan!Kinds, Scan!Shows, KindNames, HarnessOf, IsBinary
<1>2. CASE kind \in {"claude", "teammate", "pi"}
  <2>1. d.excludes = {} /\ ~ IsOut(kind)
    BY <1>2, HarnessTable DEF HarnessOf, IsOut
  <2> QED
    BY <1>1, <2>1 DEF Scan!IsExcluded
<1>3. CASE kind \in {"wrapper", "codex", "appwrapper", "appserver", "bwrap", "sandbox"}
  <2>1. d.excludes = {<<2, "app-server">>, <<1, "/codex-linux-sandbox">>, <<1, "bwrap">>}
    BY <1>3, HarnessTable DEF HarnessOf
  <2>2. Scan!IsExcluded(shown, d) <=>
          \/ 2 \in DOMAIN shown.argv /\ shown.argv[2] = "app-server"
          \/ 1 \in DOMAIN shown.argv /\ shown.argv[1] \in {"/codex-linux-sandbox", "bwrap"}
    BY <2>1 DEF Scan!IsExcluded
  <2>3. Scan!IsExcluded(shown, d) <=> IsOut(kind)
    BY <1>3, <2>2 DEF Scan!Kinds, Scan!Shows, IsOut
  <2> QED
    BY <1>1, <2>3
<1> QED
  BY <1>2, <1>3 DEF KindNames, HarnessOf

\* The processes above each, as Ancestors and Up go from parent to parent.
AncestorsOf(f, n) ==
  f = [p \in 1 .. n |-> IF v1[p].parent = 0 THEN {} ELSE {v1[p].parent} \cup f[v1[p].parent]]
UpFrom(f, n) == f = [p \in 0 .. n |-> IF p = 0 THEN <<>> ELSE <<p>> \o f[v1[p].parent]]

ParentsOlder == \A p \in 1 .. Len(v1) : v1[p].parent \in 0 .. p - 1

\* There are such functions, a parent having started before its child.
LEMMA AncestorsAre ==
  ASSUME ParentsOlder, NEW L \in Nat, L <= Len(v1), Len(v1) \in Nat
  PROVE  \E f : AncestorsOf(f, L)
<1> DEFINE S == {m \in Nat : m <= L => \E f : AncestorsOf(f, m)}
<1>1. 0 \in S
  <2>1. PICK f : f = [p \in 1 .. 0 |-> {}]
    OBVIOUS
  <2>2. AncestorsOf(f, 0)
    BY <2>1 DEF AncestorsOf
  <2> QED
    BY <2>2
<1>2. ASSUME NEW m \in Nat, m \in S  PROVE m + 1 \in S
  <2> SUFFICES ASSUME m + 1 <= L  PROVE \E f : AncestorsOf(f, m + 1)
    OBVIOUS
  <2>1. PICK f : AncestorsOf(f, m)
    BY <1>2
  <2>2. PICK q : q = [p \in 1 .. m + 1 |-> IF p = m + 1
                                            THEN (IF v1[p].parent = 0 THEN {} ELSE {v1[p].parent} \cup f[v1[p].parent])
                                            ELSE f[p]]
    OBVIOUS
  <2>3. \A p \in 1 .. m : q[p] = f[p]
    BY <2>2
  <2>4. ASSUME NEW p \in 1 .. m + 1
        PROVE  q[p] = IF v1[p].parent = 0 THEN {} ELSE {v1[p].parent} \cup q[v1[p].parent]
    <3>1. v1[p].parent \in 0 .. p - 1
      BY DEF ParentsOlder
    <3>2. v1[p].parent # 0 => q[v1[p].parent] = f[v1[p].parent]
      BY <2>3, <3>1
    <3>3. CASE p = m + 1
      BY <2>2, <3>2, <3>3
    <3>4. CASE p # m + 1
      <4>1. p \in 1 .. m /\ q[p] = f[p]
        BY <2>3, <3>4
      <4>2. f[p] = IF v1[p].parent = 0 THEN {} ELSE {v1[p].parent} \cup f[v1[p].parent]
        BY <2>1, <4>1 DEF AncestorsOf
      <4> QED
        BY <3>2, <4>1, <4>2
    <3> QED
      BY <3>3, <3>4
  <2>5. DOMAIN q = 1 .. m + 1 /\ q = [p \in 1 .. m + 1 |-> q[p]]
    BY <2>2
  <2>6. AncestorsOf(q, m + 1)
    BY <2>4, <2>5 DEF AncestorsOf
  <2> QED
    BY <2>6
<1> HIDE DEF S
<1>3. L \in S
  BY <1>1, <1>2, SetInduction
<1> QED
  BY <1>3 DEF S

\* And such sequences upwards, for the same reason.
LEMMA UpIs ==
  ASSUME ParentsOlder, NEW L \in Nat, L <= Len(v1), Len(v1) \in Nat
  PROVE  \E f : UpFrom(f, L)
<1> DEFINE S == {m \in Nat : m <= L => \E f : UpFrom(f, m)}
<1>1. 0 \in S
  <2>1. PICK f : f = [p \in 0 .. 0 |-> <<>>]
    OBVIOUS
  <2>2. UpFrom(f, 0)
    BY <2>1 DEF UpFrom
  <2> QED
    BY <2>2
<1>2. ASSUME NEW m \in Nat, m \in S  PROVE m + 1 \in S
  <2> SUFFICES ASSUME m + 1 <= L  PROVE \E f : UpFrom(f, m + 1)
    OBVIOUS
  <2>1. PICK f : UpFrom(f, m)
    BY <1>2
  <2>2. PICK q : q = [p \in 0 .. m + 1 |-> IF p = m + 1 THEN <<p>> \o f[v1[p].parent] ELSE f[p]]
    OBVIOUS
  <2>3. \A p \in 0 .. m : q[p] = f[p]
    BY <2>2
  <2>4. ASSUME NEW p \in 0 .. m + 1
        PROVE  q[p] = IF p = 0 THEN <<>> ELSE <<p>> \o q[v1[p].parent]
    <3>1. p # 0 => v1[p].parent \in 0 .. m
      BY DEF ParentsOlder
    <3>2. p # 0 => q[v1[p].parent] = f[v1[p].parent]
      BY <2>3, <3>1
    <3>3. CASE p = m + 1
      <4>1. p # 0 /\ q[p] = <<p>> \o f[v1[p].parent]
        BY <2>2, <3>3
      <4> QED
        BY <3>2, <4>1
    <3>4. CASE p # m + 1
      <4>1. p \in 0 .. m /\ q[p] = f[p]
        BY <2>3, <3>4
      <4>2. f[p] = IF p = 0 THEN <<>> ELSE <<p>> \o f[v1[p].parent]
        BY <2>1, <4>1 DEF UpFrom
      <4> QED
        BY <3>2, <4>1, <4>2
    <3> QED
      BY <3>3, <3>4
  <2>5. DOMAIN q = 0 .. m + 1 /\ q = [p \in 0 .. m + 1 |-> q[p]]
    BY <2>2
  <2>6. UpFrom(q, m + 1)
    BY <2>4, <2>5 DEF UpFrom
  <2> QED
    BY <2>6
<1> HIDE DEF S
<1>3. L \in S
  BY <1>1, <1>2, SetInduction
<1> QED
  BY <1>3 DEF S

\* Each process was started by one that starts such, if its parent still lives.
StartersOnly == \A p \in 1 .. Len(v1) : v1[p].parent # 0 => <<v1[v1[p].parent].kind, v1[p].kind>> \in Scan!Starts
ProcsSound == v1 \in Seq(Processes) /\ ParentsOlder /\ StartersOnly

\* Nothing starts below a teammate, nor a teammate but below a shell, which is below nothing.
MayBeAbove(q, p) ==
  q \in 1 .. Len(v1) /\ v1[q].kind # "teammate" /\ (v1[p].kind = "teammate" => v1[q].kind = "shell")

\* The parent of a process is among its ancestors, and each of these may be above it.
LEMMA AncestorsKnown ==
  ASSUME ProcsSound, NEW p \in 1 .. Len(v1)
  PROVE  /\ v1[p].parent # 0 => v1[p].parent \in Scan!Ancestors[p]
         /\ \A q \in Scan!Ancestors[p] : MayBeAbove(q, p)
<1>1. PICK L \in Nat : L = Len(v1)
  BY LenProperties DEF ProcsSound
<1>2. DOMAIN v1 = 1 .. L
  BY <1>1, LenProperties DEF ProcsSound
<1> DEFINE f == CHOOSE f : AncestorsOf(f, L)
<1>3. Scan!Ancestors = f
  BY <1>2 DEF Scan!Ancestors, AncestorsOf
<1>4. AncestorsOf(f, L)
  BY <1>1, AncestorsAre DEF ProcsSound
<1> HIDE DEF f
<1>5. \A n \in 1 .. L : f[n] = IF v1[n].parent = 0 THEN {} ELSE {v1[n].parent} \cup f[v1[n].parent]
  BY <1>4 DEF AncestorsOf
<1>6. \A n \in 1 .. L : v1[n].parent \in 0 .. n - 1
  BY <1>1 DEF ProcsSound, ParentsOlder
<1>7. \A n \in 1 .. L : v1[n].parent # 0 => <<v1[v1[n].parent].kind, v1[n].kind>> \in Scan!Starts
  BY <1>1 DEF ProcsSound, StartersOnly
<1> DEFINE S == {m \in Nat : \A n \in 1 .. L : n <= m => \A q \in f[n] : MayBeAbove(q, n)}
<1>8. 0 \in S
  OBVIOUS
<1>9. ASSUME NEW m \in Nat, m \in S  PROVE m + 1 \in S
  <2> SUFFICES ASSUME NEW n \in 1 .. L, n <= m + 1, NEW q \in f[n]  PROVE MayBeAbove(q, n)
    OBVIOUS
  <2>1. PICK u \in 1 .. L : u = v1[n].parent /\ u <= m /\ f[n] = {u} \cup f[u]
    <3>1. v1[n].parent # 0
      BY <1>5
    <3>2. v1[n].parent \in 1 .. L /\ v1[n].parent <= m
      BY <1>6, <3>1
    <3>3. f[n] = {v1[n].parent} \cup f[v1[n].parent]
      BY <1>5, <3>1
    <3> QED
      BY <3>2, <3>3
  <2>2. <<v1[u].kind, v1[n].kind>> \in Scan!Starts
    BY <1>6, <1>7, <2>1
  <2>3. v1[u].kind # "teammate" /\ (v1[n].kind = "teammate" => v1[u].kind = "shell")
    BY <2>2 DEF Scan!Starts
  <2>4. v1[u].kind = "shell" => f[u] = {}
    <3>1. v1[u].parent # 0 => v1[u].kind # "shell"
      BY <1>7 DEF Scan!Starts
    <3> QED
      BY <1>5, <3>1
  <2>5. CASE q = u
    BY <1>1, <2>3, <2>5 DEF MayBeAbove
  <2>6. CASE q \in f[u]
    <3>1. MayBeAbove(q, u)
      BY <1>9, <2>1, <2>6
    <3> QED
      BY <2>3, <2>4, <2>6, <3>1 DEF MayBeAbove
  <2> QED
    BY <2>1, <2>5, <2>6
<1> HIDE DEF S
<1>10. L \in S
  BY <1>8, <1>9, SetInduction
<1>11. \A q \in f[p] : MayBeAbove(q, p)
  BY <1>1, <1>10 DEF S
<1> QED
  BY <1>1, <1>3, <1>5, <1>11

\* The first of the processes from p up is p.
LEMMA UpStarts ==
  ASSUME ProcsSound, NEW p \in 1 .. Len(v1)
  PROVE  /\ Scan!Up[p] \in Seq(Nat) /\ 1 \in DOMAIN Scan!Up[p] /\ Scan!Up[p][1] = p
         /\ \A i \in DOMAIN Scan!Up[p] : i \in Nat /\ 1 <= i
<1>1. PICK L \in Nat : L = Len(v1)
  BY LenProperties DEF ProcsSound
<1> DEFINE f == CHOOSE f : UpFrom(f, L)
<1>2. Scan!Up = f
  BY <1>1 DEF Scan!Up, UpFrom
<1>3. UpFrom(f, L)
  BY <1>1, UpIs DEF ProcsSound
<1> HIDE DEF f
<1>4. \A n \in 0 .. L : f[n] = IF n = 0 THEN <<>> ELSE <<n>> \o f[v1[n].parent]
  BY <1>3 DEF UpFrom
<1>5. \A n \in 1 .. L : v1[n].parent \in 0 .. n - 1
  BY <1>1 DEF ProcsSound, ParentsOlder
<1> DEFINE S == {m \in Nat : \A n \in 0 .. L : n <= m => f[n] \in Seq(Nat)}
<1>6. 0 \in S
  <2>1. 0 \in 0 .. L /\ \A n \in 0 .. L : n <= 0 => n = 0
    OBVIOUS
  <2>2. f[0] = <<>>
    BY <1>4, <2>1
  <2>3. f[0] \in Seq(Nat)
    BY <2>2
  <2> QED
    BY <2>1, <2>3
<1>7. ASSUME NEW m \in Nat, m \in S  PROVE m + 1 \in S
  <2> SUFFICES ASSUME NEW n \in 0 .. L, n <= m + 1, n # 0  PROVE f[n] \in Seq(Nat)
    <3>1. f[0] \in Seq(Nat)
      BY <1>7
    <3> QED
      BY <3>1
  <2>1. PICK r : r = f[v1[n].parent]
    OBVIOUS
  <2>2. r \in Seq(Nat) /\ f[n] = <<n>> \o r
    <3>1. f[n] = <<n>> \o r
      BY <1>4, <2>1
    <3>2. v1[n].parent \in 0 .. L /\ v1[n].parent <= m
      BY <1>5
    <3> QED
      BY <1>7, <2>1, <3>1, <3>2
  <2>3. PICK one : one = <<n>>
    OBVIOUS
  <2>4. one \in Seq(Nat)
    BY <2>3
  <2>5. one \o r \in Seq(Nat)
    BY ONLY <2>2, <2>4, Concat
  <2> QED
    BY <2>2, <2>3, <2>5
<1> HIDE DEF S
<1>8. L \in S
  BY <1>6, <1>7, SetInduction
<1>9. p \in 0 .. L /\ p # 0 /\ p \in Nat /\ v1[p].parent \in 0 .. L
  BY <1>1, <1>5
<1>10. PICK r : r = f[v1[p].parent]
  OBVIOUS
<1>11. PICK one : one = <<p>>
  OBVIOUS
<1>12. r \in Seq(Nat) /\ f[p] = one \o r
  <2>1. f[p] = one \o r
    BY <1>4, <1>9, <1>10, <1>11
  <2>2. v1[p].parent <= L
    BY <1>9
  <2> QED
    BY <1>8, <1>9, <1>10, <2>1, <2>2 DEF S
<1>13. one \in Seq(Nat) /\ Len(one) = 1 /\ one[1] = p /\ 1 \in 1 .. Len(one)
  BY <1>9, <1>11
<1>14. PICK s : s = one \o r
  OBVIOUS
<1>15. /\ s \in Seq(Nat) /\ Len(s) = Len(one) + Len(r) /\ \A i \in 1 .. Len(one) : s[i] = one[i]
       /\ Len(r) \in Nat /\ DOMAIN s = 1 .. Len(s)
  <2>1. /\ s \in Seq(Nat) /\ Len(s) = Len(one) + Len(r) /\ \A i \in 1 .. Len(one) : s[i] = one[i]
    BY ONLY <1>12, <1>13, <1>14, Concat
  <2> QED
    BY <1>12, <2>1, LenProperties
<1>16. s[1] = p /\ 1 \in DOMAIN s /\ \A i \in DOMAIN s : i \in Nat /\ 1 <= i
  BY <1>13, <1>15
<1> QED
  BY <1>2, <1>12, <1>14, <1>15, <1>16

Matches ==
  [pid : Nat, harness : {"claude", "pi", "codex"}, ancestors : SUBSET Nat, comm_is_binary : BOOLEAN,
   excluded : BOOLEAN]
ScanJobs ==
  [on : BOOLEAN, due : SUBSET (1 .. Len(v1)), read : SUBSET Nat, matches : SUBSET Matches, found : SUBSET Nat,
   quiet : BOOLEAN, exits : Nat]

\* The processes of the table, and those that live.
LEMMA AliveKnown ==
  ASSUME ProcsSound
  PROVE  /\ Len(v1) \in Nat /\ DOMAIN v1 = 1 .. Len(v1)
         /\ \A p \in 1 .. Len(v1) : v1[p] \in Processes
         /\ \A p \in Scan!Alive : p \in 1 .. Len(v1) /\ p \in Nat /\ v1[p].alive /\ v1[p].kind \in KindNames
<1>1. v1 \in Seq(Processes)
  BY DEF ProcsSound
<1>2. Len(v1) \in Nat /\ DOMAIN v1 = 1 .. Len(v1)
  BY <1>1, LenProperties
<1>3. \A p \in 1 .. Len(v1) : v1[p] \in Processes
  BY <1>1, ElementOfSeq
<1>4. \A p \in Scan!Alive : p \in 1 .. Len(v1) /\ v1[p].alive
  BY <1>2 DEF Scan!Alive
<1> QED
  BY <1>2, <1>3, <1>4 DEF Processes

\* A match tells what the process is, and has its parent among its ancestors.
HarnessName == <<"claude", "pi", "codex">>
MatchTrue(m) ==
  /\ m.pid \in Scan!Alive /\ HarnessOf(v1[m.pid].kind) # 0 /\ m.harness = HarnessName[HarnessOf(v1[m.pid].kind)]
  /\ m.comm_is_binary <=> IsBinary(v1[m.pid].kind)
  /\ m.excluded <=> IsOut(v1[m.pid].kind)
  /\ v1[m.pid].parent # 0 => v1[m.pid].parent \in m.ancestors
  /\ \A q \in m.ancestors : MayBeAbove(q, m.pid)

\* A process of a harness gives one match, which is true of it; another gives none.
LEMMA Detects ==
  ASSUME ProcsSound, NEW p \in Scan!Alive, NEW set, set = Scan!DetectAgentProcess(p)
  PROVE  /\ HarnessOf(v1[p].kind) = 0 => set = {}
         /\ HarnessOf(v1[p].kind) # 0 => \E m \in Matches : set = {m} /\ m.pid = p /\ MatchTrue(m)
<1>1. p \in 1 .. Len(v1) /\ p \in Nat /\ v1[p] \in Processes /\ v1[p].kind \in KindNames
  BY AliveKnown
<1>2. PICK shown : shown = Scan!Kinds[v1[p].kind]
  OBVIOUS
<1>3. CASE HarnessOf(v1[p].kind) = 0
  BY <1>1, <1>2, <1>3, KindMatches DEF Scan!DetectAgentProcess
<1>4. CASE HarnessOf(v1[p].kind) # 0
  <2>1. PICK h \in {1, 2, 3} : h = HarnessOf(v1[p].kind)
    BY <1>1, <1>4 DEF HarnessOf, KindNames
  <2>2. Scan!Matching(shown) = {h}
    BY <1>1, <1>2, <1>4, <2>1, KindMatches
  <2>3. (CHOOSE i \in Scan!Matching(shown) : \A j \in Scan!Matching(shown) : i <= j) = h
    <3>1. \A i \in {h} : i = h /\ (\A j \in {h} : i <= j)
      OBVIOUS
    <3> QED
      BY <2>2, <3>1
  <2>4. PICK d : d = Scan!BuiltinHarnesses[h]
    OBVIOUS
  <2>5. (shown.comm = d.binary <=> IsBinary(v1[p].kind)) /\ (Scan!IsExcluded(shown, d) <=> IsOut(v1[p].kind))
    BY <1>1, <1>2, <1>4, <2>1, <2>4, KindShown
  <2>6. d.id = HarnessName[h] /\ d.id \in {"claude", "pi", "codex"}
    BY <2>1, <2>4, HarnessTable DEF HarnessName
  <2>7. PICK anc : anc = Scan!Ancestors[p]
    OBVIOUS
  <2>8. (v1[p].parent # 0 => v1[p].parent \in anc) /\ (\A q \in anc : MayBeAbove(q, p))
    BY <1>1, <2>7, AncestorsKnown
  <2>9. anc \in SUBSET Nat
    BY <2>8 DEF MayBeAbove
  <2>10. PICK isb, isx : isb = (shown.comm = d.binary) /\ isx = Scan!IsExcluded(shown, d)
    OBVIOUS
  <2>11. isb \in BOOLEAN /\ isx \in BOOLEAN
    BY <2>10 DEF Scan!IsExcluded
  <2>12. PICK m : m = [pid |-> p, harness |-> d.id, ancestors |-> anc, comm_is_binary |-> isb, excluded |-> isx]
    OBVIOUS
  <2>13. set = {m}
    BY <1>2, <2>2, <2>3, <2>4, <2>7, <2>10, <2>12 DEF Scan!DetectAgentProcess
  <2>14. m \in Matches
    BY <1>1, <2>6, <2>9, <2>11, <2>12 DEF Matches
  <2>15. m.pid = p /\ m.harness = HarnessName[h] /\ m.ancestors = anc
         /\ (m.comm_is_binary <=> IsBinary(v1[p].kind)) /\ (m.excluded <=> IsOut(v1[p].kind))
    BY <2>5, <2>6, <2>10, <2>12
  <2>16. MatchTrue(m)
    BY <1>4, <2>1, <2>8, <2>15 DEF MatchTrue
  <2> QED
    BY <1>4, <2>13, <2>14, <2>15, <2>16
<1> QED
  BY <1>3, <1>4

\* Of a scan that has read every process, what is left is the sessions.
LEMMA SessionsAreLeft ==
  ASSUME ProcsSound, NEW matches, \A m \in matches : MatchTrue(m),
         \A p \in Scan!Alive : HarnessOf(v1[p].kind) # 0 => \E m \in matches : m.pid = p,
         Scan!Settled
  PROVE  {m.pid : m \in Scan!DedupeWrapperChains(matches)} = Scan!Sessions
<1>1. \A p \in Scan!Alive : p \in 1 .. Len(v1) /\ v1[p].alive /\ v1[p].kind \in KindNames
  BY AliveKnown
<1>2. HarnessName[1] = "claude" /\ HarnessName[2] = "pi" /\ HarnessName[3] = "codex"
  BY DEF HarnessName
<1>3. ASSUME NEW b \in Scan!DedupeWrapperChains(matches)  PROVE b.pid \in Scan!Sessions
  <2>1. b \in matches /\ ~ b.excluded /\ MatchTrue(b) /\ b.pid \in Scan!Alive
    BY <1>3 DEF Scan!DedupeWrapperChains, MatchTrue
  <2>2. \A a \in matches : ~ (a # b /\ Scan!Supersedes(a, b))
    BY <1>3 DEF Scan!DedupeWrapperChains
  <2>3. v1[b.pid].kind \notin {"shell", "amp", "appserver", "bwrap", "sandbox"}
    BY <2>1 DEF MatchTrue, HarnessOf, IsOut
  <2>4. v1[b.pid].kind \notin {"wrapper", "appwrapper"}
    <3> SUFFICES ASSUME v1[b.pid].kind \in {"wrapper", "appwrapper"}  PROVE FALSE
      OBVIOUS
    <3>1. PICK q \in Scan!Alive : v1[q].parent = b.pid /\ Scan!SameLaunch(v1[b.pid].kind, v1[q].kind)
      BY <2>1 DEF Scan!Settled
    <3>2. v1[q].kind \in {"codex", "appserver"}
      BY <3>1 DEF Scan!SameLaunch
    <3>3. PICK a \in matches : a.pid = q /\ MatchTrue(a)
      BY <3>1, <3>2 DEF HarnessOf
    <3>4. a.harness = "codex" /\ a.comm_is_binary
      BY <1>2, <3>2, <3>3 DEF MatchTrue, HarnessOf, IsBinary
    <3>5. b.harness = "codex" /\ ~ b.comm_is_binary
      BY <1>2, <2>1 DEF MatchTrue, HarnessOf, IsBinary
    <3>6. b.pid # 0
      BY <1>1, <2>1
    <3>7. b.pid \in a.ancestors
      BY <3>1, <3>3, <3>6 DEF MatchTrue
    <3> QED
      BY <2>2, <3>4, <3>5, <3>7 DEF Scan!Supersedes, Scan!Related
  <2> QED
    BY <1>1, <2>1, <2>3, <2>4 DEF Scan!Sessions, KindNames
<1>4. ASSUME NEW p \in Scan!Sessions  PROVE \E b \in Scan!DedupeWrapperChains(matches) : b.pid = p
  <2>1. p \in Scan!Alive /\ v1[p].kind \in {"claude", "teammate", "pi", "codex"}
    BY <1>4 DEF Scan!Sessions
  <2>2. PICK b \in matches : b.pid = p /\ MatchTrue(b)
    BY <2>1 DEF HarnessOf
  <2>3. ~ b.excluded
    BY <2>1, <2>2 DEF MatchTrue, IsOut
  <2>4. ASSUME NEW a \in matches, a # b, Scan!Supersedes(a, b)  PROVE FALSE
    <3>1. MatchTrue(a) /\ a.harness = b.harness /\ a.comm_is_binary /\ ~ b.comm_is_binary
          /\ (a.pid \in b.ancestors \/ b.pid \in a.ancestors)
      BY <2>4 DEF Scan!Supersedes, Scan!Related
    <3>2. v1[p].kind \in {"teammate", "pi"}
      BY <2>1, <2>2, <3>1 DEF MatchTrue, IsBinary
    <3>3. a.pid \in Scan!Alive /\ v1[a.pid].kind \in KindNames /\ IsBinary(v1[a.pid].kind)
      BY <1>1, <3>1 DEF MatchTrue
    <3>4. CASE v1[p].kind = "pi"
      <4>1. b.harness = "pi"
        BY <1>2, <2>2, <3>4 DEF MatchTrue, HarnessOf
      <4>2. a.harness # "pi"
        BY <1>2, <3>1, <3>3 DEF MatchTrue, HarnessOf, IsBinary
      <4> QED
        BY <3>1, <4>1, <4>2
    <3>5. CASE v1[p].kind = "teammate"
      <4>1. b.harness = "claude"
        BY <1>2, <2>2, <3>5 DEF MatchTrue, HarnessOf
      <4>2. v1[a.pid].kind = "claude"
        BY <1>2, <3>1, <3>3, <4>1 DEF MatchTrue, HarnessOf, IsBinary
      <4>3. a.pid \notin b.ancestors
        BY <2>2, <3>5, <4>2 DEF MatchTrue, MayBeAbove
      <4>4. b.pid \notin a.ancestors
        BY <2>2, <3>1, <3>5 DEF MatchTrue, MayBeAbove
      <4> QED
        BY <3>1, <4>3, <4>4
    <3> QED
      BY <3>2, <3>4, <3>5
  <2> QED
    BY <2>2, <2>3, <2>4 DEF Scan!DedupeWrapperChains
<1> QED
  BY <1>3, <1>4

\* While nothing starts or exits beside it, the scan has a true match of each process it
\* has read that is an agent's; and what it has found is the sessions.
ScanTrue(s) ==
  /\ \A m \in s.matches : MatchTrue(m)
  /\ \A p \in s.read : p \in Scan!Alive /\ HarnessOf(v1[p].kind) # 0 => \E m \in s.matches : m.pid = p
ScanInv ==
  /\ ProcsSound /\ v2 \in ScanJobs
  /\ v2.on /\ v2.quiet => v2.due = Scan!Alive /\ ScanTrue(v2)
  /\ ~ v2.on /\ v2.quiet /\ v2.found # {} /\ Scan!Settled => v2.found = Scan!Sessions

\* One shell, and no scan yet.
LEMMA ScanInit == Scan!Init => ScanInv
<1> SUFFICES ASSUME Scan!Init  PROVE ScanInv
  OBVIOUS
<1>1. PICK p : p = [kind |-> "shell", parent |-> 0, launch |-> 0, alive |-> TRUE]
  OBVIOUS
<1>2. p \in Processes
  BY <1>1 DEF Processes, KindNames
<1>3. v1 = <<p>> /\ v1 \in Seq(Processes) /\ Len(v1) = 1 /\ v1[1] = p
  BY <1>1, <1>2 DEF Scan!Init
<1>4. ProcsSound
  BY <1>1, <1>3 DEF ProcsSound, ParentsOlder, StartersOnly
<1>5. /\ v2 = [on |-> FALSE, due |-> {}, read |-> {}, matches |-> {}, found |-> {}, quiet |-> TRUE, exits |-> 0]
      /\ v2 \in ScanJobs
  BY DEF Scan!Init, ScanJobs
<1> QED
  BY <1>4, <1>5 DEF ScanInv

\* A process starts.
LEMMA ScanStart == ScanInv /\ Scan!Start => ScanInv'
<1> SUFFICES ASSUME ScanInv, Scan!Start  PROVE ScanInv'
  OBVIOUS
<1>1. ProcsSound /\ v2 \in ScanJobs
  BY SMTT(30) DEF ScanInv
<1>2. PICK L \in Nat : L = Len(v1) /\ DOMAIN v1 = 1 .. L /\ v1 \in Seq(Processes)
  BY <1>1, AliveKnown DEF ProcsSound
<1>3. PICK p \in Scan!Alive, kind \in DOMAIN Scan!Kinds :
        /\ <<v1[p].kind, kind>> \in Scan!Starts
        /\ v1' = Append(v1, [kind |-> kind, parent |-> p, alive |-> TRUE,
                             launch |-> IF Scan!SameLaunch(v1[p].kind, kind) THEN v1[p].launch ELSE Len(v1) + 1])
  BY DEF Scan!Start
<1>4. p \in 1 .. L /\ v1[p] \in Processes /\ p \in Nat /\ v1[p].launch \in Nat /\ L + 1 \in Nat
  BY <1>1, <1>2, AliveKnown DEF Processes
<1>5. PICK launch \in Nat : launch = IF Scan!SameLaunch(v1[p].kind, kind) THEN v1[p].launch ELSE Len(v1) + 1
  BY <1>2, <1>4
<1>6. PICK new : new = [kind |-> kind, parent |-> p, alive |-> TRUE, launch |-> launch]
  OBVIOUS
<1>7. kind \in KindNames
  BY <1>3 DEF Scan!Starts, KindNames
<1>8. new \in Processes /\ new.kind = kind /\ new.parent = p
  BY <1>4, <1>6, <1>7 DEF Processes
<1>9. v1' = Append(v1, new)
  BY <1>3, <1>5, <1>6
<1>10. /\ v1' \in Seq(Processes) /\ Len(v1') = L + 1 /\ v1'[L + 1] = new
       /\ \A q \in 1 .. L : v1'[q] = v1[q]
  BY <1>2, <1>8, <1>9, AppendProperties
<1>11. \A q \in 1 .. L : v1[q].parent \in 0 .. q - 1
  BY <1>1, <1>2 DEF ProcsSound, ParentsOlder
<1>12. \A q \in 1 .. L : v1[q].parent # 0 => <<v1[v1[q].parent].kind, v1[q].kind>> \in Scan!Starts
  BY <1>1, <1>2 DEF ProcsSound, StartersOnly
<1>13. \A q \in 1 .. L + 1 : q \in 1 .. L \/ q = L + 1
  BY <1>2
<1>14. ASSUME NEW q \in 1 .. L + 1  PROVE v1'[q].parent \in 0 .. q - 1
  BY <1>4, <1>8, <1>10, <1>11, <1>13
<1>15. ASSUME NEW q \in 1 .. L + 1, v1'[q].parent # 0
       PROVE  <<v1'[v1'[q].parent].kind, v1'[q].kind>> \in Scan!Starts
  <2>1. CASE q = L + 1
    BY <1>3, <1>4, <1>8, <1>10, <2>1
  <2>2. CASE q \in 1 .. L
    <3>1. v1'[q] = v1[q]
      BY <1>10, <2>2
    <3>2. v1[q].parent # 0 /\ v1[q].parent \in 1 .. L
      BY <1>11, <1>15, <2>2, <3>1
    <3>3. v1'[v1[q].parent] = v1[v1[q].parent]
      BY <1>10, <3>2
    <3>4. <<v1[v1[q].parent].kind, v1[q].kind>> \in Scan!Starts
      BY <1>12, <2>2, <3>2
    <3> QED
      BY <3>1, <3>3, <3>4
  <2> QED
    BY <1>13, <2>1, <2>2
<1>16. ProcsSound'
  BY <1>10, <1>14, <1>15 DEF ProcsSound, ParentsOlder, StartersOnly, Scan!Starts
<1>17. v2' = [v2 EXCEPT !.quiet = FALSE]
  BY DEF Scan!Start
<1>18. 1 .. L \subseteq 1 .. L + 1
  BY <1>2
<1>19. v2' \in [on : BOOLEAN, due : SUBSET (1 .. L + 1), read : SUBSET Nat, matches : SUBSET Matches, found : SUBSET Nat,
                quiet : BOOLEAN, exits : Nat] /\ ~ v2'.quiet
  BY <1>1, <1>2, <1>17, <1>18 DEF ScanJobs
<1>20. v2' \in ScanJobs'
  BY <1>10, <1>19 DEF ScanJobs, Matches
<1> QED
  BY <1>16, <1>19, <1>20 DEF ScanInv

\* A process exits; its children are no one's.
LEMMA ScanExit == ScanInv /\ Scan!Exit => ScanInv'
<1> SUFFICES ASSUME ScanInv, Scan!Exit  PROVE ScanInv'
  OBVIOUS
<1>1. ProcsSound /\ v2 \in ScanJobs /\ v2.exits \in Nat
  BY SMTT(30) DEF ScanInv, ScanJobs
<1>2. PICK L \in Nat : L = Len(v1) /\ DOMAIN v1 = 1 .. L /\ v1 \in Seq(Processes)
                       /\ (\A q \in 1 .. L : v1[q] \in Processes)
  BY <1>1, AliveKnown DEF ProcsSound
<1>3. PICK p : v1' = [q \in 1 .. L |-> [v1[q] EXCEPT !.alive = @ /\ q # p, !.parent = IF @ = p THEN 0 ELSE @]]
  <2>1. PICK p \in Scan!Alive \ {1} : v1' = [q \in DOMAIN v1 |-> [v1[q] EXCEPT !.alive = @ /\ q # p,
                                                                     !.parent = IF @ = p THEN 0 ELSE @]]
    BY DEF Scan!Exit
  <2> QED
    BY <1>2, <2>1
<1>4. ASSUME NEW q \in 1 .. L
      PROVE  v1'[q] \in Processes /\ v1'[q].kind = v1[q].kind /\ v1'[q].parent \in {0, v1[q].parent}
  <2>1. PICK alive \in BOOLEAN : alive = (v1[q].alive /\ q # p)
    OBVIOUS
  <2>2. PICK parent \in Nat : parent = IF v1[q].parent = p THEN 0 ELSE v1[q].parent
    BY <1>2 DEF Processes
  <2>3. v1'[q] = [v1[q] EXCEPT !.alive = alive, !.parent = parent]
    BY <1>2, <1>3, <2>1, <2>2 DEF Processes
  <2> QED
    BY <1>2, <2>1, <2>2, <2>3 DEF Processes
<1>5. v1' \in Seq(Processes) /\ Len(v1') = L
  <2>1. PICK s : s = v1'
    OBVIOUS
  <2>2. s \in [1 .. L -> Processes]
    BY <1>3, <1>4, <2>1
  <2>3. s \in Seq(Processes)
    BY <2>2, SeqDef
  <2>4. DOMAIN s = 1 .. L /\ Len(s) \in Nat /\ DOMAIN s = 1 .. Len(s)
    BY <2>2, <2>3, LenProperties
  <2>5. Len(s) = L
    BY <2>4
  <2> QED
    BY <2>1, <2>3, <2>5
<1>6. \A q \in 1 .. L : v1[q].parent \in 0 .. q - 1
  BY <1>1, <1>2 DEF ProcsSound, ParentsOlder
<1>7. \A q \in 1 .. L : v1[q].parent # 0 => <<v1[v1[q].parent].kind, v1[q].kind>> \in Scan!Starts
  BY <1>1, <1>2 DEF ProcsSound, StartersOnly
<1>8. ASSUME NEW q \in 1 .. L  PROVE v1'[q].parent \in 0 .. q - 1
  BY <1>4, <1>6
<1>9. ASSUME NEW q \in 1 .. L, v1'[q].parent # 0
      PROVE  <<v1'[v1'[q].parent].kind, v1'[q].kind>> \in Scan!Starts
  <2>1. v1'[q].parent = v1[q].parent /\ v1[q].parent \in 1 .. L /\ v1'[q].kind = v1[q].kind
    BY <1>4, <1>6, <1>9
  <2>2. v1'[v1[q].parent].kind = v1[v1[q].parent].kind
    BY <1>4, <2>1
  <2> QED
    BY <1>7, <2>1, <2>2
<1>10. ProcsSound'
  BY <1>5, <1>8, <1>9 DEF ProcsSound, ParentsOlder, StartersOnly, Scan!Starts
<1>11. v2' = [v2 EXCEPT !.quiet = FALSE, !.exits = v2.exits + 1]
  BY <1>1 DEF Scan!Exit, ScanJobs
<1>12. v2' \in ScanJobs /\ ~ v2'.quiet
  <2>1. v2.exits + 1 \in Nat
    BY <1>1
  <2> QED
    BY <1>1, <1>11, <2>1 DEF ScanJobs
<1>13. v2' \in ScanJobs'
  BY <1>2, <1>5, <1>12 DEF ScanJobs, Matches
<1> QED
  BY <1>10, <1>12, <1>13 DEF ScanInv

\* The table stays as it is while the scan goes on.
LEMMA TableStays ==
  ASSUME v1' = v1
  PROVE  /\ ProcsSound => ProcsSound'
         /\ ScanJobs' = ScanJobs /\ Scan!Alive' = Scan!Alive /\ Scan!Sessions' = Scan!Sessions
         /\ Scan!Settled' <=> Scan!Settled
         /\ \A m : MatchTrue(m)' <=> MatchTrue(m)
<1>1. ProcsSound => ProcsSound'
  BY DEF ProcsSound, ParentsOlder, StartersOnly, Scan!Starts
<1>2. ScanJobs' = ScanJobs
  BY DEF ScanJobs, Matches
<1>3. Scan!Alive' = Scan!Alive /\ Scan!Sessions' = Scan!Sessions
  BY DEF Scan!Alive, Scan!Sessions
<1>4. Scan!Settled' <=> Scan!Settled
  BY DEF Scan!Settled, Scan!Alive, Scan!SameLaunch
<1>5. \A m : MatchTrue(m)' <=> MatchTrue(m)
  BY DEF MatchTrue, MayBeAbove, Scan!Alive, HarnessOf, HarnessName, IsBinary, IsOut
<1> QED
  BY <1>1, <1>2, <1>3, <1>4, <1>5

\* The steps of the scan itself: the table stays, and the invariant is about the scan's record.
LEMMA ScanStays ==
  ASSUME ScanInv, v1' = v1, v2' \in ScanJobs,
         v2'.on /\ v2'.quiet => v2'.due = Scan!Alive /\ ScanTrue(v2'),
         ~ v2'.on /\ v2'.quiet /\ v2'.found # {} /\ Scan!Settled => v2'.found = Scan!Sessions
  PROVE  ScanInv'
<1>1. /\ ProcsSound' /\ ScanJobs' = ScanJobs /\ Scan!Alive' = Scan!Alive /\ Scan!Sessions' = Scan!Sessions
      /\ Scan!Settled' <=> Scan!Settled
      /\ \A m : MatchTrue(m)' <=> MatchTrue(m)
  BY TableStays DEF ScanInv
<1>2. ScanTrue(v2') => ScanTrue(v2)'
  <2> SUFFICES ASSUME ScanTrue(v2')  PROVE ScanTrue(v2)'
    OBVIOUS
  <2>1. \A m \in v2'.matches : MatchTrue(m)'
    BY <1>1 DEF ScanTrue
  <2>2. \A p \in v2'.read : p \in Scan!Alive' /\ HarnessOf(v1'[p].kind) # 0 => \E m \in v2'.matches : m.pid = p
    BY <1>1 DEF ScanTrue
  <2> QED
    BY <2>1, <2>2 DEF ScanTrue, HarnessOf
<1> QED
  BY <1>1, <1>2 DEF ScanInv

\* A scan starts, with the processes that live due.
LEMMA ScanBegins == ScanInv /\ Scan!ScanStarts => ScanInv'
<1> SUFFICES ASSUME ScanInv, Scan!ScanStarts  PROVE ScanInv'
  OBVIOUS
<1>1. ProcsSound /\ v2 \in ScanJobs
  BY DEF ScanInv
<1>2. v1' = v1 /\ v2' = [v2 EXCEPT !.on = TRUE, !.due = Scan!Alive, !.read = {}, !.matches = {}, !.found = {},
                                   !.quiet = TRUE]
  BY DEF Scan!ScanStarts
<1>3. Scan!Alive \in SUBSET (1 .. Len(v1))
  BY <1>1, AliveKnown
<1>4. v2' \in ScanJobs /\ v2'.on /\ v2'.due = Scan!Alive /\ v2'.read = {} /\ v2'.matches = {}
  BY <1>1, <1>2, <1>3 DEF ScanJobs
<1>5. ScanTrue(v2')
  BY <1>4 DEF ScanTrue
<1> QED
  BY <1>2, <1>4, <1>5, ScanStays

\* It reads a process, dead or alive.
LEMMA ScanGoesOn == ScanInv /\ Scan!ScanReads => ScanInv'
<1> SUFFICES ASSUME ScanInv, Scan!ScanReads  PROVE ScanInv'
  OBVIOUS
<1>1. ProcsSound /\ v2 \in ScanJobs /\ v2.read \in SUBSET Nat /\ v2.matches \in SUBSET Matches /\ v2.on
      /\ v2.due \in SUBSET (1 .. Len(v1)) /\ v1' = v1
  BY DEF ScanInv, ScanJobs, Scan!ScanReads
<1>2. PICK p \in (v2.due \cup Scan!Alive) :
        v2' = [v2 EXCEPT !.read = @ \cup {p},
                         !.matches = @ \cup (IF v1[p].alive THEN Scan!DetectAgentProcess(p) ELSE {})]
  BY DEF Scan!ScanReads
<1>3. p \in 1 .. Len(v1) /\ p \in Nat /\ (v1[p].alive <=> p \in Scan!Alive)
  <2>1. DOMAIN v1 = 1 .. Len(v1) /\ Len(v1) \in Nat /\ Scan!Alive \subseteq 1 .. Len(v1)
    BY <1>1, AliveKnown
  <2>2. p \in 1 .. Len(v1)
    BY <1>1, <1>2, <2>1
  <2> QED
    BY <2>1, <2>2 DEF Scan!Alive
<1>4. PICK new : new = IF v1[p].alive THEN Scan!DetectAgentProcess(p) ELSE {}
  OBVIOUS
<1>5. /\ new \in SUBSET Matches /\ (\A m \in new : MatchTrue(m))
      /\ p \in Scan!Alive /\ HarnessOf(v1[p].kind) # 0 => \E m \in new : m.pid = p
  <2>1. CASE p \in Scan!Alive
    <3>1. new = Scan!DetectAgentProcess(p)
      BY <1>3, <1>4, <2>1
    <3> QED
      BY <1>1, <2>1, <3>1, Detects
  <2>2. CASE p \notin Scan!Alive
    BY <1>3, <1>4, <2>2
  <2> QED
    BY <2>1, <2>2
<1>6. PICK read, matches : read = v2.read \cup {p} /\ matches = v2.matches \cup new
  OBVIOUS
<1>7. v2' = [v2 EXCEPT !.read = read, !.matches = matches]
  BY <1>1, <1>2, <1>4, <1>6 DEF ScanJobs
<1>8. read \in SUBSET Nat /\ matches \in SUBSET Matches
  BY <1>1, <1>3, <1>5, <1>6
<1>9. /\ v2' \in ScanJobs /\ v2'.on /\ v2'.due = v2.due /\ v2'.quiet = v2.quiet
      /\ v2'.read = read /\ v2'.matches = matches
  BY <1>1, <1>7, <1>8 DEF ScanJobs
<1>10. ASSUME v2.quiet  PROVE v2.due = Scan!Alive /\ ScanTrue(v2')
  <2>1. v2.due = Scan!Alive /\ ScanTrue(v2)
    BY <1>1, <1>10 DEF ScanInv
  <2>2. \A m \in matches : MatchTrue(m)
    BY <1>5, <1>6, <2>1 DEF ScanTrue
  <2>3. \A q \in read : q \in Scan!Alive /\ HarnessOf(v1[q].kind) # 0 => \E m \in matches : m.pid = q
    BY <1>5, <1>6, <2>1 DEF ScanTrue
  <2> QED
    BY <1>9, <2>1, <2>2, <2>3 DEF ScanTrue
<1> QED
  BY <1>1, <1>9, <1>10, ScanStays

\* It ends when it has read what was due.
LEMMA ScanFinds == ScanInv /\ Scan!ScanEnds => ScanInv'
<1> SUFFICES ASSUME ScanInv, Scan!ScanEnds  PROVE ScanInv'
  OBVIOUS
<1>1. ProcsSound /\ v2 \in ScanJobs /\ v2.matches \in SUBSET Matches /\ v2.on /\ v2.due \subseteq v2.read /\ v1' = v1
  BY DEF ScanInv, ScanJobs, Scan!ScanEnds
<1>2. PICK found : found = {m.pid : m \in Scan!DedupeWrapperChains(v2.matches)}
  OBVIOUS
<1>3. v2' = [v2 EXCEPT !.on = FALSE, !.found = found, !.due = {}, !.read = {}, !.matches = {}]
  BY <1>2 DEF Scan!ScanEnds
<1>4. found \in SUBSET Nat
  BY <1>1, <1>2 DEF Scan!DedupeWrapperChains, Matches
<1>5. v2' \in ScanJobs /\ ~ v2'.on /\ v2'.found = found /\ v2'.quiet = v2.quiet
  BY <1>1, <1>3, <1>4 DEF ScanJobs
<1>6. ASSUME v2.quiet, Scan!Settled  PROVE found = Scan!Sessions
  <2>1. v2.due = Scan!Alive /\ ScanTrue(v2)
    BY <1>1, <1>6 DEF ScanInv
  <2>2. \A m \in v2.matches : MatchTrue(m)
    BY <2>1 DEF ScanTrue
  <2>3. \A p \in Scan!Alive : HarnessOf(v1[p].kind) # 0 => \E m \in v2.matches : m.pid = p
    BY <1>1, <2>1 DEF ScanTrue
  <2> QED
    BY <1>1, <1>2, <1>6, <2>2, <2>3, SessionsAreLeft
<1> QED
  BY <1>1, <1>5, <1>6, ScanStays

\* Whatever the step, the scan's invariant stays.
LEMMA ScanKeepsInv == ScanInv /\ [Scan!Next]_<<v1, v2>> => ScanInv'
<1> SUFFICES ASSUME ScanInv, [Scan!Next]_<<v1, v2>>  PROVE ScanInv'
  OBVIOUS
<1>1. CASE v1' = v1 /\ v2' = v2
  <2>1. v2' \in ScanJobs /\ (ScanTrue(v2) <=> ScanTrue(v2'))
    BY <1>1 DEF ScanInv, ScanTrue
  <2> QED
    BY <1>1, <2>1, ScanStays DEF ScanInv
<1> QED
  BY <1>1, ScanStart, ScanExit, ScanBegins, ScanGoesOn, ScanFinds DEF Scan!Next

\* A scan beside which nothing happened lists each session by its own pid, and the hook
\* script names a pid of the same launch.
LEMMA ScanShown == ScanInv => Scan!OneRowPerAgent /\ Scan!HookNamesListed
<1> SUFFICES ASSUME ScanInv  PROVE Scan!OneRowPerAgent /\ Scan!HookNamesListed
  OBVIOUS
<1>1. Scan!OneRowPerAgent
  BY DEF ScanInv, Scan!OneRowPerAgent, Scan!Complete
<1>2. ASSUME Scan!Complete, Scan!Settled, NEW p \in Scan!Sessions
      PROVE  /\ v1[p].kind = "codex" => Scan!FindCodexPid(p) \in Scan!OfLaunch(p)
             /\ v1[p].kind = "claude" /\ Scan!Cardinality(Scan!Named(p, "claude")) = 1 =>
                  Scan!FindClaudePid(p) \in Scan!OfLaunch(p)
  <2>1. p \in v2.found
    BY <1>1, <1>2 DEF Scan!OneRowPerAgent
  <2>2. p \in Scan!OfLaunch(p)
    BY <2>1 DEF Scan!OfLaunch
  <2>3. p \in 1 .. Len(v1)
    BY AliveKnown DEF ScanInv, Scan!Sessions
  <2>4. PICK up : up = Scan!Up[p]
    OBVIOUS
  <2>5. 1 \in DOMAIN up /\ up[1] = p /\ (\A i \in DOMAIN up : i \in Nat /\ 1 <= i)
    BY <2>3, <2>4, UpStarts DEF ScanInv
  <2>6. ASSUME NEW comm, Scan!Kinds[v1[p].kind].comm = comm  PROVE 1 \in Scan!Named(p, comm)
    BY <2>4, <2>5, <2>6 DEF Scan!Named
  <2>7. ASSUME v1[p].kind = "codex"  PROVE Scan!FindCodexPid(p) = p
    <3>1. Scan!Kinds["codex"].comm = "codex"
      BY DEF Scan!Kinds, Scan!Shows
    <3>2. 1 \in Scan!Named(p, "codex")
      BY <2>6, <2>7, <3>1
    <3>3. \A i \in Scan!Named(p, "codex") : i \in Nat /\ 1 <= i
      BY <2>4, <2>5 DEF Scan!Named
    <3>4. (CHOOSE i \in Scan!Named(p, "codex") : \A j \in Scan!Named(p, "codex") : i <= j) = 1
      <4> DEFINE N == Scan!Named(p, "codex")
      <4>1. \A i \in N : (\A j \in N : i <= j) <=> i = 1
        BY <3>2, <3>3
      <4> HIDE DEF N
      <4>2. 1 \in N
        BY <3>2 DEF N
      <4>3. (CHOOSE i \in N : \A j \in N : i <= j) = 1
        BY <4>1, <4>2
      <4> QED
        BY <4>3 DEF N
    <3> QED
      BY <2>4, <2>5, <3>2, <3>4 DEF Scan!FindCodexPid
  <2>8. ASSUME v1[p].kind = "claude", Scan!Cardinality(Scan!Named(p, "claude")) = 1  PROVE Scan!FindClaudePid(p) = p
    <3>1. Scan!Kinds["claude"].comm = "claude"
      BY DEF Scan!Kinds, Scan!Shows
    <3>2. 1 \in Scan!Named(p, "claude")
      BY <2>6, <2>8, <3>1
    <3>3. PICK named : named = Scan!Named(p, "claude")
      OBVIOUS
    <3>4. IsFiniteSet(named)
      <4>1. PICK n \in Nat : DOMAIN up = 1 .. n
        BY <2>3, <2>4, UpStarts, LenProperties DEF ScanInv
      <4>2. named \subseteq 1 .. n
        BY <2>4, <3>3, <4>1 DEF Scan!Named
      <4>3. IsFiniteSet(1 .. n)
        BY <4>1, FS_Interval
      <4> QED
        BY <4>2, <4>3, FS_Subset
    <3>5. PICK i : named = {i}
      <4>1. Scan!Cardinality(named) = Cardinality(named)
        BY DEF Scan!Cardinality, Cardinality
      <4> QED
        BY <2>8, <3>3, <3>4, <4>1, FS_Singleton
    <3>6. named = {1}
      BY <3>2, <3>3, <3>5
    <3>7. (CHOOSE k \in named : \A j \in named : j <= k) = 1
      BY <3>6
    <3> QED
      BY <2>4, <2>5, <3>2, <3>3, <3>7 DEF Scan!FindClaudePid
  <2> QED
    BY <2>2, <2>7, <2>8
<1>3. Scan!HookNamesListed
  <2> SUFFICES ASSUME Scan!Complete, Scan!Settled
               PROVE  \A p \in Scan!Sessions :
                        /\ v1[p].kind = "codex" => Scan!FindCodexPid(p) \in Scan!OfLaunch(p)
                        /\ v1[p].kind = "claude" /\ Scan!Cardinality(Scan!Named(p, "claude")) = 1 =>
                             Scan!FindClaudePid(p) \in Scan!OfLaunch(p)
    BY DEF Scan!HookNamesListed
  <2> QED
    BY <1>2
<1> QED
  BY <1>1, <1>3

-----------------------------------------------------------------------------
(* KeyInput.  Its variables are v1 (the state between keys), v5 (the action of
   the last word), v7 (its keys), v8 (the keys since), and the modes.        *)

KeyDigits == {Key!Plain("0"), Key!Plain("1"), Key!Plain("3")}

\* The number that a run of digits spells up to each of its digits.
Spells(f, ds) ==
  f[0] = 0 /\ \A i \in 1 .. Len(ds) : f[i] = f[i - 1] * 10 + Key!DigitOf(ds[i])

\* Digits are digits, and worth a natural.
LEMMA DigitsCount == \A k \in KeyDigits : Key!IsDigit(k) /\ Key!DigitOf(k) \in 0 .. 3
BY DEF KeyDigits, Key!Plain, Key!IsDigit, Key!DigitOf

\* There is one such function: the recursion reaches each digit in turn.
LEMMA NumberSpelt ==
  ASSUME NEW ds \in Seq(KeyDigits)
  PROVE  \E f \in [0 .. Len(ds) -> Nat] : Spells(f, ds) /\ Key!Number(ds) = f[Len(ds)]
<1>1. Len(ds) \in Nat /\ \A i \in 1 .. Len(ds) : Key!DigitOf(ds[i]) \in Nat
  BY DigitsCount, LenProperties, ElementOfSeq
<1>2. PICK m \in Nat : m = Len(ds)
  BY <1>1
<1>3. PICK d : d = [i \in 1 .. m |-> Key!DigitOf(ds[i])]
  OBVIOUS
<1>4. \A i \in 1 .. m : d[i] \in Nat /\ d[i] = Key!DigitOf(ds[i])
  BY <1>1, <1>2, <1>3
<1> DEFINE Upto(f, n) == f[0] = 0 /\ \A i \in 1 .. n : f[i] = f[i - 1] * 10 + d[i]
           Spelt(n) == \E f \in [0 .. n -> Nat] : Upto(f, n)
           S == {n \in Nat : n <= m => Spelt(n)}
<1> HIDE DEF Spelt
<1>5. Spelt(m)
  <2>1. 0 \in S
    <3>1. [i \in 0 .. 0 |-> 0] \in [0 .. 0 -> Nat] /\ Upto([i \in 0 .. 0 |-> 0], 0)
      OBVIOUS
    <3> QED
      BY <3>1 DEF Spelt
  <2>2. ASSUME NEW n \in Nat, n \in S  PROVE n + 1 \in S
    <3> SUFFICES ASSUME n + 1 <= m  PROVE Spelt(n + 1)
      OBVIOUS
    <3>1. PICK f \in [0 .. n -> Nat] : Upto(f, n)
      BY <2>2 DEF Spelt
    <3>2. PICK g : g = [i \in 0 .. n + 1 |-> IF i = n + 1 THEN f[n] * 10 + d[n + 1] ELSE f[i]]
      OBVIOUS
    <3>3. d[n + 1] \in Nat /\ f[n] \in Nat
      BY <1>4
    <3>4. f[n] * 10 + d[n + 1] \in Nat
      BY <3>3
    <3>5. g \in [0 .. n + 1 -> Nat]
      BY <3>2, <3>4
    <3>6. g[0] = 0 /\ g[n + 1] = f[n] * 10 + d[n + 1] /\ \A i \in 0 .. n : g[i] = f[i]
      BY <3>1, <3>2
    <3>7. ASSUME NEW i \in 1 .. n + 1  PROVE g[i] = g[i - 1] * 10 + d[i]
      <4>1. CASE i = n + 1
        BY <3>6, <4>1
      <4>2. CASE i # n + 1
        <5>1. i \in 1 .. n /\ i - 1 \in 0 .. n /\ i \in 0 .. n
          BY <4>2
        <5> QED
          BY <3>1, <3>6, <5>1
      <4> QED
        BY <4>1, <4>2
    <3>8. Upto(g, n + 1)
      BY <3>6, <3>7
    <3> QED
      BY <3>5, <3>8 DEF Spelt
  <2> HIDE DEF S
  <2>3. Nat \subseteq S
    BY <2>1, <2>2, SetInduction
  <2> QED
    BY <2>3 DEF S
<1>6. PICK f \in [0 .. m -> Nat] : Upto(f, m)
  BY <1>5 DEF Spelt
<1> HIDE DEF Upto
<1> DEFINE Rec(g) == g = [i \in 0 .. m |-> IF i = 0 THEN 0 ELSE g[i - 1] * 10 + Key!DigitOf(ds[i])]
<1>7. Rec(f)
  <2>1. \A i \in 0 .. m : f[i] = IF i = 0 THEN 0 ELSE f[i - 1] * 10 + Key!DigitOf(ds[i])
    BY <1>4, <1>6 DEF Upto
  <2> QED
    BY <2>1
<1>8. PICK u : u = CHOOSE g : Rec(g)
  OBVIOUS
<1>9. Rec(u)
  BY <1>7, <1>8
<1>10. Key!Number(ds) = u[m]
  BY <1>2, <1>8 DEF Key!Number
<1>11. u[0] = 0 /\ \A i \in 1 .. m : u[i] = u[i - 1] * 10 + d[i]
  BY <1>4, <1>9
<1>12. \A i \in 0 .. m : u[i] = f[i]
  <2> DEFINE A == {n \in Nat : n <= m => u[n] = f[n]}
  <2>1. 0 \in A
    BY <1>6, <1>11 DEF Upto
  <2>2. ASSUME NEW n \in Nat, n \in A  PROVE n + 1 \in A
    <3>1. CASE n + 1 <= m
      <4>1. n + 1 \in 1 .. m /\ (n + 1) - 1 = n /\ u[n] = f[n]
        BY <2>2, <3>1
      <4>2. u[n + 1] = u[n] * 10 + d[n + 1] /\ f[n + 1] = f[n] * 10 + d[n + 1]
        BY <1>6, <1>11, <4>1 DEF Upto
      <4> QED
        BY <4>1, <4>2
    <3>2. CASE ~ n + 1 <= m
      BY <3>2
    <3> QED
      BY <3>1, <3>2
  <2> HIDE DEF A
  <2>3. Nat \subseteq A
    BY <2>1, <2>2, SetInduction
  <2> QED
    BY <2>3 DEF A
<1>13. Spells(f, ds)
  BY <1>2, <1>4, <1>6 DEF Spells, Upto
<1> QED
  BY <1>2, <1>6, <1>10, <1>12, <1>13

\* A digit more is worth ten times the number before it, and itself.
LEMMA NumberGrows ==
  ASSUME NEW ds \in Seq(KeyDigits), NEW k \in KeyDigits
  PROVE  /\ Key!Number(ds) \in Nat /\ Key!Number(<<>>) = 0
         /\ Key!Number(Append(ds, k)) = Key!Number(ds) * 10 + Key!DigitOf(k)
<1>1. PICK f \in [0 .. Len(ds) -> Nat] : Spells(f, ds) /\ Key!Number(ds) = f[Len(ds)]
  BY NumberSpelt
<1>2. PICK e : e = Append(ds, k)
  OBVIOUS
<1>3. e \in Seq(KeyDigits) /\ Len(e) = Len(ds) + 1 /\ e[Len(ds) + 1] = k /\ \A i \in 1 .. Len(ds) : e[i] = ds[i]
  BY <1>2, AppendProperties
<1>4. PICK g \in [0 .. Len(e) -> Nat] : Spells(g, e) /\ Key!Number(e) = g[Len(e)]
  BY <1>3, NumberSpelt
<1>5. PICK m \in Nat : m = Len(ds)
  BY LenProperties
<1>6. \A i \in 1 .. m + 1 : g[i] = g[i - 1] * 10 + Key!DigitOf(e[i])
  BY <1>3, <1>4, <1>5 DEF Spells
<1>7. \A i \in 1 .. m : f[i] = f[i - 1] * 10 + Key!DigitOf(ds[i])
  BY <1>1, <1>5 DEF Spells
<1>8. g[m] = f[m]
  <2> DEFINE A == {n \in Nat : n <= m => g[n] = f[n]}
  <2>1. 0 \in A
    BY <1>1, <1>4 DEF Spells
  <2>2. ASSUME NEW n \in Nat, n \in A  PROVE n + 1 \in A
    <3>1. CASE n + 1 <= m
      <4>1. n + 1 \in 1 .. m /\ n + 1 \in 1 .. m + 1 /\ (n + 1) - 1 = n /\ g[n] = f[n]
        BY <2>2, <3>1
      <4>2. e[n + 1] = ds[n + 1]
        BY <1>3, <1>5, <4>1
      <4>3. g[n + 1] = g[n] * 10 + Key!DigitOf(ds[n + 1]) /\ f[n + 1] = f[n] * 10 + Key!DigitOf(ds[n + 1])
        BY <1>6, <1>7, <4>1, <4>2
      <4> QED
        BY <4>1, <4>3
    <3>2. CASE ~ n + 1 <= m
      BY <3>2
    <3> QED
      BY <3>1, <3>2
  <2> HIDE DEF A
  <2>3. Nat \subseteq A
    BY <2>1, <2>2, SetInduction
  <2> QED
    BY <2>3 DEF A
<1>9. g[m + 1] = g[(m + 1) - 1] * 10 + Key!DigitOf(e[m + 1])
  BY <1>6
<1>10. Key!Number(e) = f[m] * 10 + Key!DigitOf(k)
  BY <1>3, <1>4, <1>5, <1>8, <1>9
<1>11. Key!Number(<<>>) = 0
  <2>1. <<>> \in Seq(KeyDigits) /\ Len(<<>>) = 0
    BY EmptySeq
  <2>2. PICK z \in [0 .. 0 -> Nat] : Spells(z, <<>>) /\ Key!Number(<<>>) = z[0]
    BY <2>1, NumberSpelt
  <2> QED
    BY <2>2 DEF Spells
<1> QED
  BY <1>1, <1>2, <1>5, <1>10, <1>11

\* What a run of digits counts: its number, up to the cap.
CountOf(ds) == Key!Capped(Key!Number(ds))

\* The count of a longer run is that of the shorter one, capped as it was, and the digit.
LEMMA CountGrows ==
  ASSUME NEW ds \in Seq(KeyDigits), NEW k \in KeyDigits
  PROVE  /\ CountOf(ds) \in Nat /\ CountOf(<<>>) = 0
         /\ CountOf(Append(ds, k)) = Key!Capped(CountOf(ds) * 10 + Key!DigitOf(k))
         /\ Key!DigitOf(k) \in 0 .. 3 /\ CountOf(<<k>>) = Key!DigitOf(k)
         /\ Append(ds, k) \in Seq(KeyDigits)
<1>1. /\ Key!Number(ds) \in Nat /\ Key!Number(<<>>) = 0
      /\ Key!Number(Append(ds, k)) = Key!Number(ds) * 10 + Key!DigitOf(k)
  BY NumberGrows
<1>2. Key!Number(Append(<<>>, k)) = Key!Number(<<>>) * 10 + Key!DigitOf(k) /\ Append(<<>>, k) = <<k>>
  <2>1. PICK none \in Seq(KeyDigits) : none = <<>>
    BY EmptySeq
  <2>2. Key!Number(Append(none, k)) = Key!Number(none) * 10 + Key!DigitOf(k)
    BY NumberGrows
  <2>3. Append(<<>>, k) = <<k>>
    OBVIOUS
  <2> QED
    BY <2>1, <2>2, <2>3
<1>3. MaxCount \in Nat /\ MaxCount >= 3
  BY PartsAssumption
<1>4. Key!DigitOf(k) \in 0 .. 3
  BY DigitsCount
<1>5. PICK n \in Nat : n = Key!Number(ds)
  BY <1>1
<1>6. PICK d \in 0 .. 3 : d = Key!DigitOf(k)
  BY <1>4
<1>7. Key!Capped(n) \in Nat /\ Key!Capped(n * 10 + d) = Key!Capped(Key!Capped(n) * 10 + d)
  BY <1>3 DEF Key!Capped
<1>8. Key!Capped(d) = d /\ Key!Capped(0) = 0 /\ 0 * 10 + d = d
  BY <1>3 DEF Key!Capped
<1>9. Append(ds, k) \in Seq(KeyDigits)
  BY AppendProperties
<1> QED
  BY <1>1, <1>2, <1>5, <1>6, <1>7, <1>8, <1>9 DEF CountOf

\* Where the digits of a word end.
LEMMA WordSplits ==
  ASSUME NEW ds \in Seq(KeyDigits), NEW rest \in Seq(Key!Keys), rest # <<>> => ~ Key!IsDigit(rest[1])
  PROVE  /\ Key!CountDigits(ds \o rest) = Len(ds)
         /\ SubSeq(ds \o rest, 1, Len(ds)) = ds
         /\ SubSeq(ds \o rest, Len(ds) + 1, Len(ds \o rest)) = rest
<1>1. ds \in Seq(Key!Keys)
  <2>1. KeyDigits \subseteq Key!Keys
    BY DEF KeyDigits, Key!Keys
  <2> QED
    BY <2>1, SeqMonotonic
<1>2. PICK w : w = ds \o rest
  OBVIOUS
<1>3. /\ w \in Seq(Key!Keys) /\ Len(w) = Len(ds) + Len(rest)
      /\ \A i \in 1 .. Len(ds) : w[i] = ds[i]
      /\ \A i \in 1 .. Len(rest) : w[Len(ds) + i] = rest[i]
  BY <1>1, <1>2, Concat
<1>4. PICK m \in Nat : m = Len(ds)
  BY LenProperties
<1>5. PICK n \in Nat : n = Len(rest)
  BY LenProperties
<1>6. \A i \in 1 .. m : Key!IsDigit(w[i])
  BY <1>3, <1>4, DigitsCount, ElementOfSeq
<1>7. n = 0 \/ ~ Key!IsDigit(w[m + 1])
  <2>1. ASSUME n # 0  PROVE ~ Key!IsDigit(w[m + 1])
    <3>1. 1 \in 1 .. n /\ rest # <<>>
      BY <1>5, <2>1, EmptySeq
    <3>2. w[m + 1] = rest[1]
      BY <1>3, <1>4, <1>5, <3>1
    <3> QED
      BY <3>1, <3>2
  <2> QED
    BY <2>1
<1>8. Len(w) = m + n
  BY <1>3, <1>4, <1>5
<1>9. Key!CountDigits(w) = m
  <2> DEFINE C(d) == (\A i \in 1 .. d : Key!IsDigit(w[i])) /\ (d = Len(w) \/ ~ Key!IsDigit(w[d + 1]))
  <2>1. \A d \in 0 .. m + n : C(d) <=> d = m
    <3> SUFFICES ASSUME NEW d \in 0 .. m + n  PROVE C(d) <=> d = m
      OBVIOUS
    <3>1. CASE d < m
      <4>1. d + 1 \in 1 .. m /\ d # m + n /\ d # m
        BY <3>1
      <4> QED
        BY <1>6, <1>8, <4>1
    <3>2. CASE d > m
      <4>1. m + 1 \in 1 .. d /\ n # 0 /\ d # m
        BY <3>2
      <4> QED
        BY <1>7, <4>1
    <3>3. CASE d = m
      <4>1. n = 0 => d = Len(w)
        BY <1>8, <3>3
      <4> QED
        BY <1>6, <1>7, <3>3, <4>1
    <3> QED
      BY <3>1, <3>2, <3>3
  <2>2. m \in 0 .. m + n
    OBVIOUS
  <2> HIDE DEF C
  <2>3. (CHOOSE d \in 0 .. m + n : C(d)) = m
    BY <2>1, <2>2
  <2> QED
    BY <1>8, <2>3 DEF C, Key!CountDigits
<1>10. SubSeq(w, 1, m) = ds
  <2>1. \A i \in 1 .. m : w[i] \in KeyDigits
    BY <1>3, <1>4, ElementOfSeq
  <2>2. /\ SubSeq(w, 1, m) \in Seq(KeyDigits) /\ Len(SubSeq(w, 1, m)) = m
        /\ \A i \in 1 .. m : SubSeq(w, 1, m)[i] = w[i]
    <3>1. 1 \in Int /\ m \in Int /\ m - 1 + 1 = m /\ \A i \in 1 .. m : 1 + i - 1 = i
      OBVIOUS
    <3>2. /\ SubSeq(w, 1, m) \in Seq(KeyDigits)
          /\ Len(SubSeq(w, 1, m)) = IF 1 <= m THEN m - 1 + 1 ELSE 0
          /\ \A i \in 1 .. m - 1 + 1 : SubSeq(w, 1, m)[i] = w[1 + i - 1]
      BY <2>1, <3>1, SubSeqProperties
    <3> QED
      BY <3>1, <3>2
  <2>3. \A i \in 1 .. m : SubSeq(w, 1, m)[i] = ds[i]
    BY <1>3, <1>4, <2>2
  <2> QED
    BY <1>4, <2>2, <2>3, SeqEqual
<1>11. SubSeq(w, m + 1, m + n) = rest
  <2>1. \A i \in m + 1 .. m + n : w[i] \in Key!Keys
    <3>1. \A i \in 1 .. Len(w) : w[i] \in Key!Keys
      BY <1>3, ElementOfSeq
    <3> QED
      BY <1>8, <3>1
  <2> DEFINE t == SubSeq(w, m + 1, m + n)
  <2>2. /\ t \in Seq(Key!Keys) /\ Len(t) = n /\ \A i \in 1 .. n : t[i] = w[m + i]
    <3>1. m + 1 \in Int /\ m + n \in Int /\ (m + n) - (m + 1) + 1 = n /\ \A i \in 1 .. n : (m + 1) + i - 1 = m + i
      OBVIOUS
    <3>2. /\ t \in Seq(Key!Keys)
          /\ Len(t) = IF m + 1 <= m + n THEN (m + n) - (m + 1) + 1 ELSE 0
          /\ \A i \in 1 .. (m + n) - (m + 1) + 1 : t[i] = w[(m + 1) + i - 1]
      BY <2>1, <3>1, SubSeqProperties
    <3> QED
      BY <3>1, <3>2
  <2>3. \A i \in 1 .. n : t[i] = rest[i]
    BY <1>3, <1>4, <1>5, <2>2
  <2> QED
    BY <1>5, <2>2, <2>3, SeqEqual
<1> QED
  BY <1>2, <1>4, <1>8, <1>9, <1>10, <1>11

\* The keys typed so far: a count, or a count and the prefix that a second key completes.
Typed(ds) ==
  \/ v1 = Key!Ready /\ v6 = <<>>
  \/ ds # <<>> /\ v1 = Key!At("count", CountOf(ds)) /\ v6 = ds
  \/ v1 = Key!At("g", CountOf(ds)) /\ v6 = Append(ds, Key!Plain("g"))
  \/ \E c \in {"d", "o", "z"} : v1 = Key!At(c, 0) /\ v6 = Append(ds, Key!Plain(c))

\* A key that is a word of its own.
Loners == {k \in Key!Keys : ~ Key!IsDigit(k) /\ ~ Key!IsPrefixKey(k)}

\* What a count and the keys after it make.
Makes(ds, rest, a) ==
  \/ ds = <<Key!Plain("0")>> /\ rest = <<>> /\ a = Key!Act("first_row")
  \/ \E k \in Loners :
       /\ rest = <<k>>
       /\ a = IF Key!Motion(k) = "none" THEN Key!Act(Key!Simple(k))
              ELSE Key!Moved(IF ds = <<>> THEN 1 ELSE CountOf(ds), Key!Motion(k))
  \/ \E k \in Key!Keys : rest = <<Key!Plain("g"), k>> /\ a = Key!StepG(CountOf(ds), k).act
  \/ \E k \in Key!Keys : rest = <<Key!Plain("d"), k>> /\ a = Key!StepD(k).act
  \/ \E k \in Key!Keys : rest = <<Key!Plain("o"), k>> /\ a = Key!StepO(k).act
  \/ \E k \in Key!Keys : rest = <<Key!Plain("z"), k>> /\ a = Key!StepZ(k).act

\* A count before a key is at least 1: it starts with no 0.
Counts(ds) == ds # <<>> => CountOf(ds) \in Nat \ {0}

\* The last word told, or the word typed so far, and what was made of it.
Told ==
  \/ v5 = Key!NoAct /\ v7 = <<>>
  \/ \E ds \in Seq(KeyDigits), rest \in Seq(Key!Keys) :
       (rest # <<>> => Counts(ds)) /\ v7 = ds \o rest /\ Makes(ds, rest, v5)

KeyInv ==
  /\ \E ds \in Seq(KeyDigits) : Counts(ds) /\ Typed(ds)
  /\ Told /\ (v2 \/ v3 => v1 = Key!Ready)

\* No key is typed at first.
LEMMA KeyInit == Key!Init => KeyInv
<1>1. <<>> \in Seq(KeyDigits)
  BY EmptySeq
<1> QED
  BY <1>1 DEF Key!Init, KeyInv, Typed, Told, Counts

\* A help text or a prompt comes and goes between words, and makes nothing.
LEMMA KeyModes ==
  ASSUME KeyInv, NEW key, Key!HelpKey(key) \/ Key!SearchKey(key) \/ Key!EscFilter
  PROVE  KeyInv'
<1>1. /\ v5' = Key!NoAct /\ v7' = <<>>
      /\ (v1' = v1 /\ v6' = v6) \/ (v1' = Key!Ready /\ v6' = <<>>)
  BY DEF Key!HelpKey, Key!SearchKey, Key!EscFilter
<1>2. v2' \/ v3' => v2 \/ v3
  <2>1. CASE v2
    BY <2>1
  <2>2. CASE v3
    BY <2>2
  <2>3. CASE ~ v2 /\ ~ v3
    BY <2>3 DEF Key!HelpKey, Key!SearchKey, Key!EscFilter
  <2> QED
    BY <2>1, <2>2, <2>3
<1>3. PICK ds \in Seq(KeyDigits) : Counts(ds) /\ Typed(ds)
  BY DEF KeyInv
<1>4. Typed(ds)'
  BY <1>1, <1>3 DEF Typed
<1>5. Counts(ds)'
  BY <1>3 DEF Counts
<1>6. Told'
  BY <1>1 DEF Told
<1>7. v2' \/ v3' => v1' = Key!Ready
  BY <1>1, <1>2 DEF KeyInv
<1> QED
  BY <1>3, <1>4, <1>5, <1>6, <1>7 DEF KeyInv

\* A word ends in a count and the keys that follow it.
LEMMA WordEnds ==
  ASSUME NEW ds \in Seq(KeyDigits), NEW p \in Key!Keys, NEW k \in Key!Keys
  PROVE  /\ ds \in Seq(Key!Keys) /\ <<k>> \in Seq(Key!Keys) /\ <<p, k>> \in Seq(Key!Keys)
         /\ Append(ds, k) = ds \o <<k>> /\ Append(Append(ds, p), k) = ds \o <<p, k>>
<1>1. ds \in Seq(Key!Keys)
  <2>1. KeyDigits \subseteq Key!Keys
    BY DEF KeyDigits, Key!Keys
  <2> QED
    BY <2>1, SeqMonotonic
<1>2. <<k>> \in Seq(Key!Keys) /\ <<p>> \in Seq(Key!Keys) /\ <<p, k>> \in Seq(Key!Keys) /\ <<p>> \o <<k>> = <<p, k>>
  <2>1. <<k>> \in Seq(Key!Keys) /\ <<p>> \in Seq(Key!Keys) /\ <<p, k>> \in Seq(Key!Keys)
    OBVIOUS
  <2>2. <<p>> \o <<k>> = <<p, k>>
    <3>1. PICK one \in Seq(Key!Keys), other \in Seq(Key!Keys) : one = <<p>> /\ other = <<k>>
      BY <2>1
    <3>2. PICK c : c = one \o other
      OBVIOUS
    <3>3. Len(one) = 1 /\ Len(other) = 1 /\ one[1] = p /\ other[1] = k
      BY <3>1
    <3>4. c \in Seq(Key!Keys) /\ Len(c) = 2 /\ c[1] = p /\ c[1 + 1] = k
      BY <3>2, <3>3, Concat
    <3>5. PICK two \in Seq(Key!Keys) : two = <<p, k>>
      BY <2>1
    <3>6. Len(two) = 2 /\ two[1] = p /\ two[2] = k
      BY <3>5
    <3>7. \A i \in 1 .. Len(c) : c[i] = two[i]
      BY <3>4, <3>6
    <3>8. c = two
      BY <3>4, <3>6, <3>7, SeqEqual
    <3> QED
      BY <3>1, <3>2, <3>5, <3>8
  <2> QED
    BY <2>1, <2>2
<1>3. Append(ds, k) = ds \o <<k>> /\ Append(ds, p) = ds \o <<p>> /\ Append(ds, p) \in Seq(Key!Keys)
  BY <1>1, AppendIsConcat, AppendProperties
<1>4. Append(Append(ds, p), k) = (ds \o <<p>>) \o <<k>>
  BY <1>3, AppendIsConcat
<1>5. (ds \o <<p>>) \o <<k>> = ds \o (<<p>> \o <<k>>)
  BY <1>1, <1>2, ConcatAssociative
<1> QED
  BY <1>1, <1>2, <1>3, <1>4, <1>5

\* A key that leaves the word unfinished makes nothing.
LEMMA KeyWaits ==
  ASSUME NEW key \in Key!Keys, Key!ListKey(key), NEW s, Key!Step(key) = Key!To(s), s # Key!Ready,
         NEW ds \in Seq(KeyDigits), Counts(ds),
         v1' = s /\ v6' = Append(v6, key) => Typed(ds)'
  PROVE  KeyInv'
<1>1. v1' = s /\ v5' = Key!NoAct
  BY DEF Key!ListKey, Key!To
<1>2. v6' = Append(v6, key) /\ v7' = <<>>
  BY <1>1 DEF Key!ListKey
<1>3. ~ v2' /\ ~ v3'
  <2>1. v5'.name = "none"
    BY <1>1 DEF Key!NoAct, Key!Act
  <2>2. v2' = (v5'.name = "help") /\ v3' = (v5'.name = "search")
    BY DEF Key!ListKey
  <2> QED
    BY <2>1, <2>2
<1>4. Counts(ds)'
  BY DEF Counts
<1>5. Typed(ds)'
  BY <1>1, <1>2
<1> QED
  BY <1>1, <1>2, <1>3, <1>4, <1>5 DEF KeyInv, Told

\* A key that ends the word makes what the word says.
LEMMA KeyEnds ==
  ASSUME NEW key \in Key!Keys, Key!ListKey(key), NEW a, Key!Step(key) = Key!Emit(a),
         NEW ds \in Seq(KeyDigits), NEW rest \in Seq(Key!Keys), rest # <<>> => Counts(ds),
         Append(v6, key) = ds \o rest, Makes(ds, rest, a)
  PROVE  KeyInv'
<1>1. v1' = Key!Ready /\ v5' = a
  BY DEF Key!ListKey, Key!Emit
<1>2. v6' = <<>> /\ v7' = ds \o rest
  BY <1>1 DEF Key!ListKey
<1>3. Told'
  <2>1. (rest # <<>> => Counts(ds)') /\ Makes(ds, rest, v5')
    BY <1>1 DEF Counts
  <2>2. Makes(ds, rest, v5)'
    BY <2>1 DEF Makes
  <2> QED
    BY <1>2, <2>1, <2>2 DEF Told
<1>4. \E d \in Seq(KeyDigits) : Counts(d)' /\ Typed(d)'
  <2>1. <<>> \in Seq(KeyDigits)
    BY EmptySeq
  <2>2. Counts(<<>>)' /\ Typed(<<>>)'
    BY <1>1, <1>2 DEF Counts, Typed
  <2> QED
    BY <2>1, <2>2
<1> QED
  BY <1>1, <1>3, <1>4 DEF KeyInv

\* A key is a digit, a prefix or a word of its own.
LEMMA KeyKinds ==
  ASSUME NEW key \in Key!Keys
  PROVE  /\ \/ key \in KeyDigits /\ Key!IsDigit(key) /\ ~ Key!IsPrefixKey(key) /\ Key!Motion(key) = "none"
            \/ /\ ~ Key!IsDigit(key) /\ Key!Motion(key) = "none" /\ key # Key!Plain("0")
               /\ \E c \in {"g", "d", "o", "z"} : key = Key!Plain(c) /\ key.code = c /\ Key!IsPrefixKey(key)
            \/ key \in Loners /\ ~ Key!IsDigit(key) /\ ~ Key!IsPrefixKey(key) /\ key # Key!Plain("0")
         /\ Key!Plain("g") \in Key!Keys /\ Key!Plain("d") \in Key!Keys
         /\ Key!Plain("o") \in Key!Keys /\ Key!Plain("z") \in Key!Keys
<1>1. ASSUME key \in KeyDigits
      PROVE  Key!IsDigit(key) /\ ~ Key!IsPrefixKey(key) /\ Key!Motion(key) = "none"
  <2>1. Key!IsDigit(key) /\ ~ Key!IsPrefixKey(key)
    BY <1>1 DEF KeyDigits, Key!Plain, Key!IsDigit, Key!IsPrefixKey, Key!Prefixes
  <2>2. Key!Motion(key) = "none"
    BY <1>1 DEF KeyDigits, Key!Plain, Key!Ctrl, Key!Motion
  <2> QED
    BY <1>1, <2>1, <2>2
<1>2. ASSUME NEW c \in {"g", "d", "o", "z"}, key = Key!Plain(c)
      PROVE  /\ key.code = c /\ Key!IsPrefixKey(key) /\ ~ Key!IsDigit(key) /\ Key!Motion(key) = "none"
             /\ key # Key!Plain("0")
  <2>1. key.code = c /\ Key!IsPrefixKey(key) /\ ~ Key!IsDigit(key) /\ key # Key!Plain("0")
    BY <1>2 DEF Key!Plain, Key!IsDigit, Key!IsPrefixKey, Key!Prefixes
  <2>2. Key!Motion(key) = "none"
    BY <1>2 DEF Key!Plain, Key!Ctrl, Key!Motion
  <2> QED
    BY <2>1, <2>2
<1>3. ASSUME key \notin KeyDigits, \A c \in {"g", "d", "o", "z"} : key # Key!Plain(c)
      PROVE  key \in Loners /\ ~ Key!IsDigit(key) /\ ~ Key!IsPrefixKey(key) /\ key # Key!Plain("0")
  <2>1. ~ Key!IsDigit(key) /\ ~ Key!IsPrefixKey(key) /\ key # Key!Plain("0")
    BY <1>3 DEF Key!Keys, Key!Plain, Key!Ctrl, Key!IsDigit, Key!IsPrefixKey, Key!Prefixes, KeyDigits
  <2> QED
    BY <2>1 DEF Loners
<1>4. Key!Plain("g") \in Key!Keys /\ Key!Plain("d") \in Key!Keys /\ Key!Plain("o") \in Key!Keys /\ Key!Plain("z") \in Key!Keys
  BY DEF Key!Keys
<1> QED
  <2>1. CASE key \in KeyDigits
    BY <1>1, <1>4, <2>1
  <2>2. CASE \E c \in {"g", "d", "o", "z"} : key = Key!Plain(c)
    BY <1>2, <1>4, <2>2
  <2>3. CASE key \notin KeyDigits /\ \A c \in {"g", "d", "o", "z"} : key # Key!Plain(c)
    BY <1>3, <1>4, <2>3
  <2> QED
    BY <2>1, <2>2, <2>3

\* The first key of a word.
LEMMA KeyFirst ==
  ASSUME NEW key \in Key!Keys, Key!ListKey(key), v1 = Key!Ready, v6 = <<>>
  PROVE  KeyInv'
<1>1. PICK none \in Seq(KeyDigits) : none = <<>>
  BY EmptySeq
<1>2. Key!Step(key) = Key!StepReady(key)
  BY DEF Key!Step, Key!Ready
<1>3. Append(v6, key) = <<key>>
  OBVIOUS
<1>4. Append(none, key) = none \o <<key>> /\ <<key>> \in Seq(Key!Keys) /\ Append(none, key) = <<key>>
  BY <1>1, <1>3, WordEnds
<1>5. CASE key = Key!Plain("0") /\ ~ Key!IsPrefixKey(key) /\ Key!Motion(key) = "none"
  <2>1. key \in KeyDigits
    BY <1>5 DEF KeyDigits
  <2>2. PICK ds \in Seq(KeyDigits) : ds = <<key>>
    BY <2>1, <1>1, <1>4, CountGrows
  <2>3. ds = ds \o <<>> /\ <<>> \in Seq(Key!Keys)
    BY ConcatEmptySeq, EmptySeq
  <2>4. Key!Step(key) = Key!Emit(Key!Act("first_row"))
    BY <1>2, <1>5 DEF Key!StepReady
  <2>5. Makes(ds, <<>>, Key!Act("first_row"))
    BY <1>5, <2>2 DEF Makes
  <2> QED
    BY <1>3, <2>2, <2>3, <2>4, <2>5, KeyEnds
<1>6. CASE /\ key \in KeyDigits /\ Key!IsDigit(key) /\ ~ Key!IsPrefixKey(key) /\ Key!Motion(key) = "none"
           /\ key # Key!Plain("0")
  <2>1. PICK ds \in Seq(KeyDigits) : ds = <<key>>
    BY <1>1, <1>4, <1>6, CountGrows
  <2>2. Key!DigitOf(key) \in 1 .. 3 /\ CountOf(ds) = Key!DigitOf(key)
    <3>1. CountOf(<<key>>) = Key!DigitOf(key)
      BY <1>6, CountGrows, <1>1
    <3>2. Key!DigitOf(key) \in 1 .. 3
      BY <1>6 DEF KeyDigits, Key!Plain, Key!DigitOf
    <3> QED
      BY <2>1, <3>1, <3>2
  <2>3. Key!Step(key) = Key!To(Key!At("count", CountOf(ds)))
    BY <1>2, <1>6, <2>2, DigitsCount DEF Key!StepReady
  <2>4. ds # <<>> /\ Counts(ds)
    BY <1>6, <2>1, <2>2 DEF Counts
  <2>5. Key!At("count", CountOf(ds)) # Key!Ready
    BY DEF Key!At, Key!Ready
  <2>6. v1' = Key!At("count", CountOf(ds)) /\ v6' = Append(v6, key) => Typed(ds)'
    BY <1>3, <2>1, <2>4 DEF Typed
  <2> QED
    BY <2>3, <2>4, <2>5, <2>6, KeyWaits
<1>7. ASSUME NEW c \in {"g", "d", "o", "z"}, key = Key!Plain(c), key.code = c, Key!IsPrefixKey(key),
             ~ Key!IsDigit(key), Key!Motion(key) = "none", key # Key!Plain("0")
      PROVE  KeyInv'
  <2>1. Key!Step(key) = Key!To(Key!At(c, 0))
    BY <1>2, <1>7 DEF Key!StepReady, Key!Plain
  <2>2. Counts(none) /\ CountOf(none) = 0
    <3>1. Key!Plain("0") \in KeyDigits
      BY DEF KeyDigits
    <3> QED
      BY <1>1, <3>1, CountGrows DEF Counts
  <2>3. Key!At(c, 0) # Key!Ready
    BY DEF Key!At, Key!Ready
  <2>4. v1' = Key!At(c, 0) /\ v6' = Append(v6, key) => Typed(none)'
    BY <1>3, <1>4, <1>7, <2>2 DEF Typed
  <2> QED
    BY <2>1, <2>2, <2>3, <2>4, KeyWaits
<1>8. CASE key \in Loners /\ ~ Key!IsDigit(key) /\ ~ Key!IsPrefixKey(key) /\ key # Key!Plain("0")
  <2>1. PICK a : a = IF Key!Motion(key) = "none" THEN Key!Act(Key!Simple(key)) ELSE Key!Moved(1, Key!Motion(key))
    OBVIOUS
  <2>2. Key!Step(key) = Key!Emit(a)
    BY <1>2, <1>8, <2>1 DEF Key!StepReady
  <2>3. Counts(none) /\ Makes(none, <<key>>, a)
    BY <1>1, <1>8, <2>1 DEF Counts, Makes
  <2> QED
    BY <1>3, <1>4, <2>2, <2>3, KeyEnds
<1> QED
  BY <1>5, <1>6, <1>7, <1>8, KeyKinds

\* A key after a count.
LEMMA KeyCounted ==
  ASSUME NEW key \in Key!Keys, Key!ListKey(key), NEW ds \in Seq(KeyDigits),
         ds # <<>>, Counts(ds), v1 = Key!At("count", CountOf(ds)), v6 = ds
  PROVE  KeyInv'
<1>1. Key!Step(key) = Key!StepCount(CountOf(ds), key)
  BY DEF Key!Step, Key!At
<1>2. CASE key \in KeyDigits /\ Key!IsDigit(key) /\ ~ Key!IsPrefixKey(key) /\ Key!Motion(key) = "none"
  <2>1. PICK more \in Seq(KeyDigits) : more = Append(ds, key)
    BY <1>2, AppendProperties
  <2>2. /\ CountOf(more) = Key!Capped(CountOf(ds) * 10 + Key!DigitOf(key))
        /\ CountOf(ds) \in Nat \ {0} /\ Key!DigitOf(key) \in 0 .. 3
    BY <1>2, <2>1, CountGrows DEF Counts
  <2>3. CountOf(more) \in Nat \ {0}
    <3>1. PICK n \in Nat \ {0} : n = CountOf(ds)
      BY <2>2
    <3>2. PICK d \in 0 .. 3 : d = Key!DigitOf(key)
      BY <2>2
    <3>3. MaxCount \in Nat /\ MaxCount >= 3
      BY PartsAssumption
    <3>4. Key!Capped(n * 10 + d) \in Nat \ {0}
      BY <3>3 DEF Key!Capped
    <3> QED
      BY <2>2, <3>1, <3>2, <3>4
  <2>4. more # <<>>
    <3>1. Len(more) = Len(ds) + 1 /\ Len(ds) \in Nat \ {0}
      BY <1>2, <2>1, AppendProperties, EmptySeq
    <3>2. Len(<<>>) = 0
      OBVIOUS
    <3> QED
      BY <3>1, <3>2
  <2>5. Key!Step(key) = Key!To(Key!At("count", CountOf(more)))
    BY <1>1, <1>2, <2>2, DigitsCount DEF Key!StepCount
  <2>6. Key!At("count", CountOf(more)) # Key!Ready
    BY DEF Key!At, Key!Ready
  <2>7. v1' = Key!At("count", CountOf(more)) /\ v6' = Append(v6, key) => Typed(more)'
    BY <2>1, <2>4 DEF Typed
  <2>8. Counts(more)
    BY <2>3 DEF Counts
  <2> QED
    BY <2>4, <2>5, <2>6, <2>7, <2>8, KeyWaits
<1>3. ASSUME NEW c \in {"g", "d", "o", "z"}, key = Key!Plain(c), key.code = c, Key!IsPrefixKey(key),
             ~ Key!IsDigit(key), Key!Motion(key) = "none", key # Key!Plain("0")
      PROVE  KeyInv'
  <2>1. PICK n : n = IF c = "g" THEN CountOf(ds) ELSE 0
    OBVIOUS
  <2>2. Key!Step(key) = Key!To(Key!At(c, n))
    BY <1>1, <1>3, <2>1 DEF Key!StepCount, Key!Plain
  <2>3. Key!At(c, n) # Key!Ready
    BY DEF Key!At, Key!Ready
  <2>4. v1' = Key!At(c, n) /\ v6' = Append(v6, key) => Typed(ds)'
    BY <1>3, <2>1 DEF Typed
  <2> QED
    BY <2>2, <2>3, <2>4, KeyWaits
<1>4. CASE key \in Loners /\ ~ Key!IsDigit(key) /\ ~ Key!IsPrefixKey(key) /\ key # Key!Plain("0")
  <2>1. PICK a : a = IF Key!Motion(key) = "none" THEN Key!Act(Key!Simple(key)) ELSE Key!Moved(CountOf(ds), Key!Motion(key))
    OBVIOUS
  <2>2. Key!Step(key) = Key!Emit(a)
    BY <1>1, <1>4, <2>1 DEF Key!StepCount
  <2>3. Makes(ds, <<key>>, a)
    BY <1>4, <2>1 DEF Makes
  <2>4. Append(v6, key) = ds \o <<key>> /\ <<key>> \in Seq(Key!Keys)
    BY WordEnds
  <2> QED
    BY <2>2, <2>3, <2>4, KeyEnds
<1> QED
  BY <1>2, <1>3, <1>4, KeyKinds

\* The second key of a chord.
LEMMA KeyChord ==
  ASSUME NEW key \in Key!Keys, Key!ListKey(key), NEW ds \in Seq(KeyDigits), Counts(ds),
         \/ v1 = Key!At("g", CountOf(ds)) /\ v6 = Append(ds, Key!Plain("g"))
         \/ \E c \in {"d", "o", "z"} : v1 = Key!At(c, 0) /\ v6 = Append(ds, Key!Plain(c))
  PROVE  KeyInv'
<1>1. CASE v1 = Key!At("g", CountOf(ds)) /\ v6 = Append(ds, Key!Plain("g"))
  <2>1. PICK a : a = Key!StepG(CountOf(ds), key).act
    OBVIOUS
  <2>2. Key!Step(key) = Key!StepG(CountOf(ds), key)
    BY <1>1 DEF Key!Step, Key!At
  <2>3. Key!Step(key) = Key!Emit(a)
    BY <2>1, <2>2 DEF Key!StepG, Key!Emit
  <2>4. Makes(ds, <<Key!Plain("g"), key>>, a)
    BY <2>1 DEF Makes
  <2>5. Append(v6, key) = ds \o <<Key!Plain("g"), key>> /\ <<Key!Plain("g"), key>> \in Seq(Key!Keys)
    BY <1>1, KeyKinds, WordEnds
  <2> QED
    BY <2>3, <2>4, <2>5, KeyEnds
<1>2. CASE v1 = Key!At("d", 0) /\ v6 = Append(ds, Key!Plain("d"))
  <2>1. PICK a : a = Key!StepD(key).act
    OBVIOUS
  <2>2. Key!Step(key) = Key!StepD(key)
    BY <1>2 DEF Key!Step, Key!At
  <2>3. Key!Step(key) = Key!Emit(a)
    BY <2>1, <2>2 DEF Key!StepD, Key!Emit
  <2>4. Makes(ds, <<Key!Plain("d"), key>>, a)
    BY <2>1 DEF Makes
  <2>5. Append(v6, key) = ds \o <<Key!Plain("d"), key>> /\ <<Key!Plain("d"), key>> \in Seq(Key!Keys)
    BY <1>2, KeyKinds, WordEnds
  <2> QED
    BY <2>3, <2>4, <2>5, KeyEnds
<1>3. CASE v1 = Key!At("o", 0) /\ v6 = Append(ds, Key!Plain("o"))
  <2>1. PICK a : a = Key!StepO(key).act
    OBVIOUS
  <2>2. Key!Step(key) = Key!StepO(key)
    BY <1>3 DEF Key!Step, Key!At
  <2>3. Key!Step(key) = Key!Emit(a)
    BY <2>1, <2>2 DEF Key!StepO, Key!Emit
  <2>4. Makes(ds, <<Key!Plain("o"), key>>, a)
    BY <2>1 DEF Makes
  <2>5. Append(v6, key) = ds \o <<Key!Plain("o"), key>> /\ <<Key!Plain("o"), key>> \in Seq(Key!Keys)
    BY <1>3, KeyKinds, WordEnds
  <2> QED
    BY <2>3, <2>4, <2>5, KeyEnds
<1>4. CASE v1 = Key!At("z", 0) /\ v6 = Append(ds, Key!Plain("z"))
  <2>1. PICK a : a = Key!StepZ(key).act
    OBVIOUS
  <2>2. Key!Step(key) = Key!StepZ(key)
    BY <1>4 DEF Key!Step, Key!At
  <2>3. Key!Step(key) = Key!Emit(a)
    BY <2>1, <2>2 DEF Key!StepZ, Key!Emit
  <2>4. Makes(ds, <<Key!Plain("z"), key>>, a)
    BY <2>1 DEF Makes
  <2>5. Append(v6, key) = ds \o <<Key!Plain("z"), key>> /\ <<Key!Plain("z"), key>> \in Seq(Key!Keys)
    BY <1>4, KeyKinds, WordEnds
  <2> QED
    BY <2>3, <2>4, <2>5, KeyEnds
<1> QED
  BY <1>1, <1>2, <1>3, <1>4

\* Whichever key comes.
LEMMA KeyKeepsInv ==
  ASSUME KeyInv, [Key!Next]_<<v1, v2, v3, v4, v5, v6, v7, v8>>
  PROVE  KeyInv'
<1>1. CASE UNCHANGED <<v1, v2, v3, v4, v5, v6, v7, v8>>
  BY <1>1 DEF KeyInv, Typed, Told, Counts
<1>2. ASSUME NEW key \in Key!Keys, Key!HelpKey(key) \/ Key!SearchKey(key) \/ Key!EscFilter
      PROVE  KeyInv'
  BY <1>2, KeyModes
<1>3. ASSUME NEW key \in Key!Keys, Key!ListKey(key)
      PROVE  KeyInv'
  <2>1. PICK ds \in Seq(KeyDigits) : Counts(ds) /\ Typed(ds)
    BY DEF KeyInv
  <2> QED
    BY <1>3, <2>1, KeyFirst, KeyCounted, KeyChord DEF Typed
<1> QED
  BY <1>1, <1>2, <1>3 DEF Key!Next, Key!KeyPress

\* The lines of the help.
Hints == Key!NavigationHints \cup Key!ActionHints

MoveNames ==
  {"down", "up", "first_row", "last_row", "half_page_down", "half_page_up", "row", "next_attention", "prev_attention"}
ListNames ==
  {"jump", "refresh", "quit", "search", "help", "expand", "close_fold", "toggle_fold", "collapse_all", "expand_all"}
AgentNames == {"kill", "interrupt", "spawn", "spawn_left", "spawn_below", "spawn_above", "spawn_right"}

\* Each action is in the help.
LEMMA NamesHinted == \A name \in MoveNames \cup ListNames \cup AgentNames : \E h \in Hints : h.action = name
<1>1. ASSUME NEW h, h \in Key!NavigationHints \/ h \in Key!ActionHints  PROVE h \in Hints
  BY <1>1 DEF Hints
<1> USE DEF Key!Hint, Key!CountedHint
<1>2. \A name \in MoveNames : \E h \in Key!NavigationHints : h.action = name
  BY DEF Key!NavigationHints, MoveNames
<1>3. \A name \in ListNames : \E h \in Key!ActionHints : h.action = name
  BY DEF Key!ActionHints, ListNames
<1>4. \A name \in AgentNames : \E h \in Key!ActionHints : h.action = name
  BY DEF Key!ActionHints, AgentNames
<1> QED
  BY ONLY <1>1, <1>2, <1>3, <1>4

\* What a hint tells is what its keys make.
OneSays(k) == IF Key!Motion(k) = "none" THEN Key!Simple(k) ELSE IF Key!Motion(k) = "bottom" THEN "last_row" ELSE Key!Motion(k)
HintSays(h) ==
  \/ ~ h.counted /\ h.keys = <<Key!Plain("0")>> /\ h.action = "first_row"
  \/ \E k \in Loners : ~ h.counted /\ h.keys = <<k>> /\ h.action = OneSays(k)
  \/ \E k \in Loners : h.counted /\ h.keys = <<k>> /\ Key!Motion(k) \in {"down", "up"} /\ h.action = Key!Motion(k)
  \/ h.keys = <<Key!Plain("g"), Key!Plain("g")>> /\ h.action = IF h.counted THEN "row" ELSE "first_row"
  \/ ~ h.counted /\ h.keys = <<Key!Plain("d"), Key!Plain("d")>> /\ h.action = "kill"
  \/ ~ h.counted /\ \E k \in Key!Keys : h.keys = <<Key!Plain("o"), k>> /\ h.action = Key!StepO(k).act.name
  \/ ~ h.counted /\ \E k \in Key!Keys : h.keys = <<Key!Plain("z"), k>> /\ h.action = Key!StepZ(k).act.name

LoneKeys ==
  {Key!Plain("j"), Key!Plain("k"), Key!Plain("G"), Key!Ctrl("d"), Key!Ctrl("u"), Key!Plain("n"), Key!Plain("N"),
   Key!Plain("Enter"), Key!Plain("r"), Key!Plain("q"), Key!Plain("/"), Key!Plain("?"), Key!Plain("Esc"), Key!Ctrl("c"),
   Key!Plain("h"), Key!Plain("l"), Key!Plain("x"), Key!Plain("I")}

\* These keys are neither digits nor prefixes.
LEMMA LoneKeysAre == LoneKeys \subseteq Loners
BY DEF LoneKeys, Loners, Key!Keys, Key!Plain, Key!Ctrl, Key!IsDigit, Key!IsPrefixKey, Key!Prefixes

\* What each of them makes.
LEMMA LoneKeysSay ==
  /\ OneSays(Key!Plain("j")) = "down" /\ OneSays(Key!Plain("k")) = "up" /\ OneSays(Key!Plain("G")) = "last_row"
  /\ OneSays(Key!Ctrl("d")) = "half_page_down" /\ OneSays(Key!Ctrl("u")) = "half_page_up"
  /\ OneSays(Key!Plain("n")) = "next_attention" /\ OneSays(Key!Plain("N")) = "prev_attention"
  /\ OneSays(Key!Plain("Enter")) = "jump" /\ OneSays(Key!Plain("r")) = "refresh" /\ OneSays(Key!Plain("q")) = "quit"
  /\ OneSays(Key!Plain("/")) = "search" /\ OneSays(Key!Plain("?")) = "help" /\ OneSays(Key!Plain("Esc")) = "quit"
  /\ OneSays(Key!Ctrl("c")) = "quit" /\ OneSays(Key!Plain("h")) = "expand" /\ OneSays(Key!Plain("l")) = "expand"
  /\ OneSays(Key!Plain("x")) = "kill" /\ OneSays(Key!Plain("I")) = "interrupt"
BY DEF OneSays, Key!Motion, Key!Simple, Key!Plain, Key!Ctrl

\* Each line of the help tells what its keys make.
LEMMA HintsSay ==
  ASSUME NEW h \in Hints
  PROVE  HintSays(h)
<1>1. ASSUME NEW k \in LoneKeys, NEW action, action = OneSays(k), h = Key!Hint(<<k>>, action)  PROVE HintSays(h)
  BY <1>1, LoneKeysAre DEF Key!Hint, HintSays
<1>2. ASSUME NEW k \in LoneKeys, NEW action \in {"down", "up"}, action = Key!Motion(k), h = Key!CountedHint(<<k>>, action)
      PROVE HintSays(h)
  BY <1>2, LoneKeysAre DEF Key!CountedHint, HintSays
<1>3. Key!Motion(Key!Plain("j")) = "down" /\ Key!Motion(Key!Plain("k")) = "up"
  BY DEF Key!Motion, Key!Plain, Key!Ctrl
<1>4. ASSUME NEW k \in Key!Keys, NEW action, action = Key!StepO(k).act.name, h = Key!Hint(<<Key!Plain("o"), k>>, action)
      PROVE HintSays(h)
  BY <1>4 DEF Key!Hint, HintSays
<1>5. ASSUME NEW k \in Key!Keys, NEW action, action = Key!StepZ(k).act.name, h = Key!Hint(<<Key!Plain("z"), k>>, action)
      PROVE HintSays(h)
  BY <1>5 DEF Key!Hint, HintSays
<1> USE DEF LoneKeys
<1>6. CASE h = Key!Hint(<<Key!Plain("j")>>, "down")
  BY <1>1, <1>6, LoneKeysSay
<1>7. CASE h = Key!Hint(<<Key!Plain("k")>>, "up")
  BY <1>1, <1>7, LoneKeysSay
<1>8. CASE h = Key!Hint(<<Key!Plain("G")>>, "last_row")
  BY <1>1, <1>8, LoneKeysSay
<1>9. CASE h = Key!Hint(<<Key!Ctrl("d")>>, "half_page_down")
  BY <1>1, <1>9, LoneKeysSay
<1>10. CASE h = Key!Hint(<<Key!Ctrl("u")>>, "half_page_up")
  BY <1>1, <1>10, LoneKeysSay
<1>11. CASE h = Key!Hint(<<Key!Plain("n")>>, "next_attention")
  BY <1>1, <1>11, LoneKeysSay
<1>12. CASE h = Key!Hint(<<Key!Plain("N")>>, "prev_attention")
  BY <1>1, <1>12, LoneKeysSay
<1>13. CASE h = Key!Hint(<<Key!Plain("Enter")>>, "jump")
  BY <1>1, <1>13, LoneKeysSay
<1>14. CASE h = Key!Hint(<<Key!Plain("r")>>, "refresh")
  BY <1>1, <1>14, LoneKeysSay
<1>15. CASE h = Key!Hint(<<Key!Plain("q")>>, "quit")
  BY <1>1, <1>15, LoneKeysSay
<1>16. CASE h = Key!Hint(<<Key!Plain("/")>>, "search")
  BY <1>1, <1>16, LoneKeysSay
<1>17. CASE h = Key!Hint(<<Key!Plain("?")>>, "help")
  BY <1>1, <1>17, LoneKeysSay
<1>18. CASE h = Key!Hint(<<Key!Plain("Esc")>>, "quit")
  BY <1>1, <1>18, LoneKeysSay
<1>19. CASE h = Key!Hint(<<Key!Ctrl("c")>>, "quit")
  BY <1>1, <1>19, LoneKeysSay
<1>20. CASE h = Key!Hint(<<Key!Plain("h")>>, "expand")
  BY <1>1, <1>20, LoneKeysSay
<1>21. CASE h = Key!Hint(<<Key!Plain("l")>>, "expand")
  BY <1>1, <1>21, LoneKeysSay
<1>22. CASE h = Key!Hint(<<Key!Plain("x")>>, "kill")
  BY <1>1, <1>22, LoneKeysSay
<1>23. CASE h = Key!Hint(<<Key!Plain("I")>>, "interrupt")
  BY <1>1, <1>23, LoneKeysSay
<1>24. CASE h = Key!CountedHint(<<Key!Plain("j")>>, "down")
  BY <1>2, <1>3, <1>24
<1>25. CASE h = Key!CountedHint(<<Key!Plain("k")>>, "up")
  BY <1>2, <1>3, <1>25
<1>26. CASE h = Key!Hint(<<Key!Plain("0")>>, "first_row")
  BY <1>26 DEF Key!Hint, HintSays
<1>27. CASE h = Key!Hint(Key!Chord("g", "g"), "first_row")
  BY <1>27 DEF Key!Hint, Key!Chord, HintSays
<1>28. CASE h = Key!CountedHint(Key!Chord("g", "g"), "row")
  BY <1>28 DEF Key!CountedHint, Key!Chord, HintSays
<1>29. CASE h = Key!Hint(Key!Chord("d", "d"), "kill")
  BY <1>29 DEF Key!Hint, Key!Chord, HintSays
<1>30. CASE h = Key!Hint(Key!Chord("o", "o"), "spawn")
  BY <1>4, <1>30 DEF Key!Chord, Key!Keys, Key!StepO, Key!Emit, Key!Act, Key!Plain
<1>31. CASE h = Key!Hint(Key!Chord("o", "h"), "spawn_left")
  BY <1>4, <1>31 DEF Key!Chord, Key!Keys, Key!StepO, Key!Emit, Key!Act, Key!Plain
<1>32. CASE h = Key!Hint(Key!Chord("o", "j"), "spawn_below")
  BY <1>4, <1>32 DEF Key!Chord, Key!Keys, Key!StepO, Key!Emit, Key!Act, Key!Plain
<1>33. CASE h = Key!Hint(Key!Chord("o", "k"), "spawn_above")
  BY <1>4, <1>33 DEF Key!Chord, Key!Keys, Key!StepO, Key!Emit, Key!Act, Key!Plain
<1>34. CASE h = Key!Hint(Key!Chord("o", "l"), "spawn_right")
  BY <1>4, <1>34 DEF Key!Chord, Key!Keys, Key!StepO, Key!Emit, Key!Act, Key!Plain
<1>35. CASE h = Key!Hint(Key!Chord("z", "c"), "close_fold")
  BY <1>5, <1>35 DEF Key!Chord, Key!Keys, Key!StepZ, Key!Emit, Key!Act, Key!Plain
<1>36. CASE h = Key!Hint(Key!Chord("z", "o"), "expand")
  BY <1>5, <1>36 DEF Key!Chord, Key!Keys, Key!StepZ, Key!Emit, Key!Act, Key!Plain
<1>37. CASE h = Key!Hint(Key!Chord("z", "a"), "toggle_fold")
  BY <1>5, <1>37 DEF Key!Chord, Key!Keys, Key!StepZ, Key!Emit, Key!Act, Key!Plain
<1>38. CASE h = Key!Hint(Key!Chord("z", "M"), "collapse_all")
  BY <1>5, <1>38 DEF Key!Chord, Key!Keys, Key!StepZ, Key!Emit, Key!Act, Key!Plain
<1>39. CASE h = Key!Hint(Key!Chord("z", "R"), "expand_all")
  BY <1>5, <1>39 DEF Key!Chord, Key!Keys, Key!StepZ, Key!Emit, Key!Act, Key!Plain
<1> QED
  BY <1>6, <1>7, <1>8, <1>9, <1>10, <1>11, <1>12, <1>13, <1>14, <1>15, <1>16, <1>17, <1>18, <1>19, <1>20, <1>21, <1>22, <1>23, <1>24, <1>25, <1>26, <1>27, <1>28, <1>29, <1>30, <1>31, <1>32, <1>33, <1>34, <1>35, <1>36, <1>37, <1>38, <1>39 DEF Hints, Key!NavigationHints, Key!ActionHints

\* A word has one count and one rest.
LEMMA WordIsOne ==
  ASSUME NEW ds \in Seq(KeyDigits), NEW rest \in Seq(Key!Keys), rest # <<>> => ~ Key!IsDigit(rest[1]),
         NEW d \in Seq(KeyDigits), NEW r \in Seq(Key!Keys), r # <<>> => ~ Key!IsDigit(r[1]),
         ds \o rest = d \o r
  PROVE  ds = d /\ rest = r
<1>1. /\ Key!CountDigits(ds \o rest) = Len(ds) /\ SubSeq(ds \o rest, 1, Len(ds)) = ds
      /\ SubSeq(ds \o rest, Len(ds) + 1, Len(ds \o rest)) = rest
  BY WordSplits
<1>2. /\ Key!CountDigits(d \o r) = Len(d) /\ SubSeq(d \o r, 1, Len(d)) = d
      /\ SubSeq(d \o r, Len(d) + 1, Len(d \o r)) = r
  BY WordSplits
<1>3. PICK w : w = ds \o rest /\ w = d \o r
  OBVIOUS
<1> QED
  BY <1>1, <1>2, <1>3

\* The keys after a count start with no digit.
LEMMA RestStarts ==
  ASSUME NEW ds, NEW rest, NEW a, Makes(ds, rest, a)
  PROVE  rest # <<>> => ~ Key!IsDigit(rest[1])
BY DEF Makes, Loners, Key!IsDigit, Key!Plain

\* The keys of a hint, as a word without a count.
LEMMA HintWord ==
  ASSUME NEW ds \in Seq(KeyDigits), NEW rest \in Seq(Key!Keys), rest # <<>> => ~ Key!IsDigit(rest[1]),
         NEW h \in Hints, ds \o rest = h.keys, ~ h.counted
  PROVE  \/ h.keys = <<Key!Plain("0")>> /\ ds = <<Key!Plain("0")>> /\ rest = <<>>
         \/ h.keys # <<Key!Plain("0")>> /\ ds = <<>> /\ rest = h.keys
<1>1. PICK none \in Seq(KeyDigits) : none = <<>>
  BY EmptySeq
<1>2. CASE h.keys = <<Key!Plain("0")>>
  <2>1. Key!Plain("0") \in KeyDigits
    BY DEF KeyDigits
  <2>2. PICK d \in Seq(KeyDigits) : d = <<Key!Plain("0")>>
    <3>1. PICK k \in KeyDigits : k = Key!Plain("0")
      BY <2>1
    <3>2. Append(none, k) \in Seq(KeyDigits)
      BY CountGrows
    <3>3. Append(<<>>, k) = <<k>>
      OBVIOUS
    <3> QED
      BY <1>1, <3>1, <3>2, <3>3
  <2>3. d = d \o <<>> /\ <<>> \in Seq(Key!Keys)
    BY ConcatEmptySeq, EmptySeq
  <2> QED
    BY <1>2, <2>2, <2>3, WordIsOne
<1>3. CASE h.keys # <<Key!Plain("0")>>
  <2>1. PICK r \in Seq(Key!Keys) : r = h.keys /\ ~ Key!IsDigit(r[1])
    <3>1. \A k \in Loners : k \in Key!Keys /\ ~ Key!IsDigit(k)
      BY DEF Loners
    <3>2. HintSays(h)
      BY HintsSay
    <3>3. \A c \in {"g", "d", "o", "z"} : Key!Plain(c) \in Key!Keys /\ ~ Key!IsDigit(Key!Plain(c))
      BY DEF Key!Keys, Key!IsDigit, Key!Plain
    <3>4. CASE \E k \in Loners : h.keys = <<k>>
      <4>1. PICK k \in Loners : h.keys = <<k>>
        BY <3>4
      <4>2. k \in Key!Keys /\ ~ Key!IsDigit(k)
        BY <3>1
      <4>3. <<k>> \in Seq(Key!Keys) /\ <<k>>[1] = k
        BY <4>2
      <4> QED
        BY <4>1, <4>2, <4>3
    <3>5. CASE \E c \in {"g", "d", "o", "z"}, k \in Key!Keys : h.keys = <<Key!Plain(c), k>>
      <4>1. PICK c \in {"g", "d", "o", "z"}, k \in Key!Keys : h.keys = <<Key!Plain(c), k>>
        BY <3>5
      <4>2. PICK p \in Key!Keys : p = Key!Plain(c) /\ ~ Key!IsDigit(p)
        BY <3>3
      <4>3. <<p, k>> \in Seq(Key!Keys) /\ <<p, k>>[1] = p
        OBVIOUS
      <4> QED
        BY <4>1, <4>2, <4>3
    <3>6. Key!Plain("g") \in Key!Keys /\ Key!Plain("d") \in Key!Keys
      BY <3>3
    <3> QED
      BY <1>3, <3>2, <3>4, <3>5, <3>6 DEF HintSays
  <2>2. none \o r = r
    BY <1>1, <2>1, ConcatEmptySeq
  <2>3. ds \o rest = none \o r
    BY <2>1, <2>2
  <2>4. ds = none /\ rest = r
    BY <2>1, <2>3, WordIsOne
  <2> QED
    BY <1>1, <1>3, <2>1, <2>4
<1> QED
  BY <1>2, <1>3

\* What WordsMeanWhatTheySay asks of a word.
WordsHold(ds, rest, a) ==
  /\ a.name \in {"down", "up", "half_page_down", "half_page_up"} =>
       Len(rest) = 1 /\ a.n = IF ds = <<>> THEN 1 ELSE CountOf(ds)
  /\ a.name = "row" =>
       /\ rest \in {<<Key!Plain("G")>>, <<Key!Plain("g"), Key!Plain("g")>>}
       /\ ds # <<>> /\ a.n + 1 = CountOf(ds)
  /\ a.name = "kill" =>
       \/ rest = <<Key!Plain("d"), Key!Plain("d")>>
       \/ rest \in {<<Key!Plain("x")>>, <<Key!Plain("g"), Key!Plain("x")>>}

\* The hint of a word tells its action.
HintHolds(ds, rest, a, h) ==
  (IF h.counted THEN ds # <<>> /\ rest = h.keys ELSE ds \o rest = h.keys) => a.name = h.action

\* A key that is a word of its own.
LEMMA LonerMakes ==
  ASSUME NEW ds \in Seq(KeyDigits), Counts(ds), NEW k \in Loners, NEW a,
         a = IF Key!Motion(k) = "none" THEN Key!Act(Key!Simple(k))
             ELSE Key!Moved(IF ds = <<>> THEN 1 ELSE CountOf(ds), Key!Motion(k))
  PROVE  /\ WordsHold(ds, <<k>>, a)
         /\ a.name \in MoveNames \cup ListNames \cup AgentNames \cup {"none"} /\ (a.name = "none" => a = Key!NoAct)
         /\ ds = <<>> => a.name = OneSays(k)
         /\ Key!Motion(k) \in {"down", "up"} => a.name = Key!Motion(k)
<1>1. Key!Motion(k) \in {"down", "up", "half_page_down", "half_page_up", "bottom", "none"}
  BY DEF Key!Motion
<1>2. CASE Key!Motion(k) = "none"
  <2>1. a = [name |-> Key!Simple(k), n |-> 0]
    BY <1>2 DEF Key!Act
  <2>2. /\ Key!Simple(k) \in {"quit", "expand", "next_attention", "prev_attention", "kill", "interrupt", "refresh",
                              "help", "search", "jump", "none"}
        /\ Key!Simple(k) = "kill" => k = Key!Plain("x")
    BY DEF Key!Simple
  <2> QED
    BY <1>2, <2>1, <2>2 DEF WordsHold, MoveNames, ListNames, AgentNames, Key!NoAct, Key!Act, OneSays
<1>3. CASE Key!Motion(k) \in {"down", "up", "half_page_down", "half_page_up"}
  <2>1. a = [name |-> Key!Motion(k), n |-> IF ds = <<>> THEN 1 ELSE CountOf(ds)]
    BY <1>3 DEF Key!Moved
  <2> QED
    BY <1>3, <2>1 DEF WordsHold, MoveNames, OneSays
<1>4. CASE Key!Motion(k) = "bottom"
  <2>1. PICK n \in Nat \ {0} : n = IF ds = <<>> THEN 1 ELSE CountOf(ds)
    BY DEF Counts
  <2>2. a = IF n = 1 THEN [name |-> "last_row", n |-> 0] ELSE [name |-> "row", n |-> n - 1]
    BY <1>4, <2>1 DEF Key!Moved, Key!Act
  <2>3. k = Key!Plain("G")
    BY <1>4 DEF Key!Motion
  <2> QED
    BY <1>4, <2>1, <2>2, <2>3 DEF WordsHold, MoveNames, OneSays
<1> QED
  BY <1>1, <1>2, <1>3, <1>4

\* The second key of a chord.
LEMMA ChordMakes ==
  ASSUME NEW ds \in Seq(KeyDigits), Counts(ds), NEW k \in Key!Keys, NEW rest, NEW a,
         \/ rest = <<Key!Plain("g"), k>> /\ a = Key!StepG(CountOf(ds), k).act
         \/ rest = <<Key!Plain("d"), k>> /\ a = Key!StepD(k).act
         \/ rest = <<Key!Plain("o"), k>> /\ a = Key!StepO(k).act
         \/ rest = <<Key!Plain("z"), k>> /\ a = Key!StepZ(k).act
  PROVE  /\ WordsHold(ds, rest, a)
         /\ a.name \in MoveNames \cup ListNames \cup AgentNames \cup {"none"} /\ (a.name = "none" => a = Key!NoAct)
<1> USE DEF WordsHold, MoveNames, ListNames, AgentNames, Key!NoAct, Key!Act, Key!Emit
<1>0. ~ Key!Plain("g") = Key!Plain("d") /\ ~ Key!Plain("g") = Key!Plain("o") /\ ~ Key!Plain("g") = Key!Plain("z")
      /\ ~ Key!Plain("d") = Key!Plain("o") /\ ~ Key!Plain("d") = Key!Plain("z")
  BY DEF Key!Plain
<1>1. CASE rest = <<Key!Plain("g"), k>> /\ a = Key!StepG(CountOf(ds), k).act
  <2>1. CASE k = Key!Plain("g")
    <3>1. PICK n \in Nat : n = CountOf(ds) /\ (n = 0 <=> ds = <<>>)
      BY CountGrows, DigitsCount DEF Counts, KeyDigits
    <3>2. a = IF n = 0 THEN [name |-> "first_row", n |-> 0] ELSE [name |-> "row", n |-> n - 1]
      BY <1>1, <2>1, <3>1 DEF Key!StepG
    <3> QED
      BY <1>0, <1>1, <2>1, <3>1, <3>2
  <2>2. CASE k # Key!Plain("g")
    <3>1. a = [name |-> Key!Simple(k), n |-> 0]
      BY <1>1, <2>2 DEF Key!StepG
    <3>2. /\ Key!Simple(k) \in {"quit", "expand", "next_attention", "prev_attention", "kill", "interrupt", "refresh",
                                "help", "search", "jump", "none"}
          /\ Key!Simple(k) = "kill" => k = Key!Plain("x")
      BY DEF Key!Simple
    <3> QED
      BY <1>0, <1>1, <2>2, <3>1, <3>2
  <2> QED
    BY <2>1, <2>2
<1>2. CASE rest = <<Key!Plain("d"), k>> /\ a = Key!StepD(k).act
  <2>1. a = IF k = Key!Plain("d") THEN [name |-> "kill", n |-> 0] ELSE [name |-> "none", n |-> 0]
    BY <1>2 DEF Key!StepD
  <2> QED
    BY <1>0, <1>2, <2>1
<1>3. CASE rest = <<Key!Plain("o"), k>> /\ a = Key!StepO(k).act
  <2>1. /\ a = [name |-> a.name, n |-> 0]
        /\ a.name \in {"spawn_left", "spawn_below", "spawn_above", "spawn_right", "spawn", "none"}
    BY <1>3 DEF Key!StepO
  <2> QED
    BY <1>0, <1>3, <2>1
<1>4. CASE rest = <<Key!Plain("z"), k>> /\ a = Key!StepZ(k).act
  <2>1. /\ a = [name |-> a.name, n |-> 0]
        /\ a.name \in {"collapse_all", "expand_all", "close_fold", "expand", "toggle_fold", "none"}
    BY <1>4 DEF Key!StepZ
  <2> QED
    BY <1>0, <1>4, <2>1
<1> QED
  BY <1>1, <1>2, <1>3, <1>4

\* gg after a count goes to the row of its number, and to the first without one; dd kills.
LEMMA DoublesMake ==
  ASSUME NEW ds \in Seq(KeyDigits), Counts(ds)
  PROVE  /\ Key!StepG(CountOf(ds), Key!Plain("g")).act.name = IF ds = <<>> THEN "first_row" ELSE "row"
         /\ Key!StepD(Key!Plain("d")).act.name = "kill"
<1>1. PICK n \in Nat : n = CountOf(ds) /\ (n = 0 <=> ds = <<>>)
  BY CountGrows, DigitsCount DEF Counts, KeyDigits
<1>2. Key!StepG(n, Key!Plain("g")).act.name = IF n = 0 THEN "first_row" ELSE "row"
  BY DEF Key!StepG, Key!Emit, Key!Act
<1>3. Key!StepD(Key!Plain("d")).act.name = "kill"
  BY DEF Key!StepD, Key!Emit, Key!Act
<1> QED
  BY <1>1, <1>2, <1>3

\* Each hint of a word tells its action.
LEMMA MakesHinted ==
  ASSUME NEW ds \in Seq(KeyDigits), NEW rest \in Seq(Key!Keys), rest # <<>> => Counts(ds),
         NEW a, Makes(ds, rest, a), NEW h \in Hints
  PROVE  HintHolds(ds, rest, a, h)
<1>1. rest # <<>> => ~ Key!IsDigit(rest[1])
  BY RestStarts
<1>2. HintSays(h)
  BY HintsSay
<1>3. /\ ~ Key!Plain("g") = Key!Plain("d") /\ ~ Key!Plain("g") = Key!Plain("o") /\ ~ Key!Plain("g") = Key!Plain("z")
      /\ ~ Key!Plain("d") = Key!Plain("o") /\ ~ Key!Plain("d") = Key!Plain("z") /\ ~ Key!Plain("o") = Key!Plain("z")
  BY DEF Key!Plain
<1>4. CASE h.counted
  <2> SUFFICES ASSUME ds # <<>>, rest = h.keys  PROVE a.name = h.action
    BY <1>4 DEF HintHolds
  <2>1. CASE \E k \in Loners : h.keys = <<k>> /\ Key!Motion(k) \in {"down", "up"} /\ h.action = Key!Motion(k)
    <3>1. PICK k \in Loners : h.keys = <<k>> /\ Key!Motion(k) \in {"down", "up"} /\ h.action = Key!Motion(k)
      BY <2>1
    <3>2. a = Key!Moved(CountOf(ds), Key!Motion(k))
      BY <3>1 DEF Makes
    <3> QED
      BY <3>1, <3>2 DEF Key!Moved
  <2>2. CASE h.keys = <<Key!Plain("g"), Key!Plain("g")>> /\ h.action = IF h.counted THEN "row" ELSE "first_row"
    <3>1. a = Key!StepG(CountOf(ds), Key!Plain("g")).act
      BY <1>3, <2>2 DEF Makes
    <3>2. Counts(ds)
      BY <2>2
    <3>3. a.name = "row"
      BY <3>1, <3>2, DoublesMake
    <3> QED
      BY <1>4, <2>2, <3>3
  <2> QED
    BY <1>2, <1>4, <2>1, <2>2 DEF HintSays
<1>5. CASE ~ h.counted
  <2> SUFFICES ASSUME ds \o rest = h.keys  PROVE a.name = h.action
    BY <1>5 DEF HintHolds
  <2>1. \/ h.keys = <<Key!Plain("0")>> /\ ds = <<Key!Plain("0")>> /\ rest = <<>>
        \/ h.keys # <<Key!Plain("0")>> /\ ds = <<>> /\ rest = h.keys
    BY <1>1, <1>5, HintWord
  <2>2. CASE h.keys = <<Key!Plain("0")>>
    <3>1. a = Key!Act("first_row")
      BY <2>1, <2>2 DEF Makes
    <3>2. h.action = "first_row"
      <4>1. Key!Plain("0") \notin Loners
        BY DEF Loners, Key!IsDigit, Key!Plain
      <4> QED
        BY <1>2, <1>5, <2>2, <4>1 DEF HintSays
    <3> QED
      BY <3>1, <3>2 DEF Key!Act
  <2>3. ASSUME h.keys # <<Key!Plain("0")>>  PROVE Counts(ds) /\ ds = <<>> /\ rest = h.keys
    BY <2>1, <2>3 DEF Counts
  <2>4. ASSUME NEW k \in Loners, h.keys = <<k>>, h.keys # <<Key!Plain("0")>>, h.action = OneSays(k)
        PROVE  a.name = h.action
    <3>1. a = IF Key!Motion(k) = "none" THEN Key!Act(Key!Simple(k)) ELSE Key!Moved(IF ds = <<>> THEN 1 ELSE CountOf(ds), Key!Motion(k))
      <4>1. rest = <<k>>
        BY <2>3, <2>4
      <4>2. \E j \in Loners :
              /\ rest = <<j>>
              /\ a = IF Key!Motion(j) = "none" THEN Key!Act(Key!Simple(j))
                     ELSE Key!Moved(IF ds = <<>> THEN 1 ELSE CountOf(ds), Key!Motion(j))
        BY <4>1 DEF Makes
      <4> QED
        BY <4>1, <4>2
    <3> QED
      BY <2>3, <2>4, <3>1, LonerMakes
  <2>5. ASSUME h.keys = <<Key!Plain("g"), Key!Plain("g")>>, h.action = "first_row"
        PROVE  a.name = h.action
    <3>1. Counts(ds) /\ ds = <<>> /\ rest = <<Key!Plain("g"), Key!Plain("g")>>
      BY <2>3, <2>5
    <3>2. a = Key!StepG(CountOf(ds), Key!Plain("g")).act
      BY <1>3, <3>1 DEF Makes
    <3>3. a.name = "first_row"
      BY <3>1, <3>2, DoublesMake
    <3> QED
      BY <2>5, <3>3
  <2>6. ASSUME h.keys = <<Key!Plain("d"), Key!Plain("d")>>, h.action = "kill"
        PROVE  a.name = h.action
    <3>1. Counts(ds) /\ rest = <<Key!Plain("d"), Key!Plain("d")>>
      BY <2>3, <2>6
    <3>2. a = Key!StepD(Key!Plain("d")).act
      BY <1>3, <3>1 DEF Makes
    <3>3. a.name = "kill"
      BY <3>1, <3>2, DoublesMake
    <3> QED
      BY <2>6, <3>3
  <2>7. ASSUME NEW k \in Key!Keys, h.keys = <<Key!Plain("o"), k>>, h.action = Key!StepO(k).act.name
        PROVE  a.name = h.action
    BY <1>3, <2>3, <2>7 DEF Makes
  <2>8. ASSUME NEW k \in Key!Keys, h.keys = <<Key!Plain("z"), k>>, h.action = Key!StepZ(k).act.name
        PROVE  a.name = h.action
    BY <1>3, <2>3, <2>8 DEF Makes
  <2> QED
    BY <1>2, <1>5, <2>2, <2>4, <2>5, <2>6, <2>7, <2>8 DEF HintSays
<1> QED
  BY <1>4, <1>5, HintsSay DEF HintSays

\* What a word makes is what its grammar says, and is in the help.
LEMMA MakesRight ==
  ASSUME NEW ds \in Seq(KeyDigits), NEW rest \in Seq(Key!Keys), rest # <<>> => Counts(ds),
         NEW a, Makes(ds, rest, a)
  PROVE  /\ WordsHold(ds, rest, a)
         /\ a # Key!NoAct => \E h \in Hints : h.action = a.name
<1>1. CASE ds = <<Key!Plain("0")>> /\ rest = <<>> /\ a = Key!Act("first_row")
  <2>1. a.name = "first_row"
    BY <1>1 DEF Key!Act
  <2> QED
    BY <1>1, <2>1, NamesHinted DEF WordsHold, MoveNames
<1>2. ASSUME NEW k \in Loners, rest = <<k>>,
             a = IF Key!Motion(k) = "none" THEN Key!Act(Key!Simple(k))
                 ELSE Key!Moved(IF ds = <<>> THEN 1 ELSE CountOf(ds), Key!Motion(k))
      PROVE  WordsHold(ds, rest, a) /\ (a # Key!NoAct => \E h \in Hints : h.action = a.name)
  BY <1>2, LonerMakes, NamesHinted
<1>3. ASSUME NEW k \in Key!Keys,
             \/ rest = <<Key!Plain("g"), k>> /\ a = Key!StepG(CountOf(ds), k).act
             \/ rest = <<Key!Plain("d"), k>> /\ a = Key!StepD(k).act
             \/ rest = <<Key!Plain("o"), k>> /\ a = Key!StepO(k).act
             \/ rest = <<Key!Plain("z"), k>> /\ a = Key!StepZ(k).act
      PROVE  WordsHold(ds, rest, a) /\ (a # Key!NoAct => \E h \in Hints : h.action = a.name)
  <2>1. rest # <<>>
    <3>1. PICK p : rest = <<p, k>>
      BY <1>3
    <3> QED
      BY <3>1
  <2>2. /\ WordsHold(ds, rest, a)
        /\ a.name \in MoveNames \cup ListNames \cup AgentNames \cup {"none"} /\ (a.name = "none" => a = Key!NoAct)
    BY <1>3, <2>1, ChordMakes
  <2> QED
    BY <2>2, NamesHinted
<1> QED
  BY <1>1, <1>2, <1>3 DEF Makes

\* The keys mean what the grammar and the help say.
LEMMA KeysTell == KeyInv => Key!WordsMeanWhatTheySay /\ Key!HelpTellsTheTruth
<1> SUFFICES ASSUME KeyInv  PROVE Key!WordsMeanWhatTheySay /\ Key!HelpTellsTheTruth
  OBVIOUS
<1>1. PICK n : n = Key!CountDigits(v7)
  OBVIOUS
<1>2. PICK first : first = SubSeq(v7, 1, n)
  OBVIOUS
<1>3. PICK last : last = SubSeq(v7, n + 1, Len(v7))
  OBVIOUS
<1>4. SUFFICES /\ n \in Nat /\ (n = 0 <=> first = <<>>)
               /\ WordsHold(first, last, v5)
               /\ \A h \in Hints : (IF h.counted THEN n > 0 /\ last = h.keys ELSE v7 = h.keys) => v5.name = h.action
               /\ v5 # Key!NoAct => \E h \in Hints : h.action = v5.name
  <2>1. v2 \/ v3 => v1 = Key!Ready
    BY DEF KeyInv
  <2>2. Key!WordsMeanWhatTheySay
    <3>1. PICK typed : typed = CountOf(first)
      OBVIOUS
    <3>2. /\ v5.name \in {"down", "up", "half_page_down", "half_page_up"} => Len(last) = 1 /\ v5.n = IF n = 0 THEN 1 ELSE typed
          /\ v5.name = "row" =>
               /\ last \in {<<Key!Plain("G")>>, <<Key!Plain("g"), Key!Plain("g")>>}
               /\ n > 0 /\ v5.n + 1 = typed
          /\ v5.name = "kill" =>
               \/ last = <<Key!Plain("d"), Key!Plain("d")>>
               \/ last \in {<<Key!Plain("x")>>, <<Key!Plain("g"), Key!Plain("x")>>}
      BY <1>4, <3>1 DEF WordsHold
    <3>3. Key!Capped(Key!Number(first)) = typed
      BY <3>1 DEF CountOf
    <3> QED
      BY ONLY <1>1, <1>2, <1>3, <2>1, <3>2, <3>3 DEF Key!WordsMeanWhatTheySay
  <2>3. Key!HelpTellsTheTruth
    BY <1>1, <1>3, <1>4 DEF Key!HelpTellsTheTruth, Hints
  <2> QED
    BY <2>2, <2>3
<1>5. CASE v5 = Key!NoAct /\ v7 = <<>>
  <2>1. PICK ds \in Seq(KeyDigits) : ds = <<>>
    BY EmptySeq
  <2>2. PICK rest \in Seq(Key!Keys) : rest = <<>>
    BY EmptySeq
  <2>3. ds \o rest = <<>>
    BY <2>1, <2>2, ConcatEmptySeq
  <2>4. Len(ds) = 0
    BY <2>1
  <2>5. n = 0 /\ first = <<>> /\ last = <<>>
    <3>1. /\ Key!CountDigits(ds \o rest) = Len(ds)
          /\ SubSeq(ds \o rest, 1, Len(ds)) = ds
          /\ SubSeq(ds \o rest, Len(ds) + 1, Len(ds \o rest)) = rest
      BY <2>2, WordSplits
    <3> QED
      BY <1>1, <1>2, <1>3, <1>5, <2>1, <2>2, <2>3, <2>4, <3>1
  <2>6. v5.name = "none"
    BY <1>5 DEF Key!NoAct, Key!Act
  <2>7. \A h \in Hints : h.keys # <<>>
    <3> SUFFICES ASSUME NEW h \in Hints  PROVE h.keys # <<>>
      OBVIOUS
    <3>1. \/ \E k : h.keys = <<k>>
          \/ \E p, k : h.keys = <<p, k>>
      BY HintsSay DEF HintSays
    <3>2. CASE \E k : h.keys = <<k>>
      <4>1. PICK k : h.keys = <<k>>
        BY <3>2
      <4> QED
        BY ONLY <4>1
    <3>3. CASE \E p, k : h.keys = <<p, k>>
      <4>1. PICK p, k : h.keys = <<p, k>>
        BY <3>3
      <4> QED
        BY ONLY <4>1
    <3> QED
      BY <3>1, <3>2, <3>3
  <2> QED
    BY <1>5, <2>5, <2>6, <2>7 DEF WordsHold
<1>6. ASSUME NEW ds \in Seq(KeyDigits), NEW rest \in Seq(Key!Keys), rest # <<>> => Counts(ds),
             v7 = ds \o rest, Makes(ds, rest, v5)
      PROVE  /\ n \in Nat /\ (n = 0 <=> first = <<>>)
             /\ WordsHold(first, last, v5)
             /\ \A h \in Hints : (IF h.counted THEN n > 0 /\ last = h.keys ELSE v7 = h.keys) => v5.name = h.action
             /\ v5 # Key!NoAct => \E h \in Hints : h.action = v5.name
  <2>1. rest # <<>> => ~ Key!IsDigit(rest[1])
    BY <1>6, RestStarts
  <2>2. n = Len(ds) /\ first = ds /\ last = rest
    <3>1. /\ Key!CountDigits(ds \o rest) = Len(ds)
          /\ SubSeq(ds \o rest, 1, Len(ds)) = ds
          /\ SubSeq(ds \o rest, Len(ds) + 1, Len(ds \o rest)) = rest
      BY <2>1, WordSplits
    <3> QED
      BY <1>1, <1>2, <1>3, <1>6, <3>1
  <2>3. n \in Nat /\ (n = 0 <=> ds = <<>>)
    BY <2>2, EmptySeq, LenProperties
  <2>4. WordsHold(ds, rest, v5) /\ (v5 # Key!NoAct => \E h \in Hints : h.action = v5.name)
    BY <1>6, MakesRight
  <2>5. ASSUME NEW h \in Hints, IF h.counted THEN n > 0 /\ last = h.keys ELSE v7 = h.keys
        PROVE  v5.name = h.action
    <3>1. HintHolds(ds, rest, v5, h)
      BY <1>6, MakesHinted
    <3> QED
      BY <1>6, <2>2, <2>3, <2>5, <3>1 DEF HintHolds
  <2> QED
    BY <2>2, <2>3, <2>4, <2>5
<1> QED
  BY <1>5, <1>6 DEF KeyInv, Told

-----------------------------------------------------------------------------
(* The parts together: each step is of the part that `part` names, which      *)
(* stays, and changes what its variables are.                                *)

PartsInv ==
  /\ part = "figures" => FiguresInv
  /\ part = "status" => StatusInv
  /\ part = "files" => FilesInv
  /\ part = "skill" => SkillInv
  /\ part = "scan" => ScanInv
  /\ part = "key" => KeyInv

\* Whichever part it is, its invariant holds at first.
LEMMA PartsInit == Init => PartsInv
BY FiguresInit, StatusInit, FilesInit, SkillInit, ScanInit, KeyInit DEF Init, PartsInv

\* Each step is of one part, and keeps its invariant.
LEMMA PartsStep ==
  ASSUME PartsInv, [Next]_vars
  PROVE  /\ PartsInv'
         /\ part' = part
         /\ part = "figures" => [Figures!Next]_<<v1, v2, v3>>
         /\ part = "status" => [Status!Next]_<<v1, v2, v3>>
         /\ part = "files" => [Files!Next]_<<v1, v2>>
         /\ part = "skill" => [Skill!Next]_<<v1, v2>>
         /\ part = "scan" => [Scan!Next]_<<v1, v2>>
         /\ part = "key" => [Key!Next]_<<v1, v2, v3, v4, v5, v6, v7, v8>>
<1>1. /\ part' = part
      /\ part = "figures" => [Figures!Next]_<<v1, v2, v3>>
      /\ part = "status" => [Status!Next]_<<v1, v2, v3>>
      /\ part = "files" => [Files!Next]_<<v1, v2>>
      /\ part = "skill" => [Skill!Next]_<<v1, v2>>
      /\ part = "scan" => [Scan!Next]_<<v1, v2>>
      /\ part = "key" => [Key!Next]_<<v1, v2, v3, v4, v5, v6, v7, v8>>
  BY DEF Next, vars, Of, Of2, Of3, Of6
<1>2. part = "figures" => FiguresInv'
  BY <1>1, FiguresKeepInv DEF PartsInv
<1>3. part = "status" => StatusInv'
  BY <1>1, StatusKeepsInv DEF PartsInv
<1>4. part = "files" => FilesInv'
  BY <1>1, FilesKeepInv DEF PartsInv
<1>5. part = "skill" => SkillInv'
  BY <1>1, SkillKeepsInv DEF PartsInv
<1>6. part = "scan" => ScanInv'
  BY <1>1, ScanKeepsInv DEF PartsInv
<1>7. part = "key" => KeyInv'
  BY <1>1, KeyKeepsInv DEF PartsInv
<1> QED
  BY <1>1, <1>2, <1>3, <1>4, <1>5, <1>6, <1>7 DEF PartsInv

\* PartsInv: each part's invariant holds in every state.
THEOREM PartsHold == Spec => []PartsInv
<1>1. PartsInv /\ [Next]_vars => PartsInv'
  BY PartsStep
<1> QED
  BY <1>1, PartsInit, PTL DEF Spec

\* FiguresTrue: whatever reports come, in whatever order and with whatever is missing from
\* them, a row shows a context the agent had, and a known window; and the cost and the
\* context of now once the agent has told them and nothing is under way.
THEOREM FiguresHold == Spec => []FiguresTrue
<1>1. PartsInv => FiguresTrue
  BY FiguresShown DEF PartsInv, FiguresTrue
<1> QED
  BY <1>1, PartsHold, PTL

\* StatusTrue: whichever hooks are lost, and wherever its children's arrive between its own,
\* the row of an agent that has told its phase shows it once nothing is under way.
THEOREM StatusHolds == Spec => []StatusTrue
<1>1. PartsInv => StatusTrue
  BY StatusShown DEF PartsInv, StatusTrue
<1> QED
  BY <1>1, PartsHold, PTL

\* SettingsSound: whatever runs, write failures and edits come in between, the user's status
\* line is in the settings or in the backup, and no hook runs a script that is gone, or twice.
THEOREM SettingsHold == Spec => []SettingsSound
<1>1. PartsInv => SettingsSound
  BY FilesShown DEF PartsInv, SettingsSound
<1> QED
  BY <1>1, PartsHold, PTL

\* RunsLoseNothing: no run takes the user's own commands out of a settings file that it does
\* not tear, or leaves less than a whole copy of a skill where there was one.
THEOREM RunsKeepWhatIsThere == Spec => RunsLoseNothing
<1>1. PartsInv /\ [Next]_vars =>
        [(part = "files" => Files!KeepsOwnHooks) /\ (part = "skill" => Skill!LeavesWhole)]_vars
  BY PartsStep, FilesKeepOwn, SkillKeepsInv DEF PartsInv
<1> QED
  BY <1>1, PartsHold, PTL DEF Spec, RunsLoseNothing

\* OneRowPerAgent: a scan beside which no process started or exited lists each agent once,
\* by its own pid, whatever launched it; and the pid that the hook script of a Codex session,
\* or of a Claude Code that no other started, reports is of the same launch.
THEOREM ScansHold == Spec => []OneRowPerAgent
<1>1. PartsInv => OneRowPerAgent
  BY ScanShown DEF PartsInv, OneRowPerAgent
<1> QED
  BY <1>1, PartsHold, PTL

\* WordsMeanWhatTheySay: whatever keys are typed, with whatever counts before them and
\* prompts and help texts in between, the action made is the one that the grammar of the
\* keys and the help give to the keys since the last one, and each action is in the help.
THEOREM KeysHold == Spec => []WordsMeanWhatTheySay
<1>1. PartsInv => WordsMeanWhatTheySay
  BY KeysTell DEF PartsInv, WordsMeanWhatTheySay
<1> QED
  BY <1>1, PartsHold, PTL

=============================================================================
