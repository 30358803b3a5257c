--------------------------- MODULE BackgroundProofs ---------------------------
(***************************************************************************)
(* Proofs about the parts that MCBackground runs, for every value of the   *)
(* constants: the slots of the git lookups, the server's places, the order *)
(* of the pi extension's events, and the width of the sidebar.  A step of  *)
(* one part leaves the others alone, so each invariant speaks of one part. *)
(***************************************************************************)
EXTENDS MCBackground, FunctionTheorems, FiniteSetTheorems, SequenceTheorems, TLAPS

-----------------------------------------------------------------------------
(* Lemmas about sequences of results *)

\* Reported(results, d): where the finished lookups of d are in the channel.
Reported(results, d) == {k \in DOMAIN results : results[k].dir = d}

LEMMA ReportedFinite ==
  ASSUME NEW S, NEW results \in Seq(S), NEW d
  PROVE  /\ IsFiniteSet(Reported(results, d))
         /\ Cardinality(Reported(results, d)) \in Nat
<1>1. /\ Reported(results, d) \subseteq 1 .. Len(results)
      /\ 1 \in Int /\ Len(results) \in Int
  BY DEF Reported
<1>2. IsFiniteSet(1 .. Len(results))
  BY <1>1, FS_Interval
<1>3. IsFiniteSet(Reported(results, d))
  BY <1>1, <1>2, FS_Subset
<1> QED
  BY <1>3, FS_CardinalityType

\* ReportedAppend: a lookup that reports is one more of its directory, and none
\* of another.
LEMMA ReportedAppend ==
  ASSUME NEW S, NEW results \in Seq(S), NEW x \in S, NEW d
  PROVE  Cardinality(Reported(Append(results, x), d)) =
           IF x.dir = d THEN Cardinality(Reported(results, d)) + 1
           ELSE Cardinality(Reported(results, d))
<1>1. CASE x.dir = d
  <2>1. Reported(Append(results, x), d) = Reported(results, d) \cup {Len(results) + 1}
    BY <1>1 DEF Reported
  <2>2. Len(results) + 1 \notin Reported(results, d)
    BY DEF Reported
  <2>3. IsFiniteSet(Reported(results, d))
    BY ReportedFinite
  <2>4. Cardinality(Reported(results, d) \cup {Len(results) + 1}) = Cardinality(Reported(results, d)) + 1
    BY <2>2, <2>3, FS_AddElement
  <2> QED
    BY <1>1, <2>1, <2>4
<1>2. CASE x.dir # d
  <2>1. Reported(Append(results, x), d) = Reported(results, d)
    BY <1>2 DEF Reported
  <2> QED
    BY <1>2, <2>1
<1> QED
  BY <1>1, <1>2

\* ReportedTail: taking the oldest result leaves one fewer of its directory.
LEMMA ReportedTail ==
  ASSUME NEW S, NEW results \in Seq(S), results # <<>>, NEW d
  PROVE  Cardinality(Reported(Tail(results), d)) =
           IF Head(results).dir = d THEN Cardinality(Reported(results, d)) - 1
           ELSE Cardinality(Reported(results, d))
<1> DEFINE Rest == Reported(results, d) \ {1}
           shift == [k \in Rest |-> k - 1]
<1>1. /\ DOMAIN results = 1 .. Len(results) /\ Len(results) \in Nat \ {0}
      /\ DOMAIN Tail(results) = 1 .. Len(results) - 1
      /\ \A k \in 1 .. Len(results) - 1 : Tail(results)[k] = results[k + 1]
      /\ Head(results) = results[1]
  OBVIOUS
<1>2. shift \in [Rest -> Reported(Tail(results), d)]
  <2>1. ASSUME NEW k \in Rest  PROVE  k - 1 \in Reported(Tail(results), d)
    <3>1. k \in 1 .. Len(results) /\ k # 1 /\ results[k].dir = d
      BY <1>1 DEF Reported
    <3>2. k - 1 \in 1 .. Len(results) - 1 /\ (k - 1) + 1 = k
      BY <1>1, <3>1
    <3> QED
      BY <1>1, <3>1, <3>2 DEF Reported
  <2> QED
    BY <2>1
<1>3. \A a, b \in Rest : shift[a] = shift[b] => a = b
  <2>1. \A k \in Rest : k \in Nat
    BY <1>1 DEF Reported
  <2> QED
    BY <2>1
<1>4. \A t \in Reported(Tail(results), d) : \E k \in Rest : shift[k] = t
  <2> SUFFICES ASSUME NEW t \in Reported(Tail(results), d)
               PROVE  t + 1 \in Rest /\ shift[t + 1] = t
    OBVIOUS
  <2>1. t \in 1 .. Len(results) - 1 /\ results[t + 1].dir = d
    BY <1>1 DEF Reported
  <2>2. t + 1 \in 1 .. Len(results) /\ t + 1 # 1 /\ (t + 1) - 1 = t
    BY <1>1, <2>1
  <2> QED
    BY <1>1, <2>1, <2>2 DEF Reported
<1>5. /\ IsFiniteSet(Rest)
      /\ Cardinality(Rest) = IF 1 \in Reported(results, d) THEN Cardinality(Reported(results, d)) - 1
                             ELSE Cardinality(Reported(results, d))
  BY ReportedFinite, FS_RemoveElement
<1>6. Cardinality(Reported(Tail(results), d)) = Cardinality(Rest)
  <2>1. shift \in Bijection(Rest, Reported(Tail(results), d))
    BY <1>2, <1>3, <1>4, Fun_IsBij
  <2> QED
    BY <1>5, <2>1, FS_Bijection, Fun_ExistsBij
<1>7. 1 \in Reported(results, d) <=> Head(results).dir = d
  BY <1>1 DEF Reported
<1> QED
  BY <1>5, <1>6, <1>7

-----------------------------------------------------------------------------
(* The git lookups.  Their variables are v1 .. v9: disk, cwd, context,      *)
(* in_flight, threads, hung, git_results, changes and faults.               *)

\* Slots: each directory has one lookup while it holds its slot, else none.
Slots(in_flight, threads, hung, results) ==
  \A d \in Dirs :
    threads[d] + hung[d] + Cardinality(Reported(results, d)) = IF d \in in_flight THEN 1 ELSE 0

\* OwnResults: what a lookup found is the context of its own directory.
OwnResults(results) ==
  \A k \in DOMAIN results :
    results[k].context = Panicked \/ results[k].context.dir = results[k].dir

GitInv == Git!TypeOK /\ Slots(v4, v5, v6, v7) /\ OwnResults(v7)

\* The same operator, as GitLookups sees it.
LEMMA GitCardinality == \A S : Git!Cardinality(S) = Cardinality(S)
  BY DEF Git!Cardinality, Cardinality

LEMMA SlotsIsSlotsExact == Slots(v4, v5, v6, v7) => Git!SlotsExact
<1>1. \A d : Reported(v7, d) = {k \in DOMAIN v7 : v7[k].dir = d}
  BY DEF Reported
<1>2. ASSUME Slots(v4, v5, v6, v7), NEW d \in Dirs
      PROVE  v5[d] + v6[d] + Git!Cardinality({k \in DOMAIN v7 : v7[k].dir = d}) = IF d \in v4 THEN 1 ELSE 0
  BY <1>1, <1>2, GitCardinality DEF Slots
<1> QED
  BY <1>2 DEF Git!SlotsExact

LEMMA GitInit == Git!Init => GitInv
<1> SUFFICES ASSUME Git!Init  PROVE GitInv
  OBVIOUS
<1>1. Git!TypeOK
  BY BackgroundAssumption DEF Git!Init, Git!TypeOK
<1>2. v7 = <<>>
  BY DEF Git!Init
<1>3. \A d : Reported(v7, d) = {}
  BY <1>2 DEF Reported
<1>4. Slots(v4, v5, v6, v7)
  <2>1. Cardinality({}) = 0
    BY FS_EmptySet
  <2>2. ASSUME NEW d \in Dirs
        PROVE  v5[d] = 0 /\ v6[d] = 0 /\ d \notin v4 /\ Cardinality(Reported(v7, d)) = 0
    BY <1>3, <2>1 DEF Git!Init
  <2> QED
    BY <2>2 DEF Slots
<1> QED
  BY <1>1, <1>2, <1>4 DEF GitInv, OwnResults

\* A fault is counted, within the bound.
LEMMA FaultBound ==
  ASSUME Git!TypeOK, Git!Fault \/ v9' = v9
  PROVE  v9' \in 0 .. MaxFaults
  BY BackgroundAssumption DEF Git!TypeOK, Git!Fault

LEMMA ChangeBound ==
  ASSUME Git!TypeOK, Git!Change \/ v8' = v8
  PROVE  v8' \in 0 .. MaxChanges
  BY BackgroundAssumption DEF Git!TypeOK, Git!Change

\* RequestSlots: asking for directories that have a lookup starts none, and a
\* thread that does not start takes no slot.
LEMMA RequestSlots ==
  ASSUME GitInv, NEW ds \in SUBSET Dirs, Git!Request(ds), v6' = v6, v7' = v7
  PROVE  /\ v4' \subseteq Dirs /\ v5' \in [Dirs -> Nat]
         /\ v9' \in 0 .. MaxFaults
         /\ Slots(v4, v5, v6, v7)'
<1>1. PICK failed \in SUBSET (ds \ v4) : Git!Requested(ds, failed)
  <2>1. CASE Git!Requested(ds, {})
    BY <2>1
  <2>2. CASE \E f \in ds \ v4 : Git!Requested(ds, {f})
    BY <2>2
  <2> QED
    BY <2>1, <2>2 DEF Git!Request
<1>2. /\ v4' = v4 \cup (ds \ failed)
      /\ v5' = [d \in Dirs |-> IF d \in ds \ (failed \cup v4) THEN v5[d] + 1 ELSE v5[d]]
  BY <1>1 DEF Git!Requested
<1>3. /\ v4 \subseteq Dirs /\ v5 \in [Dirs -> Nat] /\ v6 \in [Dirs -> Nat]
      /\ \A d : Cardinality(Reported(v7, d)) \in Nat
  BY ReportedFinite DEF GitInv, Git!TypeOK
<1>4. ASSUME NEW d \in Dirs
      PROVE  v5'[d] + v6'[d] + Cardinality(Reported(v7', d)) = IF d \in v4' THEN 1 ELSE 0
  <2>1. v5[d] + v6[d] + Cardinality(Reported(v7, d)) = IF d \in v4 THEN 1 ELSE 0
    BY DEF GitInv, Slots
  <2>2. CASE d \in ds \ (failed \cup v4)
    BY <1>2, <1>3, <2>1, <2>2
  <2>3. CASE d \notin ds \ (failed \cup v4)
    BY <1>1, <1>2, <1>3, <2>1, <2>3
  <2> QED
    BY <2>2, <2>3
<1>5. v9' \in 0 .. MaxFaults
  BY FaultBound DEF GitInv, Git!Request
<1> QED
  BY <1>2, <1>3, <1>4, <1>5 DEF Slots

\* The steps that ask for lookups: they change neither the channel nor the disk.
LEMMA RequestInv ==
  ASSUME GitInv, NEW ds \in SUBSET Dirs, Git!Request(ds),
         v1' = v1, v6' = v6, v7' = v7, v8' \in 0 .. MaxChanges,
         v2' \in [Sessions -> Dirs \cup {NoDir}],
         v3' \in [Sessions -> Git!Contexts \cup {NoContext}]
  PROVE  GitInv'
<1>1. /\ v4' \subseteq Dirs /\ v5' \in [Dirs -> Nat]
      /\ v9' \in 0 .. MaxFaults
      /\ Slots(v4, v5, v6, v7)'
  BY RequestSlots
<1>2. Git!TypeOK'
  BY <1>1 DEF GitInv, Git!TypeOK
<1>3. OwnResults(v7)'
  BY DEF GitInv, OwnResults
<1> QED
  BY <1>1, <1>2, <1>3 DEF GitInv
\* What a lookup reports has the type of a result and is its directory's own.
LEMMA ReportsInv ==
  ASSUME GitInv, NEW d \in Dirs, NEW found \in Git!Contexts \cup {Panicked},
         found = Panicked \/ found.dir = d,
         Git!Reports(d, found), Git!Fault \/ v9' = v9
  PROVE  GitInv'
<1> DEFINE result == [dir |-> d, context |-> found]
           Results == [dir : Dirs, context : Git!Contexts \cup {Panicked}]
<1>1. /\ v5[d] > 0 /\ v5' = [v5 EXCEPT ![d] = @ - 1]
      /\ v7' = Append(v7, result)
      /\ UNCHANGED <<v1, v2, v3, v4, v6, v8>>
  BY DEF Git!Reports, Git!Ends
<1>2. /\ v5 \in [Dirs -> Nat] /\ v6 \in [Dirs -> Nat]
      /\ v7 \in Seq(Results) /\ result \in Results
      /\ \A e : Cardinality(Reported(v7, e)) \in Nat
  BY ReportedFinite DEF GitInv, Git!TypeOK
<1>3. v7' \in Seq(Results) /\ v5' \in [Dirs -> Nat]
  BY <1>1, <1>2
<1>4. Git!TypeOK'
  BY <1>1, <1>3, FaultBound DEF GitInv, Git!TypeOK
<1>5. ASSUME NEW e \in Dirs
      PROVE  v5'[e] + v6'[e] + Cardinality(Reported(v7', e)) = IF e \in v4' THEN 1 ELSE 0
  <2>1. v5[e] + v6[e] + Cardinality(Reported(v7, e)) = IF e \in v4 THEN 1 ELSE 0
    BY DEF GitInv, Slots
  <2>2. result.dir = d
    OBVIOUS
  <2> HIDE DEF result, Results
  <2>3. Cardinality(Reported(v7', e)) =
          IF e = d THEN Cardinality(Reported(v7, e)) + 1 ELSE Cardinality(Reported(v7, e))
    <3>1. Cardinality(Reported(Append(v7, result), e)) =
            IF result.dir = e THEN Cardinality(Reported(v7, e)) + 1 ELSE Cardinality(Reported(v7, e))
      BY <1>2, ReportedAppend
    <3> QED
      BY <1>1, <2>2, <3>1
  <2>4. CASE e = d
    BY <1>1, <1>2, <2>1, <2>3, <2>4
  <2>5. CASE e # d
    BY <1>1, <1>2, <2>1, <2>3, <2>5
  <2> QED
    BY <2>4, <2>5
<1>6. OwnResults(v7)'
  <2>1. ASSUME NEW k \in DOMAIN v7'
        PROVE  v7'[k].context = Panicked \/ v7'[k].context.dir = v7'[k].dir
    <3>1. \/ k \in DOMAIN v7 /\ v7'[k] = v7[k]
          \/ v7'[k] = result
      BY <1>1, <1>2
    <3> QED
      BY <3>1 DEF GitInv, OwnResults
  <2> QED
    BY <2>1 DEF OwnResults
<1> QED
  BY <1>4, <1>5, <1>6 DEF GitInv, Slots

\* HangsInv: a lookup that hangs keeps its directory's slot.
LEMMA HangsInv ==
  ASSUME GitInv, NEW d \in Dirs, Git!Hangs(d)
  PROVE  GitInv'
<1>1. /\ v5[d] > 0 /\ v5' = [v5 EXCEPT ![d] = @ - 1]
      /\ v6' = [v6 EXCEPT ![d] = @ + 1]
      /\ UNCHANGED <<v1, v2, v3, v4, v7, v8>>
      /\ v9' \in 0 .. MaxFaults
  BY FaultBound DEF Git!Hangs, Git!Ends, GitInv
<1>2. /\ v5 \in [Dirs -> Nat] /\ v6 \in [Dirs -> Nat]
      /\ \A e : Cardinality(Reported(v7, e)) \in Nat
  BY ReportedFinite DEF GitInv, Git!TypeOK
<1>3. Git!TypeOK'
  BY <1>1, <1>2 DEF GitInv, Git!TypeOK
<1>4. ASSUME NEW e \in Dirs
      PROVE  v5'[e] + v6'[e] + Cardinality(Reported(v7', e)) = IF e \in v4' THEN 1 ELSE 0
  <2>1. v5[e] + v6[e] + Cardinality(Reported(v7, e)) = IF e \in v4 THEN 1 ELSE 0
    BY DEF GitInv, Slots
  <2>2. v5'[e] + v6'[e] = v5[e] + v6[e]
    BY <1>1, <1>2
  <2> QED
    BY <1>1, <2>1, <2>2
<1> QED
  BY <1>1, <1>3, <1>4 DEF GitInv, Slots, OwnResults

\* ApplyInv: a result that is applied frees the slot of its directory, and
\* reaches only sessions that are in that directory.
LEMMA ApplyInv ==
  ASSUME GitInv, Git!ApplyGitResult
  PROVE  /\ GitInv'
         /\ \A s \in Sessions : v3'[s] = v3[s] \/ v3'[s].dir = v2'[s]
<1> DEFINE result == Head(v7)
           Results == [dir : Dirs, context : Git!Contexts \cup {Panicked}]
<1>1. /\ v7 # <<>> /\ v7' = Tail(v7)
      /\ v4' = v4 \ {result.dir}
      /\ v3' = IF result.context = Panicked THEN v3 ELSE Git!Applied(result)
      /\ UNCHANGED <<v1, v2, v5, v6, v8, v9>>
  BY DEF Git!ApplyGitResult
<1>2. /\ v4 \subseteq Dirs /\ v5 \in [Dirs -> Nat] /\ v6 \in [Dirs -> Nat]
      /\ v3 \in [Sessions -> Git!Contexts \cup {NoContext}]
      /\ v7 \in Seq(Results)
      /\ \A e : Cardinality(Reported(v7, e)) \in Nat
  BY ReportedFinite DEF GitInv, Git!TypeOK
<1>3. /\ Len(v7) \in Nat \ {0} /\ DOMAIN v7 = 1 .. Len(v7) /\ result = v7[1]
      /\ result \in Results
      /\ v7' \in Seq(Results) /\ DOMAIN v7' = 1 .. Len(v7) - 1
      /\ \A k \in 1 .. Len(v7) - 1 : v7'[k] = v7[k + 1]
  <2> HIDE DEF Results
  <2>1. /\ Len(v7) \in Nat \ {0} /\ DOMAIN v7 = 1 .. Len(v7)
        /\ Head(v7) = v7[1] /\ Head(v7) \in Results
    BY <1>1, <1>2
  <2>2. /\ Tail(v7) \in Seq(Results) /\ DOMAIN Tail(v7) = 1 .. Len(v7) - 1
        /\ \A k \in 1 .. Len(v7) - 1 : Tail(v7)[k] = v7[k + 1]
    BY <1>1, <1>2
  <2> QED
    BY <1>1, <2>1, <2>2
<1> HIDE DEF result
<1>4. \/ result.context = Panicked
      \/ result.context \in Git!Contexts /\ result.context.dir = result.dir
  <2>1. 1 \in DOMAIN v7 /\ result = v7[1]
    BY <1>3
  <2>2. result.context = Panicked \/ result.context.dir = result.dir
    BY <2>1 DEF GitInv, OwnResults
  <2>3. result.context \in Git!Contexts \cup {Panicked}
    BY <1>3
  <2> QED
    BY <2>2, <2>3
<1> HIDE DEF Results
<1>5. /\ \A e : Cardinality(Reported(v7', e)) =
           IF result.dir = e THEN Cardinality(Reported(v7, e)) - 1 ELSE Cardinality(Reported(v7, e))
      /\ 1 \in Reported(v7, result.dir)
  <2>1. ASSUME NEW e
        PROVE  Cardinality(Reported(v7', e)) =
                 IF result.dir = e THEN Cardinality(Reported(v7, e)) - 1 ELSE Cardinality(Reported(v7, e))
    <3>1. Cardinality(Reported(Tail(v7), e)) =
            IF Head(v7).dir = e THEN Cardinality(Reported(v7, e)) - 1 ELSE Cardinality(Reported(v7, e))
      BY <1>1, <1>2, ReportedTail
    <3> QED
      BY <1>1, <3>1 DEF result
  <2>2. 1 \in Reported(v7, result.dir)
    BY <1>3 DEF Reported
  <2> QED
    BY <2>1, <2>2
<1>6. v3' \in [Sessions -> Git!Contexts \cup {NoContext}]
  BY <1>1, <1>2, <1>4 DEF Git!Applied
<1>7. \A s \in Sessions : v3'[s] = v3[s] \/ v3'[s].dir = v2'[s]
  BY <1>1, <1>2, <1>4 DEF Git!Applied
<1>8. ASSUME NEW e \in Dirs
      PROVE  v5'[e] + v6'[e] + Cardinality(Reported(v7', e)) = IF e \in v4' THEN 1 ELSE 0
  <2>1. v5[e] + v6[e] + Cardinality(Reported(v7, e)) = IF e \in v4 THEN 1 ELSE 0
    BY DEF GitInv, Slots
  <2>2. CASE e = result.dir
    <3>1. Cardinality(Reported(v7, e)) > 0
      <4>1. IsFiniteSet(Reported(v7, e)) /\ Reported(v7, e) # {}
        BY <1>2, <1>5, <2>2, ReportedFinite
      <4> QED
        BY <1>2, <4>1, FS_EmptySet
    <3>2. v5'[e] + v6'[e] + Cardinality(Reported(v7', e)) = 0
      BY <1>1, <1>2, <1>5, <2>1, <2>2, <3>1
    <3> QED
      BY <1>1, <2>2, <3>2
  <2>3. CASE e # result.dir
    BY <1>1, <1>5, <2>1, <2>3
  <2> QED
    BY <2>2, <2>3
<1>9. OwnResults(v7)'
  <2>1. ASSUME NEW k \in DOMAIN v7'
        PROVE  v7'[k].context = Panicked \/ v7'[k].context.dir = v7'[k].dir
    <3>1. k + 1 \in DOMAIN v7 /\ v7'[k] = v7[k + 1]
      BY <1>3
    <3> QED
      BY <3>1 DEF GitInv, OwnResults
  <2> QED
    BY <2>1 DEF OwnResults
<1>10. Git!TypeOK'
  BY <1>1, <1>2, <1>3, <1>6 DEF GitInv, Git!TypeOK, Results
<1> QED
  BY <1>7, <1>8, <1>9, <1>10 DEF GitInv, Slots
LEMMA SessionsInv ==
  ASSUME GitInv, NEW s \in Sessions, NEW d \in Dirs, NEW parent \in Sessions,
         \/ Git!SessionStarts(s, d)
         \/ Git!StatusLine(s, d)
         \/ Git!ChildStarts(s, parent)
         \/ Git!SessionLeaves(s)
  PROVE  GitInv' /\ Git!ChangesAreOwn
<1>1. /\ v2 \in [Sessions -> Dirs \cup {NoDir}]
      /\ v3 \in [Sessions -> Git!Contexts \cup {NoContext}]
  BY DEF GitInv, Git!TypeOK
<1>2. CASE Git!SessionStarts(s, d)
  <2>1. /\ v2' = [v2 EXCEPT ![s] = d] /\ v3' = [v3 EXCEPT ![s] = NoContext]
        /\ UNCHANGED <<v1, v6, v7>> /\ s \notin Git!Held
        /\ {d} \in SUBSET Dirs /\ Git!Request({d}) /\ v8' \in 0 .. MaxChanges
    BY <1>2, ChangeBound DEF Git!SessionStarts, GitInv
  <2>2. /\ v2' \in [Sessions -> Dirs \cup {NoDir}]
        /\ v3' \in [Sessions -> Git!Contexts \cup {NoContext}]
    BY <1>1, <2>1
  <2>3. GitInv'
    BY <2>1, <2>2, RequestInv
  <2>4. Git!ChangesAreOwn
    BY <1>1, <2>1 DEF Git!ChangesAreOwn, Git!Held
  <2> QED
    BY <2>3, <2>4
<1>3. CASE Git!StatusLine(s, d)
  <2>1. /\ v2' = [v2 EXCEPT ![s] = d] /\ v3' = v3
        /\ UNCHANGED <<v1, v6, v7>>
        /\ {d} \in SUBSET Dirs /\ Git!Request({d})
        /\ Git!Change \/ v8' = v8
    BY <1>3 DEF Git!StatusLine
  <2>2. /\ v2' \in [Sessions -> Dirs \cup {NoDir}]
        /\ v3' \in [Sessions -> Git!Contexts \cup {NoContext}]
        /\ v8' \in 0 .. MaxChanges
    BY <1>1, <2>1, ChangeBound DEF GitInv
  <2>3. GitInv'
    BY <2>1, <2>2, RequestInv
  <2>4. Git!ChangesAreOwn
    BY <2>1 DEF Git!ChangesAreOwn
  <2> QED
    BY <2>3, <2>4
<1>4. CASE Git!ChildStarts(s, parent)
  <2>1. /\ v2' = [v2 EXCEPT ![s] = v2[parent]] /\ v3' = [v3 EXCEPT ![s] = v3[parent]]
        /\ UNCHANGED <<v1, v6, v7>> /\ s \notin Git!Held /\ parent \in Git!Held
        /\ v8' \in 0 .. MaxChanges
        /\ \/ Git!Request({v2[parent]})
           \/ UNCHANGED <<v4, v5, v9>>
    BY <1>4, ChangeBound DEF Git!ChildStarts, Git!lookups, GitInv
  <2>2. /\ v2' \in [Sessions -> Dirs \cup {NoDir}]
        /\ v3' \in [Sessions -> Git!Contexts \cup {NoContext}]
        /\ {v2[parent]} \in SUBSET Dirs
    BY <1>1, <2>1 DEF Git!Held
  <2>3. ASSUME Git!Request({v2[parent]})  PROVE GitInv'
    BY <2>1, <2>2, <2>3, RequestInv
  <2>4. ASSUME UNCHANGED <<v4, v5, v9>>  PROVE GitInv'
    BY <2>1, <2>2, <2>4 DEF GitInv, Git!TypeOK, Slots, OwnResults
  <2>5. Git!ChangesAreOwn
    BY <1>1, <2>1 DEF Git!ChangesAreOwn, Git!Held
  <2> QED
    BY <2>1, <2>3, <2>4, <2>5
<1>5. CASE Git!SessionLeaves(s)
  <2>1. /\ v2' = [v2 EXCEPT ![s] = NoDir] /\ v3' = [v3 EXCEPT ![s] = NoContext]
        /\ UNCHANGED <<v1, v4, v5, v6, v7, v9>>
        /\ v8' \in 0 .. MaxChanges
    BY <1>5, ChangeBound DEF Git!SessionLeaves, Git!lookups, GitInv
  <2>2. GitInv'
    BY <1>1, <2>1 DEF GitInv, Git!TypeOK, Slots, OwnResults
  <2>3. Git!ChangesAreOwn
    BY <1>1, <2>1 DEF Git!ChangesAreOwn
  <2> QED
    BY <2>2, <2>3
<1> QED
  BY <1>2, <1>3, <1>4, <1>5

\* GitStep: every step of the lookups keeps their invariant, and gives no
\* session another directory's context.
LEMMA GitStep ==
  ASSUME GitInv, Git!Next
  PROVE  GitInv' /\ Git!ChangesAreOwn
<1>1. CASE \E s \in Sessions, d \in Dirs : Git!SessionStarts(s, d) \/ Git!StatusLine(s, d)
  BY <1>1, SessionsInv
<1>2. CASE \E s, parent \in Sessions : Git!ChildStarts(s, parent)
  <2>1. PICK s \in Sessions, parent \in Sessions : Git!ChildStarts(s, parent)
    BY <1>2
  <2>2. v2[parent] \in Dirs
    BY <2>1 DEF GitInv, Git!TypeOK, Git!ChildStarts, Git!Held
  <2> QED
    BY <2>1, <2>2, SessionsInv
<1>3. CASE \E s \in Sessions : Git!SessionLeaves(s)
  <2>1. PICK s \in Sessions : Git!SessionLeaves(s)
    BY <1>3
  <2>2. v2[s] \in Dirs
    BY <2>1 DEF GitInv, Git!TypeOK, Git!SessionLeaves, Git!Held
  <2> QED
    BY <2>1, <2>2, SessionsInv
<1>4. CASE Git!RefreshGitInfo
  <2> DEFINE ds == {v2[s] : s \in Git!Held}
  <2>1. Git!Request(ds) /\ UNCHANGED <<v1, v2, v3, v6, v7, v8>>
    BY <1>4 DEF Git!RefreshGitInfo
  <2>2. ds \in SUBSET Dirs
    BY DEF GitInv, Git!TypeOK, Git!Held
  <2> HIDE DEF ds
  <2>3. /\ v2' \in [Sessions -> Dirs \cup {NoDir}]
        /\ v3' \in [Sessions -> Git!Contexts \cup {NoContext}]
        /\ v8' \in 0 .. MaxChanges
    BY <2>1 DEF GitInv, Git!TypeOK
  <2>4. GitInv'
    BY <2>1, <2>2, <2>3, RequestInv
  <2> QED
    BY <2>1, <2>4 DEF Git!ChangesAreOwn
<1>5. CASE Git!ApplyGitResult
  <2>1. Git!ChangesAreOwn
    BY <1>5, ApplyInv DEF Git!ChangesAreOwn, Git!Held
  <2> QED
    BY <1>5, <2>1, ApplyInv
<1>6. ASSUME NEW d \in Dirs, Git!Finds(d)
      PROVE  GitInv' /\ Git!ChangesAreOwn
  <2>1. /\ [dir |-> d, branch |-> v1[d]] \in Git!Contexts
        /\ [dir |-> d, branch |-> v1[d]].dir = d
    BY DEF GitInv, Git!TypeOK, Git!Contexts
  <2>2. Git!Reports(d, [dir |-> d, branch |-> v1[d]]) /\ v9' = v9 /\ v3' = v3
    BY <1>6 DEF Git!Finds, Git!Reports
  <2>3. GitInv'
    BY <2>1, <2>2, ReportsInv
  <2> QED
    BY <2>2, <2>3 DEF Git!ChangesAreOwn
<1>7. ASSUME NEW d \in Dirs, Git!Panics(d)
      PROVE  GitInv' /\ Git!ChangesAreOwn
  <2>1. Git!Reports(d, Panicked) /\ Git!Fault /\ v3' = v3
    BY <1>7 DEF Git!Panics, Git!Reports
  <2>2. GitInv'
    BY <2>1, ReportsInv
  <2> QED
    BY <2>1, <2>2 DEF Git!ChangesAreOwn
<1>8. ASSUME NEW d \in Dirs, Git!Hangs(d)
      PROVE  GitInv' /\ Git!ChangesAreOwn
  <2>1. v3' = v3
    BY <1>8 DEF Git!Hangs
  <2> QED
    BY <1>8, <2>1, HangsInv DEF Git!ChangesAreOwn
<1>9. ASSUME NEW d \in Dirs, NEW branch \in Branches, Git!Checkout(d, branch)
      PROVE  GitInv' /\ Git!ChangesAreOwn
  <2>1. /\ v1' = [v1 EXCEPT ![d] = branch] /\ v8' \in 0 .. MaxChanges
        /\ UNCHANGED <<v2, v3, v4, v5, v6, v7, v9>>
    BY <1>9, ChangeBound DEF Git!Checkout, Git!lookups, GitInv
  <2>2. GitInv'
    BY <2>1 DEF GitInv, Git!TypeOK, Slots, OwnResults
  <2> QED
    BY <2>1, <2>2 DEF Git!ChangesAreOwn
<1> QED
  BY <1>1, <1>2, <1>3, <1>4, <1>5, <1>6, <1>7, <1>8, <1>9 DEF Git!Next
-----------------------------------------------------------------------------
(* The pi extension.  Its variables are v1 (ext), v2 (socks), v3 (daemon).  *)
(* A line is the number of its event, or 0 for a handshake; events go       *)
(* through the outbox `o`, the buffer `b` of the one socket that is         *)
(* connected, and what atmd has read, `r`.                                  *)

Rising(s) == \A i, j \in DOMAIN s : i < j /\ s[i] # 0 /\ s[j] # 0 => s[i] < s[j]
Before(s, t) == \A i \in DOMAIN s, j \in DOMAIN t : s[i] # 0 /\ t[j] # 0 => s[i] < t[j]
UpTo(s, n) == \A i \in DOMAIN s : s[i] <= n

\* InOrder: along that way no event is before one that fired earlier, and none
\* is later than the last that fired.
InOrder(r, b, o, n) ==
  /\ Rising(r) /\ Rising(b) /\ Rising(o)
  /\ Before(r, b) /\ Before(r, o) /\ Before(b, o)
  /\ UpTo(r, n) /\ UpTo(b, n) /\ UpTo(o, n)

ExtStates ==
  [fired : Nat, active : Nat, pending : Nat, paused : BOOLEAN, backoff : BOOLEAN,
   outbox : Seq(Nat), uiBound : BOOLEAN, patched : BOOLEAN, dialog : BOOLEAN]
SocketStates ==
  [state : {"connecting", "open", "broken", "closed"}, buffer : Seq(Nat), wants : BOOLEAN]

\* Linked: the connected socket is the active one, the connecting one the
\* pending one, there is at most one of both, and only the active one buffers.
Linked(e, ss) ==
  /\ e.active \in 0 .. Len(ss) /\ e.pending \in 0 .. Len(ss)
  /\ e.active = 0 \/ e.pending = 0
  /\ \A k \in 1 .. Len(ss) : ss[k].state \in {"open", "broken"} <=> e.active = k
  /\ \A k \in 1 .. Len(ss) : ss[k].state = "connecting" <=> e.pending = k
  /\ \A k \in 1 .. Len(ss) : k = e.active \/ ss[k].buffer = <<>>

\* Bounded: nothing grows, and a connection without back-pressure has room and
\* leaves no line waiting in the outbox.
Bounded(e, ss) ==
  /\ Len(e.outbox) <= OutboxMax
  /\ \A k \in 1 .. Len(ss) : Len(ss[k].buffer) <= HighWater + 1
  /\ e.active # 0 /\ ~ e.paused => e.outbox = <<>> /\ Len(ss[e.active].buffer) < HighWater

Buffer(e, ss) == IF e.active = 0 THEN <<>> ELSE ss[e.active].buffer
LinesOf(read) == [i \in DOMAIN read |-> read[i][2]]

\* PiGood: the extension and its sockets, atmd having read `r`, after event n.
PiGood(e, ss, r, n) ==
  /\ e \in ExtStates /\ ss \in Seq(SocketStates)
  /\ Linked(e, ss)
  /\ Bounded(e, ss)
  /\ InOrder(r, Buffer(e, ss), e.outbox, n)

PiInv ==
  /\ v3 \in [up : BOOLEAN, file : BOOLEAN, read : Seq(Nat \X Nat)]
  /\ PiGood(v1, v2, LinesOf(v3.read), v1.fired)

\* Sequences of numbers: the operators' results, element by element.
LEMMA AppendElements ==
  ASSUME NEW s \in Seq(Nat), NEW x \in Nat
  PROVE  /\ Append(s, x) \in Seq(Nat) /\ Len(Append(s, x)) = Len(s) + 1
         /\ DOMAIN Append(s, x) = 1 .. Len(s) + 1
         /\ \A i \in 1 .. Len(s) : Append(s, x)[i] = s[i]
         /\ Append(s, x)[Len(s) + 1] = x
  OBVIOUS

LEMMA ConcatElements ==
  ASSUME NEW s \in Seq(Nat), NEW t \in Seq(Nat)
  PROVE  /\ s \o t \in Seq(Nat) /\ Len(s \o t) = Len(s) + Len(t)
         /\ \A i \in 1 .. Len(s) : (s \o t)[i] = s[i]
         /\ \A i \in Len(s) + 1 .. Len(s) + Len(t) : (s \o t)[i] = t[i - Len(s)]
  OBVIOUS

\* Two sequences in order, one behind the other.
LEMMA ConcatInOrder ==
  ASSUME NEW s \in Seq(Nat), NEW t \in Seq(Nat), Rising(s), Rising(t), Before(s, t)
  PROVE  /\ Rising(s \o t)
         /\ \A u : Before(s, u) /\ Before(t, u) => Before(s \o t, u)
         /\ \A u : Before(u, s) /\ Before(u, t) => Before(u, s \o t)
         /\ \A n : UpTo(s, n) /\ UpTo(t, n) => UpTo(s \o t, n)
<1> DEFINE st == s \o t
<1>1. /\ Len(s) \in Nat /\ Len(t) \in Nat
      /\ DOMAIN s = 1 .. Len(s) /\ DOMAIN t = 1 .. Len(t)
      /\ DOMAIN st = 1 .. Len(s) + Len(t)
  OBVIOUS
<1>2. \A i \in DOMAIN st : \/ i \in DOMAIN s /\ st[i] = s[i]
                           \/ i - Len(s) \in DOMAIN t /\ st[i] = t[i - Len(s)] /\ i > Len(s)
  BY <1>1, ConcatElements
<1> HIDE DEF st
<1>3. ASSUME NEW i \in DOMAIN st, NEW j \in DOMAIN st, i < j, st[i] # 0, st[j] # 0
      PROVE  st[i] < st[j]
  <2>1. CASE i \in DOMAIN s /\ st[i] = s[i] /\ j \in DOMAIN s /\ st[j] = s[j]
    BY <1>3, <2>1 DEF Rising
  <2>2. CASE /\ i \in DOMAIN s /\ st[i] = s[i]
             /\ j - Len(s) \in DOMAIN t /\ st[j] = t[j - Len(s)]
    BY <1>3, <2>2 DEF Before
  <2>3. CASE /\ i - Len(s) \in DOMAIN t /\ st[i] = t[i - Len(s)]
             /\ j - Len(s) \in DOMAIN t /\ st[j] = t[j - Len(s)]
    <3>1. i - Len(s) < j - Len(s)
      BY <1>1, <1>3
    <3> QED
      BY <1>3, <2>3, <3>1 DEF Rising
  <2>4. CASE j \in DOMAIN s /\ i > Len(s)
    BY <1>1, <1>3, <2>4
  <2> QED
    BY <1>2, <2>1, <2>2, <2>3, <2>4
<1>4. ASSUME NEW u, Before(s, u), Before(t, u)
      PROVE  Before(st, u)
  BY <1>2, <1>4 DEF Before
<1>5. ASSUME NEW u, Before(u, s), Before(u, t)
      PROVE  Before(u, st)
  BY <1>2, <1>5 DEF Before
<1>6. ASSUME NEW n, UpTo(s, n), UpTo(t, n)
      PROVE  UpTo(st, n)
  BY <1>2, <1>6 DEF UpTo
<1>7. Rising(st)
  BY <1>3 DEF Rising
<1> QED
  BY <1>4, <1>5, <1>6, <1>7 DEF st

\* Any part of a sequence is in order with what the sequence is in order with.
LEMMA PartInOrder ==
  ASSUME NEW s \in Seq(Nat), NEW m \in Nat, NEW n \in Nat, 1 <= m, n <= Len(s)
  PROVE  /\ SubSeq(s, m, n) \in Seq(Nat)
         /\ Rising(s) => Rising(SubSeq(s, m, n))
         /\ \A u : Before(s, u) => Before(SubSeq(s, m, n), u)
         /\ \A u : Before(u, s) => Before(u, SubSeq(s, m, n))
         /\ \A k : UpTo(s, k) => UpTo(SubSeq(s, m, n), k)
<1> DEFINE p == SubSeq(s, m, n)
<1>1. /\ p \in Seq(Nat) /\ Len(p) = IF m <= n THEN n - m + 1 ELSE 0
      /\ DOMAIN p = 1 .. Len(p)
      /\ \A i \in DOMAIN p : p[i] = s[m + i - 1]
  BY SubSeqProperties
<1>2. \A i \in DOMAIN p : m + i - 1 \in DOMAIN s /\ i \in Nat
  BY <1>1
<1> HIDE DEF p
<1>3. ASSUME Rising(s), NEW i \in DOMAIN p, NEW j \in DOMAIN p, i < j, p[i] # 0, p[j] # 0
      PROVE  p[i] < p[j]
  <2>1. m + i - 1 < m + j - 1
    BY <1>2, <1>3
  <2> QED
    BY <1>1, <1>2, <1>3, <2>1 DEF Rising
<1>4. \A u : Before(s, u) => Before(p, u)
  BY <1>1, <1>2 DEF Before
<1>5. \A u : Before(u, s) => Before(u, p)
  BY <1>1, <1>2 DEF Before
<1>6. \A k : UpTo(s, k) => UpTo(p, k)
  BY <1>1, <1>2 DEF UpTo
<1>7. Rising(s) => Rising(p)
  BY <1>3 DEF Rising
<1> QED
  BY <1>1, <1>4, <1>5, <1>6, <1>7 DEF p

-----------------------------------------------------------------------------
(* The order of the lines, step by step *)

\* The last event that fired is ahead of everything on the way.
LEMMA LaterInOrder ==
  ASSUME NEW r \in Seq(Nat), NEW b \in Seq(Nat), NEW o \in Seq(Nat), NEW m \in Nat,
         InOrder(r, b, o, m)
  PROVE  InOrder(r, b, o, m + 1)
<1>1. ASSUME NEW s \in Seq(Nat), UpTo(s, m)
      PROVE  UpTo(s, m + 1)
  <2>1. \A i \in DOMAIN s : s[i] \in Nat
    OBVIOUS
  <2> QED
    BY <1>1, <2>1 DEF UpTo
<1> QED
  BY <1>1 DEF InOrder

\* NewestInOrder: the event that fires now, as a sequence, is behind all others.
LEMMA NewestInOrder ==
  ASSUME NEW m \in Nat
  PROVE  /\ <<m + 1>> \in Seq(Nat) /\ Rising(<<m + 1>>) /\ UpTo(<<m + 1>>, m + 1)
         /\ \A s \in Seq(Nat) : UpTo(s, m) => Before(s, <<m + 1>>)
<1>1. \A s \in Seq(Nat) : \A i \in DOMAIN s : s[i] \in Nat
  OBVIOUS
<1> QED
  BY <1>1 DEF Rising, UpTo, Before

LEMMA AppendInOrder ==
  ASSUME NEW s \in Seq(Nat), NEW m \in Nat, Rising(s), UpTo(s, m)
  PROVE  /\ Append(s, m + 1) = s \o <<m + 1>>
         /\ Append(s, m + 1) \in Seq(Nat)
         /\ Rising(Append(s, m + 1)) /\ UpTo(Append(s, m + 1), m + 1)
         /\ \A u \in Seq(Nat) : UpTo(u, m) /\ Before(u, s) => Before(u, Append(s, m + 1))
<1>1. Append(s, m + 1) = s \o <<m + 1>> /\ Append(s, m + 1) \in Seq(Nat)
  OBVIOUS
<1>2. Rising(<<m + 1>>) /\ Before(s, <<m + 1>>) /\ <<m + 1>> \in Seq(Nat)
  BY NewestInOrder
<1>3. /\ Rising(s \o <<m + 1>>)
      /\ \A u : Before(u, s) /\ Before(u, <<m + 1>>) => Before(u, s \o <<m + 1>>)
      /\ \A n : UpTo(s, n) /\ UpTo(<<m + 1>>, n) => UpTo(s \o <<m + 1>>, n)
  BY <1>2, ConcatInOrder
<1>4. UpTo(s, m + 1)
  <2>1. \A i \in DOMAIN s : s[i] \in Nat
    OBVIOUS
  <2> QED
    BY <2>1 DEF UpTo
<1> QED
  BY <1>1, <1>3, <1>4, NewestInOrder

\* TailInOrder: so is the rest of a sequence.
LEMMA TailInOrder ==
  ASSUME NEW s \in Seq(Nat), s # <<>>
  PROVE  /\ Tail(s) \in Seq(Nat) /\ Len(Tail(s)) = Len(s) - 1
         /\ Rising(s) => Rising(Tail(s))
         /\ \A u : Before(s, u) => Before(Tail(s), u)
         /\ \A u : Before(u, s) => Before(u, Tail(s))
         /\ \A k : UpTo(s, k) => UpTo(Tail(s), k)
<1> DEFINE p == SubSeq(s, 2, Len(s))
<1>1. Tail(s) = p /\ Len(Tail(s)) = Len(s) - 1
  OBVIOUS
<1>2. 2 \in Nat /\ Len(s) \in Nat /\ 1 <= 2 /\ Len(s) <= Len(s)
  OBVIOUS
<1>3. /\ p \in Seq(Nat)
      /\ Rising(s) => Rising(p)
      /\ \A u : Before(s, u) => Before(p, u)
      /\ \A u : Before(u, s) => Before(u, p)
      /\ \A k : UpTo(s, k) => UpTo(p, k)
  BY <1>2, PartInOrder
<1> QED
  BY <1>1, <1>3

\* EnqueueInOrder: the outbox drops its oldest line, and stays in order.
LEMMA EnqueueInOrder ==
  ASSUME NEW r \in Seq(Nat), NEW b \in Seq(Nat), NEW o \in Seq(Nat), NEW m \in Nat,
         InOrder(r, b, o, m), Len(o) <= OutboxMax
  PROVE  /\ Pi!Enqueue(o, m + 1) \in Seq(Nat)
         /\ Len(Pi!Enqueue(o, m + 1)) <= OutboxMax
         /\ InOrder(r, b, Pi!Enqueue(o, m + 1), m + 1)
<1>1. ASSUME NEW s \in Seq(Nat), Rising(s), UpTo(s, m), Before(r, s), Before(b, s)
      PROVE  InOrder(r, b, Append(s, m + 1), m + 1)
  <2>1. UpTo(r, m) /\ UpTo(b, m)
    BY DEF InOrder
  <2>2. InOrder(r, b, o, m + 1)
    BY LaterInOrder
  <2> QED
    BY <1>1, <2>1, <2>2, AppendInOrder DEF InOrder
<1>2. CASE Len(o) < OutboxMax
  <2>1. Pi!Enqueue(o, m + 1) = Append(o, m + 1)
    BY <1>2 DEF Pi!Enqueue
  <2>2. Append(o, m + 1) \in Seq(Nat) /\ Len(Append(o, m + 1)) <= OutboxMax
    BY <1>2, BackgroundAssumption
  <2> QED
    BY <1>1, <2>1, <2>2 DEF InOrder
<1>3. CASE ~ (Len(o) < OutboxMax)
  <2>1. Pi!Enqueue(o, m + 1) = Append(Tail(o), m + 1) /\ Len(o) = OutboxMax /\ o # <<>>
    BY <1>3, BackgroundAssumption DEF Pi!Enqueue
  <2>2. Tail(o) \in Seq(Nat) /\ Len(Tail(o)) = Len(o) - 1
    BY <2>1, TailInOrder
  <2>3. Append(Tail(o), m + 1) \in Seq(Nat) /\ Len(Append(Tail(o), m + 1)) <= OutboxMax
    BY <2>1, <2>2, BackgroundAssumption
  <2>4. Rising(Tail(o)) /\ UpTo(Tail(o), m) /\ Before(r, Tail(o)) /\ Before(b, Tail(o))
    BY <2>1, TailInOrder DEF InOrder
  <2> QED
    BY <1>1, <2>1, <2>2, <2>3, <2>4
<1> QED
  BY <1>2, <1>3

\* WriteInOrder: a direct write, with nothing in the outbox, overtakes nothing.
LEMMA WriteInOrder ==
  ASSUME NEW r \in Seq(Nat), NEW b \in Seq(Nat), NEW m \in Nat,
         InOrder(r, b, <<>>, m)
  PROVE  InOrder(r, b \o <<m + 1>>, <<>>, m + 1)
<1>1. <<>> \in Seq(Nat)
  OBVIOUS
<1>2. InOrder(r, b, <<>>, m + 1)
  BY <1>1, LaterInOrder
<1>3. /\ b \o <<m + 1>> = Append(b, m + 1)
      /\ Rising(Append(b, m + 1)) /\ UpTo(Append(b, m + 1), m + 1)
      /\ Before(r, Append(b, m + 1))
  BY AppendInOrder DEF InOrder
<1>4. Before(b \o <<m + 1>>, <<>>)
  BY DEF Before
<1> QED
  BY <1>2, <1>3, <1>4 DEF InOrder

\* FlushInOrder: lines that go from the front of the outbox to the buffer.
LEMMA FlushInOrder ==
  ASSUME NEW r \in Seq(Nat), NEW b \in Seq(Nat), NEW o \in Seq(Nat), NEW m \in Nat,
         NEW n \in 0 .. Len(o), InOrder(r, b, o, m)
  PROVE  InOrder(r, b \o SubSeq(o, 1, n), SubSeq(o, n + 1, Len(o)), m)
<1> DEFINE p == SubSeq(o, 1, n)
           q == SubSeq(o, n + 1, Len(o))
<1>1. n \in Nat /\ n + 1 \in Nat /\ Len(o) \in Nat /\ n <= Len(o) /\ 1 <= n + 1
  OBVIOUS
<1>2. /\ p \in Seq(Nat) /\ Rising(p) /\ UpTo(p, m) /\ Before(r, p) /\ Before(b, p)
  BY <1>1, PartInOrder DEF InOrder
<1>3. /\ q \in Seq(Nat) /\ Rising(q) /\ UpTo(q, m) /\ Before(r, q) /\ Before(b, q)
  BY <1>1, PartInOrder DEF InOrder
<1>4. Before(p, q)
  <2>1. /\ Len(p) = n /\ \A i \in 1 .. n : p[i] = o[i]
        /\ Len(q) = Len(o) - n /\ \A i \in 1 .. Len(o) - n : q[i] = o[n + i]
    BY <1>1
  <2>2. DOMAIN p = 1 .. n /\ DOMAIN q = 1 .. Len(o) - n /\ DOMAIN o = 1 .. Len(o)
    BY <1>2, <1>3, <2>1
  <2> HIDE DEF p, q
  <2>3. ASSUME NEW i \in 1 .. n, NEW j \in 1 .. Len(o) - n, o[i] # 0, o[n + j] # 0
        PROVE  o[i] < o[n + j]
    <3>1. i \in DOMAIN o /\ n + j \in DOMAIN o /\ i < n + j
      BY <1>1, <2>2
    <3> QED
      BY <2>3, <3>1 DEF InOrder, Rising
  <2>4. ASSUME NEW i \in DOMAIN p, NEW j \in DOMAIN q, p[i] # 0, q[j] # 0
        PROVE  p[i] < q[j]
    <3>1. i \in 1 .. n /\ j \in 1 .. Len(o) - n /\ p[i] = o[i] /\ q[j] = o[n + j]
      BY <2>1, <2>2
    <3> QED
      BY <2>3, <2>4, <3>1
  <2> QED
    BY <2>4 DEF Before
<1> HIDE DEF p, q
<1>5. /\ Rising(b \o p) /\ UpTo(b \o p, m) /\ Before(r, b \o p) /\ Before(b \o p, q)
  BY <1>2, <1>3, <1>4, ConcatInOrder DEF InOrder
<1> QED
  BY <1>3, <1>5 DEF InOrder, p, q

\* ShakenInOrder: a handshake on a fresh connection.
LEMMA ShakenInOrder ==
  ASSUME NEW r, NEW b, NEW o, NEW m \in Nat, InOrder(r, b, o, m)
  PROVE  InOrder(r, <<>>, o, m) /\ InOrder(r, <<0>>, o, m)
<1>1. Rising(<<>>) /\ Before(r, <<>>) /\ Before(<<>>, o) /\ UpTo(<<>>, m)
  BY DEF Rising, Before, UpTo
<1>2. Rising(<<0>>) /\ Before(r, <<0>>) /\ Before(<<0>>, o) /\ UpTo(<<0>>, m)
  BY DEF Rising, Before, UpTo
<1> QED
  BY <1>1, <1>2 DEF InOrder

\* ReadInOrderStep: atmd reads the front of the buffer.
LEMMA ReadInOrderStep ==
  ASSUME NEW r \in Seq(Nat), NEW b \in Seq(Nat), NEW o \in Seq(Nat), NEW m \in Nat,
         InOrder(r, b, o, m), b # <<>>
  PROVE  InOrder(Append(r, Head(b)), Tail(b), o, m)
<1> DEFINE h == <<Head(b)>>
<1>1. /\ Append(r, Head(b)) = r \o h /\ h \in Seq(Nat)
      /\ DOMAIN h = {1} /\ h[1] = b[1] /\ 1 \in DOMAIN b /\ DOMAIN b = 1 .. Len(b)
      /\ DOMAIN Tail(b) = 1 .. Len(b) - 1
      /\ \A i \in 1 .. Len(b) - 1 : Tail(b)[i] = b[i + 1] /\ i + 1 \in DOMAIN b /\ 1 < i + 1
  OBVIOUS
<1> HIDE DEF h
<1>2. /\ Rising(h) /\ Before(r, h) /\ UpTo(h, m)
      /\ Before(h, o)
  BY <1>1 DEF InOrder, Rising, Before, UpTo
<1>3. Before(h, Tail(b))
  BY <1>1 DEF InOrder, Rising, Before
<1>4. /\ Rising(Tail(b)) /\ UpTo(Tail(b), m) /\ Before(r, Tail(b)) /\ Before(Tail(b), o)
  BY TailInOrder DEF InOrder
<1>5. /\ Rising(r \o h) /\ UpTo(r \o h, m) /\ Before(r \o h, Tail(b)) /\ Before(r \o h, o)
  BY <1>1, <1>2, <1>3, <1>4, ConcatInOrder DEF InOrder
<1> QED
  BY <1>1, <1>4, <1>5 DEF InOrder

-----------------------------------------------------------------------------
(* The sockets, and what is done to them *)

\* Another value for one socket: by its index, the others keep theirs.
LEMMA SocketChanges ==
  ASSUME NEW ss \in Seq(SocketStates), NEW k \in 1 .. Len(ss), NEW x \in SocketStates
  PROVE  /\ [ss EXCEPT ![k] = x] \in Seq(SocketStates)
         /\ Len([ss EXCEPT ![k] = x]) = Len(ss)
         /\ [ss EXCEPT ![k] = x][k] = x
         /\ \A j \in 1 .. Len(ss) : j # k => [ss EXCEPT ![k] = x][j] = ss[j]
  OBVIOUS

\* WriteFields: a write touches one socket, and not whether it is open.
LEMMA WriteFields ==
  ASSUME NEW ss \in Seq(SocketStates), NEW k \in 1 .. Len(ss), NEW lines \in Seq(Nat)
  PROVE  /\ Pi!Write(ss, k, lines) \in Seq(SocketStates)
         /\ Len(Pi!Write(ss, k, lines)) = Len(ss)
         /\ Pi!Write(ss, k, lines)[k].state = ss[k].state
         /\ Pi!Write(ss, k, lines)[k].buffer = ss[k].buffer \o lines
         /\ \A j \in 1 .. Len(ss) : j # k => Pi!Write(ss, k, lines)[j] = ss[j]
<1> DEFINE wrote == [ss EXCEPT ![k].buffer = @ \o lines]
           due == wrote[k].wants \/ (lines # <<>> /\ Pi!Full(wrote[k]))
           W == [wrote EXCEPT ![k].wants = due]
<1>1. Pi!Write(ss, k, lines) = W
  BY DEF Pi!Write
<1>2. ss[k] \in SocketStates
  OBVIOUS
<1>3. /\ [ss[k] EXCEPT !.buffer = @ \o lines] \in SocketStates
      /\ [ss[k] EXCEPT !.buffer = @ \o lines].state = ss[k].state
      /\ [ss[k] EXCEPT !.buffer = @ \o lines].buffer = ss[k].buffer \o lines
  BY <1>2, ConcatElements DEF SocketStates
<1>4. wrote = [ss EXCEPT ![k] = [ss[k] EXCEPT !.buffer = @ \o lines]]
  OBVIOUS
<1>5. /\ wrote \in Seq(SocketStates) /\ Len(wrote) = Len(ss)
      /\ wrote[k] = [ss[k] EXCEPT !.buffer = @ \o lines]
      /\ \A j \in 1 .. Len(ss) : j # k => wrote[j] = ss[j]
  <2> DEFINE x == [ss[k] EXCEPT !.buffer = @ \o lines]
  <2>1. x \in SocketStates /\ wrote = [ss EXCEPT ![k] = x]
    BY <1>3, <1>4
  <2> HIDE DEF x, wrote
  <2>2. /\ wrote \in Seq(SocketStates) /\ Len(wrote) = Len(ss) /\ wrote[k] = x
        /\ \A j \in 1 .. Len(ss) : j # k => wrote[j] = ss[j]
    BY <2>1, SocketChanges
  <2> QED
    BY <2>2 DEF x
<1>6. due \in BOOLEAN
  BY <1>3, <1>5 DEF SocketStates, Pi!Full
<1> HIDE DEF wrote, due
<1>7. /\ [wrote[k] EXCEPT !.wants = due] \in SocketStates
      /\ [wrote[k] EXCEPT !.wants = due].state = wrote[k].state
      /\ [wrote[k] EXCEPT !.wants = due].buffer = wrote[k].buffer
  BY <1>3, <1>5, <1>6 DEF SocketStates
<1>8. W = [wrote EXCEPT ![k] = [wrote[k] EXCEPT !.wants = due]]
  BY <1>5
<1>9. /\ W \in Seq(SocketStates) /\ Len(W) = Len(wrote)
      /\ W[k] = [wrote[k] EXCEPT !.wants = due]
      /\ \A j \in 1 .. Len(wrote) : j # k => W[j] = wrote[j]
  BY <1>5, <1>7, <1>8, SocketChanges
<1> QED
  BY <1>1, <1>3, <1>5, <1>7, <1>9

\* A socket as it was but for its buffer keeps Linked; the active one may buffer.
LEMMA LinkedAfterWrite ==
  ASSUME NEW e \in ExtStates, NEW ss \in Seq(SocketStates), NEW f \in ExtStates,
         NEW tt \in Seq(SocketStates), NEW k \in 1 .. Len(ss),
         Linked(e, ss), e.active = k,
         f.active = e.active, f.pending = e.pending,
         Len(tt) = Len(ss), tt[k].state = ss[k].state,
         \A j \in 1 .. Len(ss) : j # k => tt[j] = ss[j]
  PROVE  Linked(f, tt)
<1>1. \A j \in 1 .. Len(ss) : tt[j].state = ss[j].state
  OBVIOUS
<1>2. \A j \in 1 .. Len(ss) : j = k \/ tt[j].buffer = ss[j].buffer
  OBVIOUS
<1> QED
  BY <1>1, <1>2 DEF Linked

\* FlushGood: a flush writes the oldest lines of the outbox until the connection
\* has back-pressure or the outbox is empty.
LEMMA FlushGood ==
  ASSUME NEW e \in ExtStates, NEW ss \in Seq(SocketStates), NEW r \in Seq(Nat),
         NEW k \in 1 .. Len(ss), e.active = k, Linked(e, ss),
         Len(e.outbox) <= OutboxMax,
         \A j \in 1 .. Len(ss) : Len(ss[j].buffer) <= HighWater + 1,
         Len(ss[k].buffer) <= HighWater,
         e.paused \/ Len(ss[k].buffer) < HighWater,
         InOrder(r, ss[k].buffer, e.outbox, e.fired)
  PROVE  LET done == Pi!FlushOutboxTo(e, ss, k)
         IN  PiGood(done.e, done.ss, r, e.fired) /\ done.e.fired = e.fired
<1> DEFINE b == ss[k].buffer
           o == e.outbox
           room == IF Len(b) + 1 >= HighWater THEN 1 ELSE HighWater - Len(b)
           n == IF room < Len(o) THEN room ELSE Len(o)
           front == SubSeq(o, 1, n)
           rest == SubSeq(o, n + 1, Len(o))
           wrote == Pi!Write(ss, k, front)
           f == [e EXCEPT !.outbox = rest, !.paused = @ \/ (n > 0 /\ Pi!Full(wrote[k]))]
<1>1. Pi!FlushOutboxTo(e, ss, k) = [e |-> f, ss |-> wrote]
  BY DEF Pi!FlushOutboxTo
<1>2. /\ b \in Seq(Nat) /\ Len(b) \in Nat /\ o \in Seq(Nat) /\ Len(o) \in Nat
      /\ HighWater \in Nat \ {0} /\ Len(b) <= HighWater
  <2>1. ss[k] \in SocketStates
    OBVIOUS
  <2>2. b \in Seq(Nat) /\ o \in Seq(Nat)
    BY <2>1 DEF SocketStates, ExtStates
  <2> QED
    BY <2>2, BackgroundAssumption
<1>3a. Len(o) <= OutboxMax /\ (e.paused \/ Len(b) < HighWater)
      /\ InOrder(r, b, o, e.fired)
  OBVIOUS
<1> HIDE DEF b, o
<1>3. /\ n \in 0 .. Len(o)
      /\ Len(b) + n <= HighWater + 1
      /\ n < Len(o) => Len(b) + n >= HighWater /\ n > 0
  <2>1. room \in Nat \ {0} /\ Len(b) + room <= HighWater + 1 /\ Len(b) + room >= HighWater
    BY <1>2
  <2> HIDE DEF room
  <2>2. CASE room < Len(o)
    BY <1>2, <2>1, <2>2
  <2>3. CASE ~ (room < Len(o))
    BY <1>2, <2>1, <2>3
  <2> QED
    BY <2>2, <2>3
<1> HIDE DEF n
<1>4. /\ front \in Seq(Nat) /\ Len(front) = n
      /\ rest \in Seq(Nat) /\ Len(rest) = Len(o) - n
  <2>1. n \in Nat /\ n <= Len(o) /\ 0 <= n
    BY <1>2, <1>3
  <2>2. front \in Seq(Nat) /\ Len(front) = n
    BY <1>2, <2>1
  <2>3. rest \in Seq(Nat) /\ Len(rest) = Len(o) - n
    <3>1. n + 1 \in Nat /\ n + 1 <= Len(o) + 1 /\ Len(o) - (n + 1) + 1 = Len(o) - n
      BY <1>2, <2>1
    <3>2. Len(rest) = IF n + 1 <= Len(o) THEN Len(o) - (n + 1) + 1 ELSE 0
      BY <1>2, <2>1, <3>1, SubSeqProperties
    <3>3. rest \in Seq(Nat)
      BY <1>2, <2>1, <3>1, PartInOrder
    <3> HIDE DEF rest
    <3>4. Len(rest) = Len(o) - n
      <4>1. CASE n = Len(o)
        BY <1>2, <2>1, <3>2, <4>1
      <4>2. CASE n < Len(o)
        BY <1>2, <2>1, <3>2, <4>2
      <4> QED
        BY <1>2, <2>1, <4>1, <4>2
    <3> QED
      BY <3>3, <3>4
  <2> QED
    BY <2>2, <2>3
<1>5. InOrder(r, b \o front, rest, e.fired)
  BY <1>3a, <1>2, <1>3, FlushInOrder DEF ExtStates
<1> HIDE DEF front, rest
<1>6. /\ wrote \in Seq(SocketStates) /\ Len(wrote) = Len(ss)
      /\ wrote[k].state = ss[k].state
      /\ wrote[k].buffer = b \o front
      /\ \A j \in 1 .. Len(ss) : j # k => wrote[j] = ss[j]
  BY <1>4, WriteFields DEF b
<1>7. Len(wrote[k].buffer) = Len(b) + n
  <2>1. Len(b \o front) = Len(b) + Len(front)
    BY <1>2, <1>4, ConcatElements
  <2> QED
    BY <1>4, <1>6, <2>1
<1> HIDE DEF wrote
<1>8. /\ f \in ExtStates /\ f.outbox = rest /\ f.active = k /\ f.pending = e.pending
      /\ f.fired = e.fired
      /\ f.paused <=> (e.paused \/ (n > 0 /\ Pi!Full(wrote[k])))
  <2>1. (e.paused \/ (n > 0 /\ Pi!Full(wrote[k]))) \in BOOLEAN
    BY DEF ExtStates
  <2>2. f.paused = (e.paused \/ (n > 0 /\ Pi!Full(wrote[k])))
    BY DEF ExtStates
  <2> QED
    BY <1>4, <2>1, <2>2 DEF ExtStates
<1>9. ~ f.paused => f.outbox = <<>> /\ Len(wrote[k].buffer) < HighWater
  <2> SUFFICES ASSUME ~ f.paused  PROVE f.outbox = <<>> /\ Len(wrote[k].buffer) < HighWater
    OBVIOUS
  <2>1. ~ e.paused /\ (n > 0 => ~ Pi!Full(wrote[k])) /\ f.outbox = rest
    BY <1>8
  <2> HIDE DEF f
  <2>2. n > 0 => Len(wrote[k].buffer) < HighWater
    BY <1>2, <1>3, <1>7, <2>1 DEF Pi!Full
  <2>3. n = 0 => Len(wrote[k].buffer) < HighWater
    BY <1>3a, <1>2, <1>7, <2>1
  <2>4. Len(rest) = 0
    <3>1. Len(b) + n < HighWater
      BY <1>7, <1>3, <1>2, <2>2, <2>3
    <3>2. ~ (n < Len(o))
      BY <1>2, <1>3, <3>1
    <3>3. Len(o) = n
      BY <1>2, <1>3, <3>2
    <3> QED
      BY <1>2, <1>4, <3>3
  <2> QED
    <3>1. rest = <<>>
      BY <1>4, <2>4
    <3> QED
      BY <1>3, <2>1, <2>2, <2>3, <3>1
<1> HIDE DEF f
<1>10. Linked(f, wrote)
  BY <1>6, <1>8, LinkedAfterWrite
<1>11. Bounded(f, wrote)
  <2>1. Len(f.outbox) <= OutboxMax
    BY <1>3a, <1>2, <1>3, <1>4, <1>8, BackgroundAssumption
  <2>2. ASSUME NEW j \in 1 .. Len(wrote)
        PROVE  Len(wrote[j].buffer) <= HighWater + 1
    BY <1>3, <1>6, <1>7
  <2> QED
    BY <1>8, <1>9, <2>1, <2>2 DEF Bounded
<1>12. InOrder(r, Buffer(f, wrote), f.outbox, e.fired)
  <2>1. Buffer(f, wrote) = b \o front
    BY <1>6, <1>8 DEF Buffer
  <2> QED
    BY <1>5, <1>8, <2>1
<1> QED
  BY <1>1, <1>6, <1>8, <1>10, <1>11, <1>12 DEF PiGood

\* EnqueuedGood: a line that waits in the outbox.
LEMMA EnqueuedGood ==
  ASSUME NEW e, NEW ss, NEW r \in Seq(Nat), NEW m \in Nat, PiGood(e, ss, r, m),
         e.active = 0 \/ e.paused
  PROVE  /\ PiGood([e EXCEPT !.outbox = Pi!Enqueue(@, m + 1)], ss, r, m + 1)
         /\ [e EXCEPT !.outbox = Pi!Enqueue(@, m + 1)].fired = e.fired
<1> DEFINE box == Pi!Enqueue(e.outbox, m + 1)
           f == [e EXCEPT !.outbox = box]
           b == Buffer(e, ss)
<1>1. /\ e \in ExtStates /\ ss \in Seq(SocketStates) /\ Linked(e, ss) /\ Bounded(e, ss)
      /\ InOrder(r, b, e.outbox, m)
  BY DEF PiGood
<1>2. e.outbox \in Seq(Nat) /\ Len(e.outbox) <= OutboxMax
  BY <1>1 DEF ExtStates, Bounded
<1>3. b \in Seq(Nat)
  <2>1. ASSUME e.active # 0  PROVE ss[e.active].buffer \in Seq(Nat)
    <3>1. e.active \in 1 .. Len(ss)
      BY <1>1, <2>1 DEF Linked
    <3>2. ss[e.active] \in SocketStates
      BY <1>1, <3>1
    <3> QED
      BY <3>2 DEF SocketStates
  <2> QED
    BY <2>1 DEF Buffer
<1> HIDE DEF b
<1>4. box \in Seq(Nat) /\ Len(box) <= OutboxMax /\ InOrder(r, b, box, m + 1)
  BY <1>1, <1>2, <1>3, EnqueueInOrder
<1> HIDE DEF box
<1>5. /\ f \in ExtStates /\ f.outbox = box /\ f.active = e.active /\ f.pending = e.pending
      /\ f.paused = e.paused /\ f.fired = e.fired
  BY <1>1, <1>4 DEF ExtStates
<1> HIDE DEF f
<1>6. Linked(f, ss)
  BY <1>1, <1>5 DEF Linked
<1>7. Bounded(f, ss)
  BY <1>1, <1>4, <1>5 DEF Bounded
<1>8. InOrder(r, Buffer(f, ss), f.outbox, m + 1)
  BY <1>4, <1>5 DEF Buffer, b
<1> QED
  BY <1>1, <1>5, <1>6, <1>7, <1>8 DEF PiGood, f, box

\* LaterGood: an event that is dropped leaves the rest as it was.
LEMMA LaterGood ==
  ASSUME NEW e, NEW ss, NEW r \in Seq(Nat), NEW m \in Nat, PiGood(e, ss, r, m)
  PROVE  PiGood(e, ss, r, m + 1)
<1>1. Buffer(e, ss) \in Seq(Nat) /\ e.outbox \in Seq(Nat)
  <2>1. ASSUME e.active # 0  PROVE ss[e.active].buffer \in Seq(Nat)
    <3>1. e.active \in 1 .. Len(ss) /\ ss \in Seq(SocketStates)
      BY <2>1 DEF PiGood, Linked
    <3>2. ss[e.active] \in SocketStates
      BY <3>1
    <3> QED
      BY <3>2 DEF SocketStates
  <2> QED
    BY <2>1 DEF Buffer, PiGood, ExtStates
<1> QED
  BY <1>1, LaterInOrder DEF PiGood

\* OpenSocketGood: a connection opens only when there is none.
LEMMA OpenSocketGood ==
  ASSUME NEW e, NEW ss, NEW r \in Seq(Nat), NEW n \in Nat, PiGood(e, ss, r, n)
  PROVE  LET done == Pi!OpenSocket(e, ss)
         IN  PiGood(done.e, done.ss, r, n) /\ done.e.fired = e.fired
<1>1. CASE e.active # 0 \/ e.pending # 0 \/ ~ v3.file \/ Len(ss) = MaxSockets
  BY <1>1 DEF Pi!OpenSocket
<1>2. CASE ~ (e.active # 0 \/ e.pending # 0 \/ ~ v3.file \/ Len(ss) = MaxSockets)
  <2> DEFINE x == [state |-> "connecting", buffer |-> <<>>, wants |-> FALSE]
             f == [e EXCEPT !.pending = Len(ss) + 1]
             tt == Append(ss, x)
  <2>1. Pi!OpenSocket(e, ss) = [e |-> f, ss |-> tt]
    BY <1>2 DEF Pi!OpenSocket
  <2>2. /\ e \in ExtStates /\ ss \in Seq(SocketStates) /\ Len(ss) \in Nat
        /\ Linked(e, ss) /\ Bounded(e, ss) /\ InOrder(r, Buffer(e, ss), e.outbox, n)
        /\ e.active = 0 /\ e.pending = 0
    BY <1>2 DEF PiGood
  <2>3. x \in SocketStates /\ x.state = "connecting" /\ x.buffer = <<>> /\ Len(x.buffer) = 0
    BY DEF SocketStates
  <2> HIDE DEF x
  <2>4. /\ tt \in Seq(SocketStates) /\ Len(tt) = Len(ss) + 1 /\ tt[Len(ss) + 1] = x
        /\ \A j \in 1 .. Len(ss) : tt[j] = ss[j]
        /\ \A j \in 1 .. Len(ss) + 1 : j \in 1 .. Len(ss) \/ j = Len(ss) + 1
    BY <2>2, <2>3
  <2>5. /\ f \in ExtStates /\ f.active = 0 /\ f.pending = Len(ss) + 1 /\ f.outbox = e.outbox
        /\ f.paused = e.paused /\ f.fired = e.fired
    BY <2>2 DEF ExtStates
  <2> HIDE DEF f, tt
  <2>6. Linked(f, tt)
    <3>1. \A j \in 1 .. Len(ss) : /\ ss[j].state \notin {"open", "broken"}
                                  /\ ss[j].state # "connecting" /\ ss[j].buffer = <<>>
                                  /\ j # Len(ss) + 1 /\ j # 0
      BY <2>2 DEF Linked
    <3>2. f.active \in 0 .. Len(tt) /\ f.pending \in 0 .. Len(tt)
      BY <2>2, <2>4, <2>5
    <3>3. ASSUME NEW j \in 1 .. Len(tt)
          PROVE  /\ tt[j].state \in {"open", "broken"} <=> f.active = j
                 /\ tt[j].state = "connecting" <=> f.pending = j
                 /\ tt[j].buffer = <<>>
      <4>1. CASE j \in 1 .. Len(ss)
        BY <2>4, <2>5, <3>1, <4>1
      <4>2. CASE j = Len(ss) + 1
        BY <2>2, <2>3, <2>4, <2>5, <4>2
      <4> QED
        BY <2>4, <4>1, <4>2
    <3> QED
      BY <2>5, <3>2, <3>3 DEF Linked
  <2>7. Bounded(f, tt)
    <3>1. ASSUME NEW j \in 1 .. Len(tt)
          PROVE  Len(tt[j].buffer) <= HighWater + 1
      <4>1. CASE j \in 1 .. Len(ss)
        BY <2>2, <2>4, <4>1 DEF Bounded
      <4>2. CASE j = Len(ss) + 1
        BY <2>3, <2>4, <4>2, BackgroundAssumption
      <4> QED
        BY <2>4, <4>1, <4>2
    <3> QED
      BY <2>2, <2>5, <3>1 DEF Bounded
  <2>8. InOrder(r, Buffer(f, tt), f.outbox, n)
    BY <2>2, <2>5 DEF Buffer
  <2> QED
    BY <2>1, <2>4, <2>5, <2>6, <2>7, <2>8 DEF PiGood
<1> QED
  BY <1>1, <1>2

\* SendGood: whatever Send does with an event, nothing is overtaken, and no
\* connection takes more than its buffer holds.
LEMMA SendGood ==
  ASSUME NEW e, NEW ss, NEW r \in Seq(Nat), NEW m \in Nat, PiGood(e, ss, r, m)
  PROVE  LET done == Pi!Send(e, ss, m + 1)
         IN  PiGood(done.e, done.ss, r, m + 1) /\ done.e.fired = e.fired
<1>1. CASE e.active # 0 /\ e.paused
  <2> DEFINE f == [e EXCEPT !.outbox = Pi!Enqueue(@, m + 1)]
  <2>1. Pi!Send(e, ss, m + 1) = [e |-> f, ss |-> ss]
    BY <1>1 DEF Pi!Send
  <2>2. PiGood(f, ss, r, m + 1) /\ f.fired = e.fired
    BY <1>1, EnqueuedGood
  <2> HIDE DEF f
  <2> QED
    BY <2>1, <2>2
<1>2. CASE e.active # 0 /\ ~ e.paused
  <2> DEFINE k == e.active
             b == ss[k].buffer
             wrote == Pi!Write(ss, k, <<m + 1>>)
             full == Pi!Full(wrote[k])
             f == [e EXCEPT !.paused = full]
  <2>1. Pi!Send(e, ss, m + 1) = [e |-> f, ss |-> wrote]
    BY <1>2 DEF Pi!Send
  <2>2. /\ e \in ExtStates /\ ss \in Seq(SocketStates) /\ Len(ss) \in Nat
        /\ Linked(e, ss) /\ Bounded(e, ss) /\ InOrder(r, Buffer(e, ss), e.outbox, m)
        /\ k \in 1 .. Len(ss)
    BY <1>2 DEF PiGood, Linked
  <2>3. e.outbox = <<>> /\ Buffer(e, ss) = b /\ Len(b) < HighWater
    BY <1>2, <2>2 DEF Bounded, Buffer
  <2>4. b \in Seq(Nat) /\ Len(b) \in Nat /\ <<m + 1>> \in Seq(Nat) /\ Len(<<m + 1>>) = 1
    <3>1. ss[k] \in SocketStates
      BY <2>2
    <3>2. b \in Seq(Nat)
      BY <3>1 DEF SocketStates
    <3> QED
      BY <3>2
  <2>5. InOrder(r, b \o <<m + 1>>, <<>>, m + 1)
    BY <2>2, <2>3, <2>4, WriteInOrder
  <2>6. /\ wrote \in Seq(SocketStates) /\ Len(wrote) = Len(ss)
        /\ wrote[k].state = ss[k].state
        /\ wrote[k].buffer = b \o <<m + 1>>
        /\ \A j \in 1 .. Len(ss) : j # k => wrote[j] = ss[j]
    BY <2>2, <2>4, WriteFields
  <2> HIDE DEF wrote
  <2>7. Len(wrote[k].buffer) = Len(b) + 1 /\ Len(wrote[k].buffer) <= HighWater
    <3>1. Len(b \o <<m + 1>>) = Len(b) + 1
      BY <2>4
    <3>2. Len(b) + 1 <= HighWater
      <4> HIDE DEF b
      <4> QED
        BY <2>3, <2>4, BackgroundAssumption
    <3> QED
      BY <2>6, <3>1, <3>2
  <2>9. /\ full \in BOOLEAN
        /\ ~ full => Len(wrote[k].buffer) < HighWater
    BY <2>4, <2>7, BackgroundAssumption DEF Pi!Full
  <2> HIDE DEF full
  <2>8. /\ f \in ExtStates /\ f.outbox = <<>> /\ f.active = k /\ f.pending = e.pending
        /\ f.paused = full /\ f.fired = e.fired
    BY <2>2, <2>3, <2>9 DEF ExtStates
  <2> HIDE DEF f
  <2>10. Linked(f, wrote)
    BY <2>2, <2>6, <2>8, LinkedAfterWrite
  <2>11. Bounded(f, wrote)
    <3>1. ASSUME NEW j \in 1 .. Len(wrote)
          PROVE  Len(wrote[j].buffer) <= HighWater + 1
      <4>1. CASE j = k
        <5>1. Len(wrote[k].buffer) <= HighWater + 1
          <6>1. Len(wrote[k].buffer) \in Nat
            BY <2>4, <2>7
          <6> QED
            BY <2>7, <6>1, BackgroundAssumption
        <5> QED
          BY <4>1, <5>1
      <4>2. CASE j # k
        BY <2>2, <2>6, <4>2 DEF Bounded
      <4> QED
        BY <4>1, <4>2
    <3>2. Len(f.outbox) <= OutboxMax
      BY <2>8, BackgroundAssumption
    <3> QED
      BY <2>8, <2>9, <3>1, <3>2 DEF Bounded
  <2>12. InOrder(r, Buffer(f, wrote), f.outbox, m + 1)
    <3>1. Buffer(f, wrote) = b \o <<m + 1>>
      BY <2>6, <2>8, <1>2 DEF Buffer
    <3> QED
      BY <2>5, <2>8, <3>1
  <2> QED
    BY <2>1, <2>6, <2>8, <2>10, <2>11, <2>12 DEF PiGood
<1>3. CASE e.active = 0
  <2> DEFINE f == [e EXCEPT !.outbox = Pi!Enqueue(@, m + 1)]
  <2>1. Pi!Send(e, ss, m + 1) = Pi!SendLater(e, ss, m + 1)
    BY <1>3 DEF Pi!Send
  <2>2. PiGood(f, ss, r, m + 1) /\ f.fired = e.fired
    BY <1>3, EnqueuedGood
  <2> HIDE DEF f
  <2>3. CASE e.pending # 0
    <3>1. Pi!SendLater(e, ss, m + 1) = [e |-> f, ss |-> ss]
      BY <2>3 DEF Pi!SendLater, f
    <3> QED
      BY <2>1, <2>2, <3>1
  <2>4. CASE e.pending = 0 /\ ~ e.backoff
    <3>1. Pi!SendLater(e, ss, m + 1) = Pi!OpenSocket(f, ss)
      BY <2>4 DEF Pi!SendLater, f
    <3>2. m + 1 \in Nat
      OBVIOUS
    <3> QED
      BY <2>1, <2>2, <3>1, <3>2, OpenSocketGood
  <2>5. CASE e.pending = 0 /\ e.backoff
    <3>1. Pi!SendLater(e, ss, m + 1) = [e |-> e, ss |-> ss]
      BY <2>5 DEF Pi!SendLater
    <3> QED
      BY <2>1, <3>1, LaterGood
  <2> QED
    BY <2>3, <2>4, <2>5
<1> QED
  BY <1>1, <1>2, <1>3

-----------------------------------------------------------------------------
(* The extension's steps *)

LEMMA LinesType ==
  ASSUME NEW read \in Seq(Nat \X Nat)
  PROVE  /\ LinesOf(read) \in Seq(Nat)
         /\ Len(LinesOf(read)) = Len(read)
         /\ \A i \in 1 .. Len(read) : LinesOf(read)[i] = read[i][2]
<1>1. Len(read) \in Nat /\ DOMAIN read = 1 .. Len(read) /\ \A i \in 1 .. Len(read) : read[i][2] \in Nat
  OBVIOUS
<1>2. LinesOf(read) = [i \in 1 .. Len(read) |-> read[i][2]]
  BY <1>1 DEF LinesOf
<1>3. [i \in 1 .. Len(read) |-> read[i][2]] \in [1 .. Len(read) -> Nat]
  BY <1>1
<1>4. LinesOf(read) \in Seq(Nat)
  <2> DEFINE n == Len(read)
  <2>1. n \in Nat /\ LinesOf(read) \in [1 .. n -> Nat]
    BY <1>1, <1>2, <1>3
  <2> HIDE DEF n
  <2>2. LinesOf(read) \in UNION {[1 .. i -> Nat] : i \in Nat}
    BY <2>1
  <2> QED
    BY <2>2, SeqDef
<1>5. DOMAIN LinesOf(read) = 1 .. Len(LinesOf(read)) /\ Len(LinesOf(read)) \in Nat
  BY <1>4
<1>6. Len(LinesOf(read)) = Len(read)
  <2> DEFINE a == Len(LinesOf(read))
             b == Len(read)
  <2>1. a \in Nat /\ b \in Nat /\ \A i : i \in 1 .. a <=> i \in 1 .. b
    BY <1>1, <1>2, <1>5
  <2> HIDE DEF a, b
  <2>2. ASSUME a < b  PROVE FALSE
    <3>1. b \in 1 .. b /\ b \notin 1 .. a
      BY <2>1, <2>2
    <3> QED
      BY <2>1, <3>1
  <2>3. ASSUME b < a  PROVE FALSE
    <3>1. a \in 1 .. a /\ a \notin 1 .. b
      BY <2>1, <2>3
    <3> QED
      BY <2>1, <3>1
  <2>4. a = b
    BY <2>1, <2>2, <2>3
  <2> QED
    BY <2>4 DEF a, b
<1> QED
  BY <1>2, <1>4, <1>6

\* LinesAppend: a line more that atmd has read.
LEMMA LinesAppend ==
  ASSUME NEW read \in Seq(Nat \X Nat), NEW k \in Nat, NEW x \in Nat
  PROVE  LinesOf(Append(read, <<k, x>>)) = Append(LinesOf(read), x)
<1> DEFINE longer == Append(read, <<k, x>>)
           s == LinesOf(longer)
           t == Append(LinesOf(read), x)
<1>1. /\ Len(read) \in Nat /\ longer \in Seq(Nat \X Nat) /\ Len(longer) = Len(read) + 1
      /\ \A i \in 1 .. Len(read) : longer[i] = read[i]
      /\ longer[Len(read) + 1] = <<k, x>>
  OBVIOUS
<1> HIDE DEF longer
<1>2. /\ s \in Seq(Nat) /\ Len(s) = Len(read) + 1
      /\ \A i \in 1 .. Len(read) + 1 : s[i] = longer[i][2]
  BY <1>1, LinesType
<1>3. /\ t \in Seq(Nat) /\ Len(t) = Len(read) + 1
      /\ \A i \in 1 .. Len(read) : t[i] = read[i][2]
      /\ t[Len(read) + 1] = x
  BY LinesType, AppendElements
<1> HIDE DEF s, t
<1>4. \A i \in 1 .. Len(s) : s[i] = t[i]
  <2>1. \A i \in 1 .. Len(read) + 1 : i \in 1 .. Len(read) \/ i = Len(read) + 1
    BY <1>1
  <2>2. <<k, x>>[2] = x
    OBVIOUS
  <2>3. \A i \in 1 .. Len(read) : i \in 1 .. Len(read) + 1
    BY <1>1
  <2> QED
    BY <1>1, <1>2, <1>3, <2>1, <2>2, <2>3
<1>5. s = t
  BY <1>2, <1>3, <1>4, SeqEqual
<1> QED
  BY <1>5 DEF s, t, longer

\* The extension's other variables: they do not matter to PiGood.
LEMMA OtherFields ==
  ASSUME NEW e, NEW ss, NEW r, NEW n, PiGood(e, ss, r, n), NEW f \in ExtStates,
         f.active = e.active, f.pending = e.pending, f.paused = e.paused, f.outbox = e.outbox
  PROVE  PiGood(f, ss, r, n)
  BY DEF PiGood, Linked, Bounded, Buffer

\* The active socket's buffer is a sequence, and so is what atmd has read.
LEMMA PiTypes ==
  ASSUME PiInv
  PROVE  /\ v1 \in ExtStates /\ v1.fired \in Nat /\ v1.outbox \in Seq(Nat)
         /\ v2 \in Seq(SocketStates) /\ Len(v2) \in Nat /\ DOMAIN v2 = 1 .. Len(v2)
         /\ v3.read \in Seq(Nat \X Nat) /\ LinesOf(v3.read) \in Seq(Nat)
         /\ \A k \in 1 .. Len(v2) : v2[k] \in SocketStates /\ v2[k].buffer \in Seq(Nat)
<1>1. v1 \in ExtStates /\ v2 \in Seq(SocketStates) /\ v3.read \in Seq(Nat \X Nat)
  BY DEF PiInv, PiGood
<1>2. \A k \in 1 .. Len(v2) : v2[k] \in SocketStates
  BY <1>1
<1>3. Len(v2) \in Nat /\ DOMAIN v2 = 1 .. Len(v2)
  BY <1>1
<1> QED
  BY <1>1, <1>2, <1>3, LinesType DEF ExtStates, SocketStates

LEMMA SendsInv ==
  ASSUME PiInv, NEW f \in ExtStates, Pi!Sends(f),
         f.active = v1.active, f.pending = v1.pending, f.paused = v1.paused,
         f.outbox = v1.outbox, f.fired = v1.fired
  PROVE  PiInv'
<1> DEFINE r == LinesOf(v3.read)
           m == v1.fired
           g == [f EXCEPT !.fired = @ + 1]
           done == Pi!Send(g, v2, m + 1)
<1>1. v1' = done.e /\ v2' = done.ss /\ v3' = v3
  BY DEF Pi!Sends
<1>2. m \in Nat /\ r \in Seq(Nat) /\ PiGood(v1, v2, r, m)
  BY PiTypes DEF PiInv
<1>3. /\ g \in ExtStates /\ g.fired = m + 1
      /\ g.active = f.active /\ g.pending = f.pending /\ g.paused = f.paused
      /\ g.outbox = f.outbox
  <2> HIDE DEF m
  <2>1. f.fired + 1 \in Nat /\ f.fired = m
    BY <1>2 DEF m
  <2>2. g \in ExtStates
    BY <2>1 DEF ExtStates
  <2>3. g.fired = m + 1
    BY <2>1 DEF ExtStates
  <2> QED
    BY <2>2, <2>3 DEF ExtStates
<1> HIDE DEF g, r, m
<1>4. PiGood(g, v2, r, m)
  BY <1>2, <1>3, OtherFields
<1>5. PiGood(done.e, done.ss, r, m + 1) /\ done.e.fired = g.fired
  BY <1>2, <1>4, SendGood
<1> HIDE DEF done
<1>6. LinesOf(v3'.read) = r
  BY <1>1 DEF r
<1> QED
  BY <1>1, <1>3, <1>5, <1>6 DEF PiInv

\* EventsInv: the events of pi, the wrapped dialogs' among them.
LEMMA EventsInv ==
  ASSUME PiInv, Pi!EventFires \/ Pi!UiBinds \/ Pi!SelectOpens \/ Pi!SelectSettles \/ Pi!BackoffEnds
  PROVE  PiInv'
<1>1. v1 \in ExtStates
  BY PiTypes
<1>2. CASE Pi!EventFires
  <2> DEFINE f == [v1 EXCEPT !.patched = @ \/ v1.uiBound]
  <2>1. /\ f \in ExtStates
        /\ f.active = v1.active /\ f.pending = v1.pending /\ f.paused = v1.paused
        /\ f.outbox = v1.outbox /\ f.fired = v1.fired
    BY <1>1 DEF ExtStates
  <2>2. Pi!Sends(f)
    BY <1>2 DEF Pi!EventFires
  <2> HIDE DEF f
  <2> QED
    BY <2>1, <2>2, SendsInv
<1>3. ASSUME NEW open \in BOOLEAN, Pi!Sends([v1 EXCEPT !.dialog = open])
      PROVE  PiInv'
  <2> DEFINE f == [v1 EXCEPT !.dialog = open]
  <2>1. /\ f \in ExtStates
        /\ f.active = v1.active /\ f.pending = v1.pending /\ f.paused = v1.paused
        /\ f.outbox = v1.outbox /\ f.fired = v1.fired
    BY <1>1 DEF ExtStates
  <2>2. Pi!Sends(f)
    BY <1>3
  <2> HIDE DEF f
  <2> QED
    BY <2>1, <2>2, SendsInv
<1>4. CASE Pi!SelectOpens
  BY <1>3, <1>4 DEF Pi!SelectOpens
<1>5. CASE Pi!SelectSettles
  BY <1>3, <1>5 DEF Pi!SelectSettles
<1>6. CASE Pi!UiBinds \/ Pi!BackoffEnds
  <2>1. /\ v1' \in ExtStates /\ v2' = v2 /\ v3' = v3
        /\ v1'.active = v1.active /\ v1'.pending = v1.pending /\ v1'.paused = v1.paused
        /\ v1'.outbox = v1.outbox /\ v1'.fired = v1.fired
    BY <1>1, <1>6 DEF Pi!UiBinds, Pi!BackoffEnds, ExtStates
  <2>2. PiGood(v1', v2, LinesOf(v3.read), v1.fired)
    BY <2>1, OtherFields DEF PiInv
  <2> QED
    BY <2>1, <2>2 DEF PiInv
<1> QED
  BY <1>2, <1>4, <1>5, <1>6

\* A socket's change of state from open to broken is none to the extension.
LEMMA BreakInv ==
  ASSUME PiInv, v2' \in Seq(SocketStates), Len(v2') = Len(v2), v1' = v1, v3'.read = v3.read,
         v3' \in [up : BOOLEAN, file : BOOLEAN, read : Seq(Nat \X Nat)],
         \A k \in 1 .. Len(v2) :
           /\ v2'[k].buffer = v2[k].buffer
           /\ \/ v2'[k].state = v2[k].state
              \/ v2[k].state = "open" /\ v2'[k].state = "broken"
  PROVE  PiInv'
<1>1. PiGood(v1, v2, LinesOf(v3.read), v1.fired)
  BY DEF PiInv
<1>2. Linked(v1, v2')
  <2>1. ASSUME NEW k \in 1 .. Len(v2)
        PROVE  /\ v2'[k].state \in {"open", "broken"} <=> v2[k].state \in {"open", "broken"}
               /\ v2'[k].state = "connecting" <=> v2[k].state = "connecting"
               /\ v2'[k].buffer = v2[k].buffer
    OBVIOUS
  <2> QED
    BY <1>1, <2>1 DEF PiGood, Linked
<1>3. Buffer(v1, v2') = Buffer(v1, v2) /\ Bounded(v1, v2')
  <2>1. v1.active # 0 => v1.active \in 1 .. Len(v2)
    BY <1>1 DEF PiGood, Linked
  <2> QED
    BY <1>1, <2>1 DEF PiGood, Bounded, Buffer
<1>4. PiGood(v1, v2', LinesOf(v3.read), v1.fired)
  BY <1>1, <1>2, <1>3 DEF PiGood
<1> QED
  BY <1>4 DEF PiInv

\* DaemonStepInv: the daemon dies, which breaks the connections, or starts.
LEMMA DaemonStepInv ==
  ASSUME PiInv, Pi!Dies \/ Pi!Starts
  PROVE  PiInv'
<1>1. /\ v2 \in Seq(SocketStates) /\ Len(v2) \in Nat /\ DOMAIN v2 = 1 .. Len(v2)
      /\ \A j \in 1 .. Len(v2) : v2[j] \in SocketStates
      /\ v3 \in [up : BOOLEAN, file : BOOLEAN, read : Seq(Nat \X Nat)]
  BY PiTypes DEF PiInv
<1>2. ASSUME NEW s \in SocketStates
      PROVE  /\ [s EXCEPT !.state = "broken"] \in SocketStates
             /\ [s EXCEPT !.state = "broken"].state = "broken"
             /\ [s EXCEPT !.state = "broken"].buffer = s.buffer
  BY DEF SocketStates
<1>3. CASE Pi!Dies
  <2> DEFINE kept(j) == IF v2[j].state = "open" THEN [v2[j] EXCEPT !.state = "broken"] ELSE v2[j]
  <2>1. /\ v2' = [j \in 1 .. Len(v2) |-> kept(j)] /\ v1' = v1
        /\ v3'.read = v3.read
        /\ v3' \in [up : BOOLEAN, file : BOOLEAN, read : Seq(Nat \X Nat)]
    <3>1. PICK file \in BOOLEAN : v3' = [v3 EXCEPT !.up = FALSE, !.file = file]
      BY <1>3 DEF Pi!Dies
    <3>2. v2' = [j \in 1 .. Len(v2) |-> kept(j)] /\ v1' = v1
      BY <1>1, <1>3 DEF Pi!Dies
    <3> QED
      BY <1>1, <3>1, <3>2
  <2>2. ASSUME NEW j \in 1 .. Len(v2)
        PROVE  /\ kept(j) \in SocketStates /\ kept(j).buffer = v2[j].buffer
               /\ \/ kept(j).state = v2[j].state
                  \/ v2[j].state = "open" /\ kept(j).state = "broken"
    <3>1. v2[j] \in SocketStates
      BY <1>1
    <3>2. CASE v2[j].state = "open"
      BY <1>2, <3>1, <3>2
    <3>3. CASE v2[j].state # "open"
      BY <3>1, <3>3
    <3> QED
      BY <3>2, <3>3
  <2> HIDE DEF kept
  <2>3. v2' \in Seq(SocketStates) /\ Len(v2') = Len(v2)
    BY <1>1, <2>1, <2>2
  <2>4. \A j \in 1 .. Len(v2) : v2'[j] = kept(j)
    BY <2>1
  <2> QED
    BY <2>1, <2>2, <2>3, <2>4, BreakInv
<1>4. CASE Pi!Starts
  <2>1. /\ v1' = v1 /\ v2' = v2 /\ v3'.read = v3.read
        /\ v3' \in [up : BOOLEAN, file : BOOLEAN, read : Seq(Nat \X Nat)]
    BY <1>1, <1>4 DEF Pi!Starts
  <2>2. /\ v2' \in Seq(SocketStates) /\ Len(v2') = Len(v2)
        /\ \A j \in 1 .. Len(v2) : v2'[j].buffer = v2[j].buffer /\ v2'[j].state = v2[j].state
    BY <1>1, <2>1
  <2> QED
    BY <2>1, <2>2, BreakInv
<1> QED
  BY <1>3, <1>4

LEMMA ClosesConnectionInv ==
  ASSUME PiInv, NEW k \in 1 .. Len(v2), Pi!ClosesConnection(k)
  PROVE  PiInv'
<1>1. /\ v2 \in Seq(SocketStates) /\ Len(v2) \in Nat /\ DOMAIN v2 = 1 .. Len(v2)
      /\ \A j \in 1 .. Len(v2) : v2[j] \in SocketStates
      /\ v3 \in [up : BOOLEAN, file : BOOLEAN, read : Seq(Nat \X Nat)]
  BY PiTypes DEF PiInv
<1>2. ASSUME NEW s \in SocketStates
      PROVE  /\ [s EXCEPT !.state = "broken"] \in SocketStates
             /\ [s EXCEPT !.state = "broken"].state = "broken"
             /\ [s EXCEPT !.state = "broken"].buffer = s.buffer
  BY DEF SocketStates
<1> DEFINE x == [v2[k] EXCEPT !.state = "broken"]
<1>3. /\ v1' = v1 /\ v3' = v3 /\ v2' = [v2 EXCEPT ![k] = x] /\ v2[k].state = "open"
  BY DEF Pi!ClosesConnection
<1>4. x \in SocketStates /\ x.state = "broken" /\ x.buffer = v2[k].buffer
  BY <1>1, <1>2
<1> HIDE DEF x
<1>5. /\ v2' \in Seq(SocketStates) /\ Len(v2') = Len(v2) /\ v2'[k] = x
      /\ \A j \in 1 .. Len(v2) : j # k => v2'[j] = v2[j]
  BY <1>1, <1>3, <1>4, SocketChanges
<1>6. ASSUME NEW j \in 1 .. Len(v2)
      PROVE  /\ v2'[j].buffer = v2[j].buffer
             /\ \/ v2'[j].state = v2[j].state
                \/ v2[j].state = "open" /\ v2'[j].state = "broken"
  <2>1. CASE j = k
    BY <1>3, <1>4, <1>5, <2>1
  <2>2. CASE j # k
    BY <1>5, <2>2
  <2> QED
    BY <2>1, <2>2
<1> QED
  BY <1>1, <1>3, <1>5, <1>6, BreakInv

\* ReadsInv: atmd takes the front of the active connection's buffer.
LEMMA ReadsInv ==
  ASSUME PiInv, NEW k \in 1 .. Len(v2), Pi!Reads(k)
  PROVE  PiInv'
<1> DEFINE b == v2[k].buffer
           r == LinesOf(v3.read)
           x == [v2[k] EXCEPT !.buffer = Tail(@)]
<1>1. /\ v1 \in ExtStates /\ v1.outbox \in Seq(Nat) /\ v1.fired \in Nat
      /\ v2 \in Seq(SocketStates) /\ Len(v2) \in Nat
      /\ v2[k] \in SocketStates /\ b \in Seq(Nat) /\ r \in Seq(Nat)
      /\ v3.read \in Seq(Nat \X Nat)
  BY PiTypes
<1>2. /\ Linked(v1, v2) /\ Bounded(v1, v2)
      /\ InOrder(r, Buffer(v1, v2), v1.outbox, v1.fired)
  BY DEF PiInv, PiGood
<1>3. /\ b # <<>> /\ v1' = v1 /\ v2' = [v2 EXCEPT ![k] = x]
      /\ v2[k].state = "open"
      /\ v3' = [v3 EXCEPT !.read = Append(@, <<k, Head(b)>>)]
  BY DEF Pi!Reads
<1>4. v1.active = k /\ k # 0 /\ Buffer(v1, v2) = b
  BY <1>2, <1>3 DEF Linked, Buffer
<1>5. /\ Tail(b) \in Seq(Nat) /\ Len(Tail(b)) = Len(b) - 1 /\ Len(b) \in Nat
      /\ Head(b) \in Nat /\ k \in Nat
  <2>1. k \in Nat /\ b \in Seq(Nat) /\ b # <<>>
    BY <1>1, <1>3
  <2> HIDE DEF b
  <2> QED
    BY <2>1
<1>6. x \in SocketStates /\ x.state = "open" /\ x.buffer = Tail(b)
  BY <1>1, <1>3, <1>5 DEF SocketStates
<1> HIDE DEF x
<1>7. /\ v2' \in Seq(SocketStates) /\ Len(v2') = Len(v2) /\ v2'[k] = x
      /\ \A j \in 1 .. Len(v2) : j # k => v2'[j] = v2[j]
  BY <1>1, <1>3, <1>6, SocketChanges
<1>8. /\ v3'.read = Append(v3.read, <<k, Head(b)>>)
      /\ v3' \in [up : BOOLEAN, file : BOOLEAN, read : Seq(Nat \X Nat)]
  <2>1. v3 \in [up : BOOLEAN, file : BOOLEAN, read : Seq(Nat \X Nat)]
    BY DEF PiInv
  <2>2. Append(v3.read, <<k, Head(b)>>) \in Seq(Nat \X Nat)
    <3>1. <<k, Head(b)>> \in Nat \X Nat
      BY <1>5
    <3> QED
      BY <1>1, <3>1
  <2> QED
    BY <1>3, <2>1, <2>2
<1>9. LinesOf(v3'.read) = Append(r, Head(b))
  <2>1. v3.read \in Seq(Nat \X Nat) /\ k \in Nat /\ Head(b) \in Nat
    BY <1>1, <1>5
  <2> HIDE DEF b
  <2>2. LinesOf(Append(v3.read, <<k, Head(b)>>)) = Append(LinesOf(v3.read), Head(b))
    BY <2>1, LinesAppend
  <2> QED
    BY <1>8, <2>2
<1>10. InOrder(Append(r, Head(b)), Tail(b), v1.outbox, v1.fired)
  BY <1>1, <1>2, <1>3, <1>4, ReadInOrderStep
<1> HIDE DEF r
<1>11. Linked(v1, v2')
  BY <1>1, <1>2, <1>3, <1>4, <1>6, <1>7, LinkedAfterWrite
<1>12. Bounded(v1, v2')
  <2>1. Len(x.buffer) <= HighWater + 1
    BY <1>1, <1>2, <1>5, <1>6, BackgroundAssumption DEF Bounded
  <2>2. ASSUME NEW j \in 1 .. Len(v2')
        PROVE  Len(v2'[j].buffer) <= HighWater + 1
    BY <1>2, <1>7, <2>1 DEF Bounded
  <2>3. ~ v1.paused => v1.outbox = <<>> /\ Len(x.buffer) < HighWater
    <3>1. ~ v1.paused => v1.outbox = <<>> /\ Len(b) < HighWater
      BY <1>2, <1>4 DEF Bounded
    <3> HIDE DEF b
    <3> QED
      BY <1>5, <1>6, <3>1, BackgroundAssumption
  <2> QED
    BY <1>2, <1>4, <1>7, <2>2, <2>3 DEF Bounded
<1>13. Buffer(v1, v2') = Tail(b)
  BY <1>4, <1>6, <1>7 DEF Buffer
<1>14. PiGood(v1, v2', LinesOf(v3'.read), v1.fired)
  BY <1>1, <1>7, <1>9, <1>10, <1>11, <1>12, <1>13 DEF PiGood
<1> QED
  BY <1>3, <1>8, <1>14 DEF PiInv

\* ClosesInv: what a connection buffered is lost with it, the outbox is not.
LEMMA ClosesInv ==
  ASSUME PiInv, NEW k \in 1 .. Len(v2), Pi!Closes(k)
  PROVE  PiInv'
<1> DEFINE x == [state |-> "closed", buffer |-> <<>>, wants |-> FALSE]
           r == LinesOf(v3.read)
<1>1. /\ v1 \in ExtStates /\ v1.fired \in Nat
      /\ v2 \in Seq(SocketStates) /\ Len(v2) \in Nat
      /\ Linked(v1, v2) /\ Bounded(v1, v2)
      /\ InOrder(r, Buffer(v1, v2), v1.outbox, v1.fired)
  BY PiTypes DEF PiInv, PiGood
<1>2. /\ v2[k].state \in {"broken", "connecting"}
      /\ v2' = [v2 EXCEPT ![k] = x] /\ v3' = v3
      /\ v1' = [v1 EXCEPT !.pending = IF @ = k THEN 0 ELSE @,
                          !.active = IF @ = k THEN 0 ELSE @,
                          !.paused = IF v1.active = k THEN FALSE ELSE @,
                          !.backoff = TRUE]
  BY DEF Pi!Closes
<1>3. \/ v1.active = k /\ v1.pending = 0
      \/ v1.active = 0 /\ v1.pending = k
  <2>1. k # 0
    OBVIOUS
  <2>2. v2[k].state = "broken" => v1.active = k
    BY <1>1 DEF Linked
  <2>3. v2[k].state = "connecting" => v1.pending = k
    BY <1>1 DEF Linked
  <2>4. v1.active = 0 \/ v1.pending = 0
    BY <1>1 DEF Linked
  <2> QED
    BY <1>2, <2>1, <2>2, <2>3, <2>4
<1>4. /\ v1' \in ExtStates /\ v1'.active = 0 /\ v1'.pending = 0
      /\ v1'.outbox = v1.outbox /\ v1'.fired = v1.fired
  BY <1>1, <1>2, <1>3 DEF ExtStates
<1>5. x \in SocketStates /\ x.state = "closed" /\ x.buffer = <<>> /\ Len(x.buffer) = 0
  BY DEF SocketStates
<1> HIDE DEF x
<1>6. /\ v2' \in Seq(SocketStates) /\ Len(v2') = Len(v2) /\ v2'[k] = x
      /\ \A j \in 1 .. Len(v2) : j # k => v2'[j] = v2[j]
  BY <1>1, <1>2, <1>5, SocketChanges
<1>7. Linked(v1', v2')
  <2>1. ASSUME NEW j \in 1 .. Len(v2)
        PROVE  /\ v2'[j].state \notin {"open", "broken", "connecting"}
               /\ v2'[j].buffer = <<>> /\ j # 0
    <3>1. CASE j = k
      BY <1>5, <1>6, <3>1
    <3>2. CASE j # k
      <4>1. j # v1.active /\ j # v1.pending
        BY <1>3, <3>2
      <4>2. v2[j].state \notin {"open", "broken", "connecting"} /\ v2[j].buffer = <<>>
        BY <1>1, <4>1 DEF Linked
      <4> QED
        BY <1>6, <3>2, <4>2
    <3> QED
      BY <3>1, <3>2
  <2> QED
    BY <1>1, <1>4, <1>6, <2>1 DEF Linked
<1>8. Bounded(v1', v2')
  <2>1. ASSUME NEW j \in 1 .. Len(v2')
        PROVE  Len(v2'[j].buffer) <= HighWater + 1
    <3>1. CASE j = k
      BY <1>5, <1>6, <3>1, BackgroundAssumption
    <3>2. CASE j # k
      BY <1>1, <1>6, <3>2 DEF Bounded
    <3> QED
      BY <3>1, <3>2
  <2> QED
    BY <1>1, <1>4, <2>1 DEF Bounded
<1>9. InOrder(r, Buffer(v1', v2'), v1'.outbox, v1'.fired)
  <2>1. InOrder(r, <<>>, v1.outbox, v1.fired)
    BY <1>1, ShakenInOrder
  <2>2. Buffer(v1', v2') = <<>>
    BY <1>4 DEF Buffer
  <2> QED
    BY <1>4, <2>1, <2>2
<1> QED
  BY <1>2, <1>4, <1>6, <1>7, <1>8, <1>9 DEF PiInv, PiGood

\* ConnectsInv: the handshake goes first, then the outbox.
LEMMA ConnectsInv ==
  ASSUME PiInv, NEW k \in 1 .. Len(v2), Pi!Connects(k)
  PROVE  PiInv'
<1> DEFINE r == LinesOf(v3.read)
           e == [v1 EXCEPT !.pending = 0, !.active = k, !.paused = FALSE]
           opened == [v2 EXCEPT ![k].state = "open"]
           shaken == Pi!Write(opened, k, <<0>>)
           full == Pi!Full(shaken[k])
           f == [e EXCEPT !.paused = full]
           done == Pi!FlushOutboxTo(f, shaken, k)
<1>1. /\ v1 \in ExtStates /\ v1.fired \in Nat /\ v1.outbox \in Seq(Nat)
      /\ v2 \in Seq(SocketStates) /\ Len(v2) \in Nat /\ v2[k] \in SocketStates
      /\ Linked(v1, v2) /\ Bounded(v1, v2) /\ r \in Seq(Nat)
      /\ InOrder(r, Buffer(v1, v2), v1.outbox, v1.fired)
  BY PiTypes DEF PiInv, PiGood
<1>2. v1' = done.e /\ v2' = done.ss /\ v3' = v3 /\ v2[k].state = "connecting"
  BY DEF Pi!Connects
<1>3. v1.pending = k /\ v1.active = 0 /\ k # 0 /\ v2[k].buffer = <<>>
  BY <1>1, <1>2 DEF Linked
<1>4. /\ e \in ExtStates /\ e.active = k /\ e.pending = 0
      /\ e.outbox = v1.outbox /\ e.fired = v1.fired
  <2>1. k \in Nat
    BY <1>1
  <2> QED
    BY <1>1, <2>1 DEF ExtStates
<1>5. /\ [v2[k] EXCEPT !.state = "open"] \in SocketStates
      /\ [v2[k] EXCEPT !.state = "open"].state = "open"
      /\ [v2[k] EXCEPT !.state = "open"].buffer = <<>>
  BY <1>1, <1>3 DEF SocketStates
<1>6. opened = [v2 EXCEPT ![k] = [v2[k] EXCEPT !.state = "open"]]
  OBVIOUS
<1>7. /\ opened \in Seq(SocketStates) /\ Len(opened) = Len(v2)
      /\ opened[k].state = "open" /\ opened[k].buffer = <<>>
      /\ \A j \in 1 .. Len(v2) : j # k => opened[j] = v2[j]
  BY <1>1, <1>5, <1>6, SocketChanges
<1> HIDE DEF e, opened
<1>8. Linked(e, opened)
  <2>1. ASSUME NEW j \in 1 .. Len(v2), j # k
        PROVE  /\ opened[j].state \notin {"open", "broken", "connecting"}
               /\ opened[j].buffer = <<>> /\ j # 0
    <3>1. v2[j].state \notin {"open", "broken", "connecting"} /\ v2[j].buffer = <<>> /\ j # 0
      <4>1. j # v1.active /\ j # v1.pending /\ j # 0
        BY <1>3, <2>1
      <4> QED
        BY <1>1, <4>1 DEF Linked
    <3> QED
      BY <1>7, <2>1, <3>1
  <2> QED
    BY <1>1, <1>3, <1>4, <1>7, <2>1 DEF Linked
<1>9. /\ shaken \in Seq(SocketStates) /\ Len(shaken) = Len(v2)
      /\ shaken[k].state = "open" /\ shaken[k].buffer = <<0>>
      /\ \A j \in 1 .. Len(v2) : j # k => shaken[j] = opened[j]
  <2>1. <<0>> \in Seq(Nat) /\ <<>> \o <<0>> = <<0>> /\ k \in 1 .. Len(opened)
    BY <1>7
  <2>2. /\ shaken \in Seq(SocketStates) /\ Len(shaken) = Len(opened)
        /\ shaken[k].state = opened[k].state
        /\ shaken[k].buffer = opened[k].buffer \o <<0>>
        /\ \A j \in 1 .. Len(opened) : j # k => shaken[j] = opened[j]
    BY <1>7, <2>1, WriteFields
  <2> HIDE DEF shaken
  <2> QED
    BY <1>7, <2>1, <2>2
<1> HIDE DEF shaken
<1>10. /\ full \in BOOLEAN /\ Len(shaken[k].buffer) = 1
       /\ full \/ Len(shaken[k].buffer) < HighWater
  BY <1>9, BackgroundAssumption DEF Pi!Full
<1> HIDE DEF full
<1>11. /\ f \in ExtStates /\ f.active = k /\ f.pending = 0 /\ f.paused = full
       /\ f.outbox = v1.outbox /\ f.fired = v1.fired
  BY <1>4, <1>10 DEF ExtStates
<1> HIDE DEF f
<1>12. Linked(f, shaken)
  <2>1. Len(shaken) = Len(opened) /\ shaken[k].state = opened[k].state /\ k \in 1 .. Len(opened)
    BY <1>7, <1>9
  <2> QED
    BY <1>4, <1>7, <1>8, <1>9, <1>11, <2>1, LinkedAfterWrite
<1>13. \A j \in 1 .. Len(shaken) : Len(shaken[j].buffer) <= HighWater + 1
  <2>1. ASSUME NEW j \in 1 .. Len(shaken)  PROVE Len(shaken[j].buffer) <= HighWater + 1
    <3>1. CASE j = k
      <4>1. Len(shaken[k].buffer) <= HighWater + 1
        BY <1>10, BackgroundAssumption
      <4> QED
        BY <3>1, <4>1
    <3>2. CASE j # k
      BY <1>1, <1>7, <1>9, <3>2 DEF Bounded
    <3> QED
      BY <3>1, <3>2
  <2> QED
    BY <2>1
<1>14. InOrder(r, shaken[k].buffer, f.outbox, f.fired)
  <2>1. InOrder(r, <<0>>, v1.outbox, v1.fired)
    BY <1>1, ShakenInOrder
  <2> QED
    BY <1>9, <1>11, <2>1
<1>15. PiGood(done.e, done.ss, r, f.fired) /\ done.e.fired = f.fired
  <2>1. /\ k \in 1 .. Len(shaken) /\ Len(f.outbox) <= OutboxMax
        /\ Len(shaken[k].buffer) <= HighWater
        /\ f.paused \/ Len(shaken[k].buffer) < HighWater
    BY <1>1, <1>9, <1>10, <1>11, BackgroundAssumption DEF Bounded
  <2> QED
    BY <1>1, <1>9, <1>11, <1>12, <1>13, <1>14, <2>1, FlushGood
<1> QED
  BY <1>2, <1>15 DEF PiInv

\* DrainsInv: a drained connection takes the next lines of the outbox.
LEMMA DrainsInv ==
  ASSUME PiInv, NEW k \in 1 .. Len(v2), Pi!Drains(k)
  PROVE  PiInv'
<1> DEFINE r == LinesOf(v3.read)
           emptied == [v2 EXCEPT ![k].wants = FALSE]
           f == [v1 EXCEPT !.paused = FALSE]
           done == Pi!FlushOutboxTo(f, emptied, k)
<1>1. /\ v1 \in ExtStates /\ v1.fired \in Nat /\ v1.outbox \in Seq(Nat)
      /\ v2 \in Seq(SocketStates) /\ Len(v2) \in Nat /\ v2[k] \in SocketStates
      /\ Linked(v1, v2) /\ Bounded(v1, v2) /\ r \in Seq(Nat)
      /\ InOrder(r, Buffer(v1, v2), v1.outbox, v1.fired)
  BY PiTypes DEF PiInv, PiGood
<1>2. /\ v2[k].state = "open" /\ v2[k].buffer = <<>> /\ v3' = v3
      /\ v1.active = k /\ k # 0
      /\ v1' = done.e /\ v2' = done.ss
  <2>1. v2[k].state = "open" /\ v2[k].buffer = <<>> /\ v3' = v3
    BY DEF Pi!Drains
  <2>2. v1.active = k /\ k # 0
    BY <1>1, <2>1 DEF Linked
  <2> QED
    BY <2>1, <2>2 DEF Pi!Drains
<1>3. /\ f \in ExtStates /\ f.active = k /\ f.pending = v1.pending
      /\ f.outbox = v1.outbox /\ f.fired = v1.fired
  BY <1>1, <1>2 DEF ExtStates
<1>4. /\ [v2[k] EXCEPT !.wants = FALSE] \in SocketStates
      /\ [v2[k] EXCEPT !.wants = FALSE].state = v2[k].state
      /\ [v2[k] EXCEPT !.wants = FALSE].buffer = <<>>
  BY <1>1, <1>2 DEF SocketStates
<1>5. emptied = [v2 EXCEPT ![k] = [v2[k] EXCEPT !.wants = FALSE]]
  OBVIOUS
<1>6. /\ emptied \in Seq(SocketStates) /\ Len(emptied) = Len(v2)
      /\ emptied[k].state = v2[k].state /\ emptied[k].buffer = <<>>
      /\ \A j \in 1 .. Len(v2) : j # k => emptied[j] = v2[j]
  BY <1>1, <1>4, <1>5, SocketChanges
<1> HIDE DEF emptied, f
<1>7. Linked(f, emptied)
  BY <1>1, <1>2, <1>3, <1>6, LinkedAfterWrite
<1>8. \A j \in 1 .. Len(emptied) : Len(emptied[j].buffer) <= HighWater + 1
  <2>1. ASSUME NEW j \in 1 .. Len(emptied)  PROVE Len(emptied[j].buffer) <= HighWater + 1
    <3>1. CASE j = k
      BY <1>6, <3>1, BackgroundAssumption
    <3>2. CASE j # k
      BY <1>1, <1>6, <3>2 DEF Bounded
    <3> QED
      BY <3>1, <3>2
  <2> QED
    BY <2>1
<1>9. InOrder(r, emptied[k].buffer, f.outbox, f.fired)
  BY <1>1, <1>2, <1>3, <1>6 DEF Buffer
<1>10. PiGood(done.e, done.ss, r, f.fired) /\ done.e.fired = f.fired
  <2>1. /\ k \in 1 .. Len(emptied) /\ Len(f.outbox) <= OutboxMax
        /\ Len(emptied[k].buffer) <= HighWater
        /\ f.paused \/ Len(emptied[k].buffer) < HighWater
    <3>1. Len(emptied[k].buffer) = 0
      BY <1>6
    <3> QED
      BY <1>1, <1>3, <1>6, <3>1, BackgroundAssumption DEF Bounded
  <2> QED
    BY <1>1, <1>3, <1>6, <1>7, <1>8, <1>9, <2>1, FlushGood
<1> QED
  BY <1>2, <1>3, <1>10 DEF PiInv

LEMMA PiInit == Pi!Init => PiInv
<1> SUFFICES ASSUME Pi!Init  PROVE PiInv
  OBVIOUS
<1>1. /\ v1 \in ExtStates /\ v1.active = 0 /\ v1.pending = 0 /\ v1.outbox = <<>> /\ v1.fired = 0
      /\ v2 = <<>> /\ v2 \in Seq(SocketStates) /\ Len(v2) = 0
      /\ v3.read = <<>>
  BY DEF Pi!Init, ExtStates
<1>2. v3 \in [up : BOOLEAN, file : BOOLEAN, read : Seq(Nat \X Nat)]
  BY DEF Pi!Init
<1>3. LinesOf(v3.read) = <<>>
  BY <1>1 DEF LinesOf
<1>4. Linked(v1, v2) /\ Bounded(v1, v2) /\ Buffer(v1, v2) = <<>>
  BY <1>1, BackgroundAssumption DEF Linked, Bounded, Buffer
<1>5. InOrder(<<>>, <<>>, <<>>, 0)
  BY DEF InOrder, Rising, Before, UpTo
<1> QED
  BY <1>1, <1>2, <1>3, <1>4, <1>5 DEF PiInv, PiGood

\* PiStep: every step of the extension, its sockets and the daemon.
LEMMA PiStep ==
  ASSUME PiInv, Pi!Next
  PROVE  PiInv'
<1>1. DOMAIN v2 = 1 .. Len(v2)
  BY PiTypes
<1>2. CASE Pi!EventFires \/ Pi!UiBinds \/ Pi!SelectOpens \/ Pi!SelectSettles \/ Pi!BackoffEnds
  BY <1>2, EventsInv
<1>3. CASE Pi!Dies \/ Pi!Starts
  BY <1>3, DaemonStepInv
<1>4. ASSUME NEW k \in DOMAIN v2,
             Pi!Connects(k) \/ Pi!Drains(k) \/ Pi!Closes(k) \/ Pi!Reads(k) \/ Pi!ClosesConnection(k)
      PROVE  PiInv'
  BY <1>1, <1>4, ConnectsInv, DrainsInv, ClosesInv, ReadsInv, ClosesConnectionInv
<1> QED
  BY <1>2, <1>3, <1>4 DEF Pi!Next

\* PiInvMeans: what the invariant says of the events that atmd has read, and of
\* those it has not.
LEMMA PiInvMeans == PiInv => Pi!ReadInOrder /\ Pi!HeapBounded
<1> SUFFICES ASSUME PiInv  PROVE Pi!ReadInOrder /\ Pi!HeapBounded
  OBVIOUS
<1>1. Rising(LinesOf(v3.read)) /\ Bounded(v1, v2) /\ DOMAIN v2 = 1 .. Len(v2)
  BY PiTypes DEF PiInv, PiGood, InOrder
<1>2. DOMAIN LinesOf(v3.read) = DOMAIN v3.read /\ \A i \in DOMAIN v3.read : LinesOf(v3.read)[i] = v3.read[i][2]
  BY DEF LinesOf
<1>3. Pi!ReadInOrder
  BY <1>1, <1>2 DEF Pi!ReadInOrder, Rising
<1>4. Pi!HeapBounded
  BY <1>1 DEF Pi!HeapBounded, Bounded
<1> QED
  BY <1>3, <1>4

-----------------------------------------------------------------------------
(* The sidebar.  Its variables are v1 (world) and v2 (job).  A trigger that  *)
(* finds a quiet window leaves one thing going on until all is quiet again:  *)
(* a hook that is due or a script that runs.                                 *)

Target == Resize!Smaller(Resize!SidebarWidth(v1.win), Resize!Room(v1.win))

RunStates == [at : {"none", "list", "reset", "count", "resize"}, hook : BOOLEAN, s : Nat, n : Nat]

NoneRuns == \A i \in Resize!Slots : v2.runs[i] = Resize!NoRun
OnlyRuns(i) == \A j \in Resize!Slots : j # i => v2.runs[j] = Resize!NoRun
Due(hook, plain) == v2.due.hook = hook /\ v2.due.plain = plain

\* Settling: either the sidebar has its width, or what is going on will still
\* resize it.
Settling ==
  \/ Due(0, 0) /\ NoneRuns /\ v1.bar = Target
  \/ Due(0, 1) /\ NoneRuns
  \/ Due(1, 0) /\ NoneRuns /\ (v1.bar = Target \/ v1.tries < MaxTries)
  \/ /\ Due(0, 0)
     /\ \E i \in Resize!Slots :
          /\ OnlyRuns(i)
          /\ v2.runs[i].s = Resize!SidebarWidth(v1.win)
          /\ \/ /\ v2.runs[i].at = "list"
                /\ v1.bar = Target \/ ~ v2.runs[i].hook \/ v1.tries < MaxTries
             \/ v2.runs[i].at = "reset" /\ v1.bar = Target
             \/ v2.runs[i].at \in {"count", "resize"}

ResizeInv ==
  /\ v1 \in [win : Resize!WindowWidths, bar : Int, tries : Nat]
  /\ v1.bar <= Resize!Room(v1.win)
  /\ v2 \in [runs : [Resize!Slots -> RunStates], due : [hook : Nat, plain : Nat],
             resizes : Nat, calm : BOOLEAN]
  /\ v2.calm => Settling

LEMMA ResizeArithmetic ==
  ASSUME NEW a \in Int, NEW b \in Int
  PROVE  Resize!Smaller(a, b) \in Int /\ Resize!Smaller(a, b) <= b
  BY DEF Resize!Smaller

LEMMA WindowArithmetic ==
  ASSUME NEW win \in Resize!WindowWidths
  PROVE  /\ win \in Nat \ {0}
         /\ Resize!SidebarWidth(win) \in Nat
         /\ Resize!Room(win) \in Int
         /\ (win * 30) \div 100 \in Int /\ (win * 30) \div 100 <= Resize!Room(win)
         /\ \A bar \in Int, w \in Resize!WindowWidths : (bar * w) \div win + 1 \in Int
<1>1. CASE win = 15
  BY <1>1 DEF Resize!WindowWidths, Resize!SidebarWidth, Resize!Room, Resize!Smaller,
              Resize!Pct, Resize!Narrow, Resize!Wide
<1>2. CASE win = 200
  BY <1>2 DEF Resize!WindowWidths, Resize!SidebarWidth, Resize!Room, Resize!Smaller,
              Resize!Pct, Resize!Narrow, Resize!Wide
<1>3. CASE win = 300
  BY <1>3 DEF Resize!WindowWidths, Resize!SidebarWidth, Resize!Room, Resize!Smaller,
              Resize!Pct, Resize!Narrow, Resize!Wide
<1> QED
  BY <1>1, <1>2, <1>3 DEF Resize!WindowWidths

LEMMA ResizeInit == Resize!Init => ResizeInv
<1> SUFFICES ASSUME Resize!Init  PROVE ResizeInv
  OBVIOUS
<1>1. PICK win \in Resize!WindowWidths :
        v1 = [win |-> win, bar |-> Resize!Smaller(Resize!SidebarWidth(win), Resize!Room(win)), tries |-> 0]
  BY DEF Resize!Init
<1>2. Resize!Smaller(Resize!SidebarWidth(win), Resize!Room(win)) \in Int
      /\ Resize!Smaller(Resize!SidebarWidth(win), Resize!Room(win)) <= Resize!Room(win)
  BY WindowArithmetic, ResizeArithmetic
<1>3. /\ v1 \in [win : Resize!WindowWidths, bar : Int, tries : Nat]
      /\ v1.bar <= Resize!Room(v1.win) /\ v1.bar = Target
  BY <1>1, <1>2 DEF Target
<1>4. v2 = [runs |-> [i \in Resize!Slots |-> Resize!NoRun], due |-> [hook |-> 0, plain |-> 0],
            resizes |-> 0, calm |-> TRUE]
  BY DEF Resize!Init
<1>5. Resize!NoRun \in RunStates
  BY DEF Resize!NoRun, RunStates
<1>6. /\ v2 \in [runs : [Resize!Slots -> RunStates], due : [hook : Nat, plain : Nat],
                 resizes : Nat, calm : BOOLEAN]
  BY <1>4, <1>5
<1>7. Due(0, 0) /\ NoneRuns
  BY <1>4 DEF Due, NoneRuns
<1> QED
  BY <1>3, <1>6, <1>7 DEF ResizeInv, Settling

\* TriggerInv: what resizes from outside makes one hook due.
LEMMA TriggerInv ==
  ASSUME ResizeInv, NEW kind \in {"hook", "plain"}, Resize!Trigger(kind),
         v1' \in [win : Resize!WindowWidths, bar : Int, tries : Nat],
         v1'.bar <= Resize!Room(v1'.win), v1'.tries = v1.tries
  PROVE  ResizeInv'
<1> DEFINE calm == Resize!Quiet /\ (kind = "plain" \/ v1.tries < MaxTries)
           due == [v2.due EXCEPT ![kind] = @ + 1]
<1>1. /\ v2.runs \in [Resize!Slots -> RunStates] /\ v2.due \in [hook : Nat, plain : Nat]
      /\ v2.resizes \in Nat /\ v2 = [runs |-> v2.runs, due |-> v2.due, resizes |-> v2.resizes, calm |-> v2.calm]
  BY DEF ResizeInv
<1>2. calm \in BOOLEAN
  OBVIOUS
<1>3. v2' = [[v2 EXCEPT !.due[kind] = @ + 1] EXCEPT !.resizes = @ + 1, !.calm = calm]
  BY DEF Resize!Trigger, Resize!Fires
<1> HIDE DEF calm
<1>4. /\ v2'.runs = v2.runs /\ v2'.due = due /\ v2'.resizes = v2.resizes + 1 /\ v2'.calm = calm
      /\ v2' = [runs |-> v2'.runs, due |-> v2'.due, resizes |-> v2'.resizes, calm |-> v2'.calm]
  BY <1>1, <1>3
<1>5. /\ due \in [hook : Nat, plain : Nat]
      /\ due.hook = IF kind = "hook" THEN v2.due.hook + 1 ELSE v2.due.hook
      /\ due.plain = IF kind = "plain" THEN v2.due.plain + 1 ELSE v2.due.plain
  BY <1>1
<1> HIDE DEF due
<1>6. v2' \in [runs : [Resize!Slots -> RunStates], due : [hook : Nat, plain : Nat],
               resizes : Nat, calm : BOOLEAN]
  BY <1>1, <1>2, <1>4, <1>5
<1>7. ASSUME calm  PROVE Settling'
  <2>1. /\ v2.due.hook = 0 /\ v2.due.plain = 0
        /\ \A i \in Resize!Slots : v2.runs[i] = Resize!NoRun
        /\ kind = "plain" \/ v1.tries < MaxTries
    BY <1>7 DEF calm, Resize!Quiet
  <2>2. NoneRuns'
    BY <1>4, <2>1 DEF NoneRuns
  <2>3. CASE kind = "plain"
    <3>1. Due(0, 1)'
      BY <1>4, <1>5, <2>1, <2>3 DEF Due
    <3> QED
      BY <2>2, <3>1 DEF Settling
  <2>4. CASE kind = "hook"
    <3>1. Due(1, 0)'
      BY <1>4, <1>5, <2>1, <2>4 DEF Due
    <3>2. v1'.tries < MaxTries
      BY <2>1, <2>4
    <3> QED
      BY <2>2, <3>1, <3>2 DEF Settling
  <2> QED
    BY <2>3, <2>4
<1> QED
  BY <1>4, <1>6, <1>7 DEF ResizeInv

\* OutsideInv: the triggers.
LEMMA OutsideInv ==
  ASSUME ResizeInv, Resize!ResizeWindow \/ Resize!ResizePane \/ Resize!PressR
  PROVE  ResizeInv'
<1>1. /\ v1.win \in Resize!WindowWidths /\ v1.bar \in Int /\ v1.tries \in Nat
      /\ v1.bar <= Resize!Room(v1.win)
      /\ v1 = [win |-> v1.win, bar |-> v1.bar, tries |-> v1.tries]
  BY DEF ResizeInv
<1>2. CASE Resize!ResizeWindow
  <2>1. PICK win \in Resize!WindowWidths :
          v1' = [v1 EXCEPT !.win = win,
                           !.bar = Resize!Smaller((@ * win) \div v1.win + 1, Resize!Room(win))]
    BY <1>2 DEF Resize!ResizeWindow
  <2> DEFINE bar == Resize!Smaller((v1.bar * win) \div v1.win + 1, Resize!Room(win))
  <2>2. bar \in Int /\ bar <= Resize!Room(win)
    BY <1>1, WindowArithmetic, ResizeArithmetic
  <2>3. v1' = [v1 EXCEPT !.win = win, !.bar = bar]
    BY <2>1
  <2> HIDE DEF bar
  <2>4. /\ v1' \in [win : Resize!WindowWidths, bar : Int, tries : Nat]
        /\ v1'.bar <= Resize!Room(v1'.win) /\ v1'.tries = v1.tries
    BY <1>1, <2>2, <2>3
  <2> QED
    BY <1>2, <2>4, TriggerInv DEF Resize!ResizeWindow
<1>3. CASE Resize!ResizePane
  <2>1. /\ v1' = [v1 EXCEPT !.bar = (v1.win * 30) \div 100]
        /\ (v1.win * 30) \div 100 \in Int /\ (v1.win * 30) \div 100 <= Resize!Room(v1.win)
    BY <1>1, <1>3, WindowArithmetic DEF Resize!ResizePane
  <2>2. /\ v1' \in [win : Resize!WindowWidths, bar : Int, tries : Nat]
        /\ v1'.bar <= Resize!Room(v1'.win) /\ v1'.tries = v1.tries
    BY <1>1, <2>1
  <2> QED
    BY <1>3, <2>2, TriggerInv DEF Resize!ResizePane
<1>4. CASE Resize!PressR
  <2>1. v1' = v1 /\ Resize!Trigger("plain")
    BY <1>4 DEF Resize!PressR
  <2>2. /\ v1' \in [win : Resize!WindowWidths, bar : Int, tries : Nat]
        /\ v1'.bar <= Resize!Room(v1'.win) /\ v1'.tries = v1.tries
    BY <1>1, <2>1
  <2> QED
    BY <2>1, <2>2, TriggerInv
<1> QED
  BY <1>2, <1>3, <1>4

\* RunningAlone: a script that runs since a trigger in quiet is all that goes on.
LEMMA RunningAlone ==
  ASSUME ResizeInv, v2.calm, NEW i \in Resize!Slots, v2.runs[i].at # "none"
  PROVE  /\ Due(0, 0) /\ OnlyRuns(i)
         /\ v2.runs[i].s = Resize!SidebarWidth(v1.win)
         /\ v2.runs[i].at = "list" =>
              v1.bar = Target \/ ~ v2.runs[i].hook \/ v1.tries < MaxTries
         /\ v2.runs[i].at = "reset" => v1.bar = Target
<1>1. Settling
  BY DEF ResizeInv
<1>2. Resize!NoRun.at = "none"
  BY DEF Resize!NoRun
<1>3. ~ NoneRuns
  BY <1>2 DEF NoneRuns
<1>4. PICK k \in Resize!Slots :
        /\ Due(0, 0) /\ OnlyRuns(k)
        /\ v2.runs[k].s = Resize!SidebarWidth(v1.win)
        /\ \/ /\ v2.runs[k].at = "list"
              /\ v1.bar = Target \/ ~ v2.runs[k].hook \/ v1.tries < MaxTries
           \/ v2.runs[k].at = "reset" /\ v1.bar = Target
           \/ v2.runs[k].at \in {"count", "resize"}
  BY <1>1, <1>3 DEF Settling
<1>5. i = k
  BY <1>2, <1>4 DEF OnlyRuns
<1> QED
  BY <1>4, <1>5

\* The fields of a job whose run i is now x.
LEMMA RunChanges ==
  ASSUME ResizeInv, NEW i \in Resize!Slots, NEW x \in RunStates,
         v2' = [v2 EXCEPT !.runs[i] = x]
  PROVE  /\ v2'.runs = [v2.runs EXCEPT ![i] = x] /\ v2'.due = v2.due /\ v2'.calm = v2.calm
         /\ v2' \in [runs : [Resize!Slots -> RunStates], due : [hook : Nat, plain : Nat],
                     resizes : Nat, calm : BOOLEAN]
         /\ v2'.runs[i] = x
         /\ \A j \in Resize!Slots : j # i => v2'.runs[j] = v2.runs[j]
<1>1. v2 \in [runs : [Resize!Slots -> RunStates], due : [hook : Nat, plain : Nat],
              resizes : Nat, calm : BOOLEAN]
  BY DEF ResizeInv
<1>2. [v2.runs EXCEPT ![i] = x] \in [Resize!Slots -> RunStates]
  BY <1>1
<1>3. v2' = [v2 EXCEPT !.runs = [v2.runs EXCEPT ![i] = x]]
  BY <1>1
<1> QED
  BY <1>1, <1>2, <1>3

LEMMA BeginInv ==
  ASSUME ResizeInv, Resize!Begin
  PROVE  ResizeInv'
<1>1. PICK i \in Resize!Slots, kind \in {"hook", "plain"} :
        /\ v2.due[kind] > 0 /\ v2.runs[i] = Resize!NoRun
        /\ v2' = [v2 EXCEPT !.due[kind] = @ - 1,
                            !.runs[i] = [at |-> "list", hook |-> kind = "hook",
                                         s |-> Resize!SidebarWidth(v1.win), n |-> 0]]
        /\ v1' = v1
  BY DEF Resize!Begin
<1> DEFINE x == [at |-> "list", hook |-> kind = "hook", s |-> Resize!SidebarWidth(v1.win), n |-> 0]
           due == [v2.due EXCEPT ![kind] = @ - 1]
<1>2. /\ v2 \in [runs : [Resize!Slots -> RunStates], due : [hook : Nat, plain : Nat],
                 resizes : Nat, calm : BOOLEAN]
      /\ v1.win \in Resize!WindowWidths
  BY DEF ResizeInv
<1>3. (kind = "hook") \in BOOLEAN /\ Resize!SidebarWidth(v1.win) \in Nat
  BY <1>2, WindowArithmetic
<1>4. /\ x \in RunStates /\ x.at = "list" /\ x.s = Resize!SidebarWidth(v1.win)
      /\ x.hook = (kind = "hook")
  BY <1>3 DEF RunStates
<1> HIDE DEF x
<1>5. /\ due \in [hook : Nat, plain : Nat]
      /\ due.hook = IF kind = "hook" THEN v2.due.hook - 1 ELSE v2.due.hook
      /\ due.plain = IF kind = "plain" THEN v2.due.plain - 1 ELSE v2.due.plain
  BY <1>1, <1>2
<1>6. v2' = [[v2 EXCEPT !.due = due] EXCEPT !.runs = [v2.runs EXCEPT ![i] = x]]
  BY <1>1, <1>2 DEF x
<1> HIDE DEF due
<1>7. [v2.runs EXCEPT ![i] = x] \in [Resize!Slots -> RunStates]
  BY <1>2, <1>4
<1>8. /\ v2' \in [runs : [Resize!Slots -> RunStates], due : [hook : Nat, plain : Nat],
                  resizes : Nat, calm : BOOLEAN]
      /\ v2'.due = due /\ v2'.calm = v2.calm
      /\ v2'.runs = [v2.runs EXCEPT ![i] = x]
  BY <1>2, <1>5, <1>6, <1>7
<1>9. v2'.runs[i] = x /\ \A j \in Resize!Slots : j # i => v2'.runs[j] = v2.runs[j]
  BY <1>2, <1>8
<1>10. ASSUME v2.calm  PROVE Settling'
  <2>1. Settling
    BY <1>10 DEF ResizeInv
  <2>2. /\ NoneRuns
        /\ \/ Due(0, 1) /\ kind = "plain"
           \/ Due(1, 0) /\ kind = "hook" /\ (v1.bar = Target \/ v1.tries < MaxTries)
    <3>1. ~ Due(0, 0)
      BY <1>1, <1>2 DEF Due
    <3>2. Due(0, 1) => kind = "plain"
      BY <1>1 DEF Due
    <3>3. Due(1, 0) => kind = "hook"
      BY <1>1 DEF Due
    <3> QED
      BY <2>1, <3>1, <3>2, <3>3 DEF Settling
  <2>3. OnlyRuns(i)'
    BY <1>9, <2>2 DEF NoneRuns, OnlyRuns
  <2>4. Due(0, 0)'
    BY <1>1, <1>5, <1>8, <2>2 DEF Due
  <2>5. (v1.bar = Target \/ ~ v2.runs[i].hook \/ v1.tries < MaxTries)'
    <3>1. CASE kind = "plain"
      BY <1>4, <1>9, <3>1
    <3>2. CASE kind = "hook"
      BY <1>1, <2>2, <3>2 DEF Target
    <3> QED
      BY <3>1, <3>2
  <2>6. (v2.runs[i].at = "list" /\ v2.runs[i].s = Resize!SidebarWidth(v1.win))'
    BY <1>1, <1>4, <1>9
  <2> QED
    BY <2>3, <2>4, <2>5, <2>6 DEF Settling
<1> QED
  BY <1>1, <1>8, <1>10 DEF ResizeInv, Target

\* AtTarget: a sidebar of the width the script wants has the width it gets.
LEMMA AtTarget ==
  ASSUME ResizeInv, v1.bar = Resize!SidebarWidth(v1.win)
  PROVE  v1.bar = Target
<1>1. /\ v1.bar \in Int /\ v1.bar <= Resize!Room(v1.win) /\ Resize!Room(v1.win) \in Int
  BY WindowArithmetic DEF ResizeInv
<1> QED
  BY <1>1 DEF Target, Resize!Smaller

LEMMA ListInv ==
  ASSUME ResizeInv, NEW i \in Resize!Slots, Resize!List(i)
  PROVE  ResizeInv'
<1> DEFINE run == v2.runs[i]
<1>1. /\ v2 \in [runs : [Resize!Slots -> RunStates], due : [hook : Nat, plain : Nat],
                 resizes : Nat, calm : BOOLEAN]
      /\ run \in RunStates /\ v1.tries \in Nat
  BY DEF ResizeInv
<1>2. run.at = "list" /\ v1' = v1
  BY DEF Resize!List
<1>3. PICK x \in RunStates :
        /\ v2' = [v2 EXCEPT !.runs[i] = x]
        /\ \/ x = Resize!NoRun /\ (v1.bar = run.s \/ (run.hook /\ v1.tries >= MaxTries))
           \/ x.at = "reset" /\ x.s = run.s /\ v1.bar = run.s
           \/ x.at \in {"count", "resize"} /\ x.s = run.s
  <2>1. CASE Resize!Exits(i) /\ (v1.bar = run.s \/ (run.hook /\ v1.tries >= MaxTries))
    <3>1. Resize!NoRun \in RunStates
      BY DEF Resize!NoRun, RunStates
    <3> QED
      BY <2>1, <3>1 DEF Resize!Exits
  <2>2. ASSUME NEW at \in {"reset", "resize"}, Resize!Goes(i, at), at = "reset" => v1.bar = run.s
        PROVE  \E x \in RunStates :
                 /\ v2' = [v2 EXCEPT !.runs[i] = x]
                 /\ \/ x.at = "reset" /\ x.s = run.s /\ v1.bar = run.s
                    \/ x.at \in {"count", "resize"} /\ x.s = run.s
    <3> DEFINE x == [run EXCEPT !.at = at]
    <3>1. x \in RunStates /\ x.at = at /\ x.s = run.s
      BY <1>1 DEF RunStates
    <3>2. v2' = [v2 EXCEPT !.runs[i] = x]
      BY <1>1, <2>2 DEF Resize!Goes
    <3> HIDE DEF x
    <3> QED
      BY <2>2, <3>1, <3>2
  <2>3. CASE v2' = [v2 EXCEPT !.runs[i].at = "count", !.runs[i].n = v1.tries]
    <3> DEFINE x == [run EXCEPT !.at = "count", !.n = v1.tries]
    <3>1. x \in RunStates /\ x.at = "count" /\ x.s = run.s
      BY <1>1 DEF RunStates
    <3>2. v2' = [v2 EXCEPT !.runs[i] = x]
      BY <1>1, <2>3
    <3> HIDE DEF x
    <3> QED
      BY <3>1, <3>2
  <2> QED
    BY <2>1, <2>2, <2>3 DEF Resize!List
<1>4. /\ v2'.due = v2.due /\ v2'.calm = v2.calm /\ v2'.runs[i] = x
      /\ v2' \in [runs : [Resize!Slots -> RunStates], due : [hook : Nat, plain : Nat],
                  resizes : Nat, calm : BOOLEAN]
      /\ \A j \in Resize!Slots : j # i => v2'.runs[j] = v2.runs[j]
  BY <1>3, RunChanges
<1>5. ASSUME v2.calm  PROVE Settling'
  <2>1. /\ Due(0, 0) /\ OnlyRuns(i) /\ run.s = Resize!SidebarWidth(v1.win)
        /\ v1.bar = Target \/ ~ run.hook \/ v1.tries < MaxTries
    BY <1>2, <1>5, RunningAlone
  <2>2. Due(0, 0)' /\ OnlyRuns(i)'
    BY <1>4, <2>1 DEF Due, OnlyRuns
  <2>3. v1.bar = run.s => v1.bar = Target
    BY <2>1, AtTarget
  <2>4. Target' = Target /\ Resize!SidebarWidth(v1.win)' = Resize!SidebarWidth(v1.win)
    BY <1>2 DEF Target
  <2>5. CASE x = Resize!NoRun /\ (v1.bar = run.s \/ (run.hook /\ v1.tries >= MaxTries))
    <3>1. v1.tries >= MaxTries => ~ (v1.tries < MaxTries)
      BY <1>1, BackgroundAssumption
    <3>2. v1'.bar = Target'
      BY <1>2, <2>1, <2>3, <2>4, <2>5, <3>1
    <3>3. NoneRuns'
      BY <1>4, <2>2, <2>5 DEF OnlyRuns, NoneRuns
    <3> QED
      BY <2>2, <3>2, <3>3 DEF Settling
  <2>6. CASE x.at = "reset" /\ x.s = run.s /\ v1.bar = run.s
    BY <1>2, <1>4, <2>1, <2>2, <2>3, <2>4, <2>6 DEF Settling
  <2>7. CASE x.at \in {"count", "resize"} /\ x.s = run.s
    BY <1>4, <2>1, <2>2, <2>4, <2>7 DEF Settling
  <2> QED
    BY <1>3, <2>5, <2>6, <2>7
<1> QED
  BY <1>2, <1>4, <1>5 DEF ResizeInv

LEMMA ResetInv ==
  ASSUME ResizeInv, NEW i \in Resize!Slots, Resize!Reset(i)
  PROVE  ResizeInv'
<1>1. /\ v2.runs[i].at = "reset" /\ v1' = [v1 EXCEPT !.tries = 0]
      /\ v2' = [v2 EXCEPT !.runs[i] = Resize!NoRun] /\ Resize!NoRun \in RunStates
  BY DEF Resize!Reset, Resize!Exits, Resize!NoRun, RunStates
<1>2. /\ v1' \in [win : Resize!WindowWidths, bar : Int, tries : Nat]
      /\ v1'.bar = v1.bar /\ v1'.win = v1.win
  BY <1>1 DEF ResizeInv
<1>3. /\ v2'.due = v2.due /\ v2'.calm = v2.calm /\ v2'.runs[i] = Resize!NoRun
      /\ v2' \in [runs : [Resize!Slots -> RunStates], due : [hook : Nat, plain : Nat],
                  resizes : Nat, calm : BOOLEAN]
      /\ \A j \in Resize!Slots : j # i => v2'.runs[j] = v2.runs[j]
  BY <1>1, RunChanges
<1>4. ASSUME v2.calm  PROVE Settling'
  <2>1. Due(0, 0) /\ OnlyRuns(i) /\ v1.bar = Target
    BY <1>1, <1>4, RunningAlone
  <2>2. Due(0, 0)' /\ NoneRuns'
    BY <1>3, <2>1 DEF Due, OnlyRuns, NoneRuns
  <2>3. v1'.bar = Target'
    BY <1>2, <2>1 DEF Target
  <2> QED
    BY <2>2, <2>3 DEF Settling
<1> QED
  BY <1>2, <1>3, <1>4 DEF ResizeInv

LEMMA CountInv ==
  ASSUME ResizeInv, NEW i \in Resize!Slots, Resize!Count(i)
  PROVE  ResizeInv'
<1> DEFINE x == [v2.runs[i] EXCEPT !.at = "resize"]
<1>1. v2.runs[i] \in RunStates /\ v2.runs[i].n \in Nat
  BY DEF ResizeInv, RunStates
<1>2. x \in RunStates /\ x.at = "resize" /\ x.s = v2.runs[i].s
  BY <1>1 DEF RunStates
<1>3. /\ v2.runs[i].at = "count" /\ v1' = [v1 EXCEPT !.tries = v2.runs[i].n + 1]
      /\ v2' = [v2 EXCEPT !.runs[i] = x]
  BY DEF Resize!Count, Resize!Goes
<1> HIDE DEF x
<1>4. /\ v1' \in [win : Resize!WindowWidths, bar : Int, tries : Nat]
      /\ v1'.bar = v1.bar /\ v1'.win = v1.win
  BY <1>1, <1>3 DEF ResizeInv
<1>5. /\ v2'.due = v2.due /\ v2'.calm = v2.calm /\ v2'.runs[i] = x
      /\ v2' \in [runs : [Resize!Slots -> RunStates], due : [hook : Nat, plain : Nat],
                  resizes : Nat, calm : BOOLEAN]
      /\ \A j \in Resize!Slots : j # i => v2'.runs[j] = v2.runs[j]
  BY <1>2, <1>3, RunChanges
<1>6. ASSUME v2.calm  PROVE Settling'
  <2>1. Due(0, 0) /\ OnlyRuns(i) /\ v2.runs[i].s = Resize!SidebarWidth(v1.win)
    BY <1>3, <1>6, RunningAlone
  <2>2. Due(0, 0)' /\ OnlyRuns(i)'
    BY <1>5, <2>1 DEF Due, OnlyRuns
  <2>3. v2'.runs[i].s = Resize!SidebarWidth(v1.win)' /\ v2'.runs[i].at = "resize"
    BY <1>2, <1>4, <1>5, <2>1
  <2> QED
    BY <2>2, <2>3 DEF Settling
<1> QED
  BY <1>4, <1>5, <1>6 DEF ResizeInv

\* ResizeRunInv: the resize brings the sidebar to its width, and makes one hook due.
LEMMA ResizeRunInv ==
  ASSUME ResizeInv, NEW i \in Resize!Slots, Resize!Resize(i)
  PROVE  ResizeInv'
<1> DEFINE bar == Resize!Smaller(v2.runs[i].s, Resize!Room(v1.win))
           due == [v2.due EXCEPT !["hook"] = @ + 1]
<1>1. /\ v2 \in [runs : [Resize!Slots -> RunStates], due : [hook : Nat, plain : Nat],
                 resizes : Nat, calm : BOOLEAN]
      /\ v2.runs[i] \in RunStates /\ v2.runs[i].s \in Nat
      /\ v1.win \in Resize!WindowWidths
      /\ Resize!NoRun \in RunStates
  BY DEF ResizeInv, RunStates, Resize!NoRun
<1>2. v2.runs[i].at = "resize" /\ v1' = [v1 EXCEPT !.bar = bar]
  BY DEF Resize!Resize
<1>3. v2' = [[v2 EXCEPT !.due["hook"] = @ + 1] EXCEPT !.runs[i] = Resize!NoRun]
  BY DEF Resize!Resize, Resize!Fires
<1>4. bar \in Int /\ bar <= Resize!Room(v1.win)
  <2>1. v2.runs[i].s \in Int /\ Resize!Room(v1.win) \in Int
    BY <1>1, WindowArithmetic
  <2> QED
    BY <2>1, ResizeArithmetic
<1> HIDE DEF bar
<1>5. /\ v1' \in [win : Resize!WindowWidths, bar : Int, tries : Nat]
      /\ v1'.bar = bar /\ v1'.win = v1.win
  BY <1>2, <1>4 DEF ResizeInv
<1>6. due \in [hook : Nat, plain : Nat] /\ due.hook = v2.due.hook + 1 /\ due.plain = v2.due.plain
  BY <1>1
<1>7. v2' = [[v2 EXCEPT !.due = due] EXCEPT !.runs = [v2.runs EXCEPT ![i] = Resize!NoRun]]
  BY <1>1, <1>3
<1> HIDE DEF due
<1>8. [v2.runs EXCEPT ![i] = Resize!NoRun] \in [Resize!Slots -> RunStates]
  BY <1>1
<1>9. /\ v2' \in [runs : [Resize!Slots -> RunStates], due : [hook : Nat, plain : Nat],
                  resizes : Nat, calm : BOOLEAN]
      /\ v2'.due = due /\ v2'.calm = v2.calm
      /\ v2'.runs = [v2.runs EXCEPT ![i] = Resize!NoRun]
  BY <1>1, <1>6, <1>7, <1>8
<1>10. ASSUME v2.calm  PROVE Settling'
  <2>1. Due(0, 0) /\ OnlyRuns(i) /\ v2.runs[i].s = Resize!SidebarWidth(v1.win)
    BY <1>2, <1>10, RunningAlone
  <2>2. Due(1, 0)'
    BY <1>6, <1>9, <2>1 DEF Due
  <2>3. NoneRuns'
    BY <1>1, <1>9, <2>1 DEF OnlyRuns, NoneRuns
  <2>4. v1'.bar = Target'
    BY <1>5, <2>1 DEF bar, Target
  <2> QED
    BY <2>2, <2>3, <2>4 DEF Settling
<1> QED
  BY <1>4, <1>5, <1>9, <1>10 DEF ResizeInv

LEMMA ResizeStep ==
  ASSUME ResizeInv, Resize!Next
  PROVE  ResizeInv'
<1>1. CASE Resize!ResizeWindow \/ Resize!ResizePane \/ Resize!PressR
  BY <1>1, OutsideInv
<1>2. CASE Resize!Begin
  BY <1>2, BeginInv
<1>3. ASSUME NEW i \in Resize!Slots,
             Resize!List(i) \/ Resize!Reset(i) \/ Resize!Count(i) \/ Resize!Resize(i)
      PROVE  ResizeInv'
  BY <1>3, ListInv, ResetInv, CountInv, ResizeRunInv
<1> QED
  BY <1>1, <1>2, <1>3 DEF Resize!Next, Resize!ScriptSteps

LEMMA ResizeInvMeans == ResizeInv => Resize!SettlesAtWidth
<1> SUFFICES ASSUME ResizeInv, Resize!Quiet, v2.calm
             PROVE  v1.bar = Target
  BY DEF Resize!SettlesAtWidth, Target
<1>1. v2.due.hook = 0 /\ v2.due.plain = 0 /\ \A i \in Resize!Slots : v2.runs[i] = Resize!NoRun
  BY DEF Resize!Quiet
<1>2. Settling
  BY DEF ResizeInv
<1>3. Resize!NoRun.at = "none"
  BY DEF Resize!NoRun
<1>4. ~ Due(0, 1) /\ ~ Due(1, 0)
  BY <1>1 DEF Due
<1> QED
  BY <1>1, <1>2, <1>3, <1>4 DEF Settling

-----------------------------------------------------------------------------
(* The server.  Its own proofs, with v1 for its world and v2 for its job:    *)
(* each action there is the action here, by its definition.                  *)

Proved == INSTANCE ServerProofs WITH world <- v1, job <- v2

LEMMA SameServerInit ==
  ASSUME Server!Init
  PROVE  Proved!Init
  BY Zenon DEF Server!Init, Proved!Init, Server!Conns, Proved!Conns, Server!Tui, Proved!Tui,
               Server!Closed, Proved!Closed

LEMMA SameServerSteps ==
  ASSUME Server!Next
  PROVE  Proved!Next
<1>1. ASSUME NEW c, Server!Accept(c)  PROVE Proved!Accept(c)
  BY Zenon, <1>1 DEF Server!Accept, Proved!Accept, Server!Conn, Proved!Conn,
                     Server!SetConn, Proved!SetConn
<1>2. ASSUME NEW c, Server!HandleHandshake(c)  PROVE Proved!HandleHandshake(c)
  BY Zenon, <1>2 DEF Server!HandleHandshake, Proved!HandleHandshake, Server!Conn, Proved!Conn,
                     Server!Tui, Proved!Tui, Server!SetConn, Proved!SetConn,
                     Server!IsCompatibleWith, Proved!IsCompatibleWith
<1>3. ASSUME NEW c, Server!ReadsSubscribe(c)  PROVE Proved!ReadsSubscribe(c)
  BY Zenon, <1>3 DEF Server!ReadsSubscribe, Proved!ReadsSubscribe, Server!Reads, Proved!Reads,
                     Server!Conn, Proved!Conn, Server!Tui, Proved!Tui,
                     Server!SetConn, Proved!SetConn
<1>4. ASSUME NEW c, Server!Subscribe(c)  PROVE Proved!Subscribe(c)
  BY Zenon, <1>4 DEF Server!Subscribe, Proved!Subscribe, Server!Conn, Proved!Conn,
                     Server!Admitted, Proved!Admitted, Server!Cardinality, Proved!Cardinality,
                     Server!SubscriberKey, Proved!SubscriberKey, Server!SetAll, Proved!SetAll,
                     Server!SetConn, Proved!SetConn
<1>5. ASSUME NEW c, Server!SubscribeRuns(c)  PROVE Proved!SubscribeRuns(c)
  BY Zenon, <1>5 DEF Server!SubscribeRuns, Proved!SubscribeRuns, Server!Conn, Proved!Conn,
                     Server!SetConn, Proved!SetConn
<1>6. ASSUME NEW c, Server!Unsubscribe(c)  PROVE Proved!Unsubscribe(c)
  BY Zenon, <1>6 DEF Server!Unsubscribe, Proved!Unsubscribe, Server!Reads, Proved!Reads,
                     Server!Conn, Proved!Conn, Server!Tui, Proved!Tui,
                     Server!SetConn, Proved!SetConn
<1>7. ASSUME NEW c, Server!UnsubscribeRuns(c)  PROVE Proved!UnsubscribeRuns(c)
  BY Zenon, <1>7 DEF Server!UnsubscribeRuns, Proved!UnsubscribeRuns, Server!Conn, Proved!Conn,
                     Server!SetAll, Proved!SetAll, Server!SubscriberKey, Proved!SubscriberKey
<1>8. ASSUME NEW c, Server!ForwarderFails(c)  PROVE Proved!ForwarderFails(c)
  BY Zenon, <1>8 DEF Server!ForwarderFails, Proved!ForwarderFails, Server!Conn, Proved!Conn,
                     Server!SetConn, Proved!SetConn
<1>9. ASSUME NEW c, Server!HandlerEnds(c)  PROVE Proved!HandlerEnds(c)
  BY Zenon, <1>9 DEF Server!HandlerEnds, Proved!HandlerEnds, Server!Conn, Proved!Conn,
                     Server!Tui, Proved!Tui, Server!SetConn, Proved!SetConn
<1>10. ASSUME NEW c, Server!HandlerDrops(c)  PROVE Proved!HandlerDrops(c)
  BY Zenon, <1>10 DEF Server!HandlerDrops, Proved!HandlerDrops, Server!Conn, Proved!Conn,
                      Server!SetConn, Proved!SetConn
<1>11. ASSUME NEW c, Server!HandlerLeaves(c)  PROVE Proved!HandlerLeaves(c)
  BY Zenon, <1>11 DEF Server!HandlerLeaves, Proved!HandlerLeaves, Server!Conn, Proved!Conn,
                      Server!SetAll, Proved!SetAll, Server!SubscriberKey, Proved!SubscriberKey
<1>12. ASSUME NEW c, Server!OtherCloses(c)  PROVE Proved!OtherCloses(c)
  BY Zenon, <1>12 DEF Server!OtherCloses, Proved!OtherCloses, Server!Tui, Proved!Tui,
                      Server!Conn, Proved!Conn, Server!SetConn, Proved!SetConn
<1>13. ASSUME Server!OtherConnects  PROVE Proved!OtherConnects
  BY Zenon, <1>13 DEF Server!OtherConnects, Proved!OtherConnects,
                      Server!Connects, Proved!Connects, Server!Conn, Proved!Conn,
                      Server!SetConn, Proved!SetConn, Server!Closed, Proved!Closed
<1>14. ASSUME Server!AcceptFails  PROVE Proved!AcceptFails
  BY Zenon, <1>14 DEF Server!AcceptFails, Proved!AcceptFails, Server!Conns, Proved!Conns,
                      Server!Tui, Proved!Tui, Server!Conn, Proved!Conn
<1>15. ASSUME Server!AcceptResumes  PROVE Proved!AcceptResumes
  BY Zenon, <1>15 DEF Server!AcceptResumes, Proved!AcceptResumes
<1>16. ASSUME Server!Stop  PROVE Proved!Stop
  BY Zenon, <1>16 DEF Server!Stop, Proved!Stop, Server!Conns, Proved!Conns, Server!Tui, Proved!Tui,
                      Server!Cancelled, Proved!Cancelled
<1>17. ASSUME Server!Cleanup  PROVE Proved!Cleanup
  BY Zenon, <1>17 DEF Server!Cleanup, Proved!Cleanup
<1>18. ASSUME Server!DrainConnections  PROVE Proved!DrainConnections
  BY Zenon, <1>18 DEF Server!DrainConnections, Proved!DrainConnections,
                      Server!Conns, Proved!Conns, Server!Tui, Proved!Tui, Server!Conn, Proved!Conn,
                      Server!Aborted, Proved!Aborted, Server!Closed, Proved!Closed
<1>19. ASSUME Server!Restart  PROVE Proved!Restart
  BY Zenon, <1>19 DEF Server!Restart, Proved!Restart, Server!Conns, Proved!Conns,
                      Server!Tui, Proved!Tui, Server!Closed, Proved!Closed
<1>20. ASSUME Server!TuiConnects  PROVE Proved!TuiConnects
  BY Zenon, <1>20 DEF Server!TuiConnects, Proved!TuiConnects, Server!Connects, Proved!Connects,
                      Server!Conn, Proved!Conn, Server!SetConn, Proved!SetConn,
                      Server!Closed, Proved!Closed, Server!Tui, Proved!Tui
<1>21. ASSUME Server!TuiRefused  PROVE Proved!TuiRefused
  BY Zenon, <1>21 DEF Server!TuiRefused, Proved!TuiRefused, Server!Conn, Proved!Conn,
                      Server!Tui, Proved!Tui, Server!SetConn, Proved!SetConn
<1>22. ASSUME Server!TuiDisconnected  PROVE Proved!TuiDisconnected
  BY Zenon, <1>22 DEF Server!TuiDisconnected, Proved!TuiDisconnected, Server!Conn, Proved!Conn,
                      Server!Tui, Proved!Tui, Server!AfterEnd, Proved!AfterEnd,
                      Server!Grown, Proved!Grown
<1>23. Server!Conns = Proved!Conns
  BY DEF Server!Conns, Proved!Conns, Server!Tui, Proved!Tui
<1> QED
  BY Zenon, <1>1, <1>2, <1>3, <1>4, <1>5, <1>6, <1>7, <1>8, <1>9, <1>10, <1>11, <1>12, <1>13, <1>14, <1>15, <1>16, <1>17, <1>18, <1>19, <1>20, <1>21, <1>22, <1>23 DEF Server!Next, Proved!Next

\* The places that MCBackground shows are those of the server's part.
LEMMA SamePlaces ==
  ASSUME part = "server"
  PROVE  /\ (IF part = "server" THEN v1.entries ELSE {}) = v1.entries
         /\ (IF part = "server" THEN Server!Served ELSE {}) = Proved!Served
         /\ Others \cup {"tui"} = Proved!Conns
<1>1. Server!Served = Proved!Served
  BY Zenon DEF Server!Served, Proved!Served, Server!Conn, Proved!Conn, Server!Conns, Proved!Conns,
               Server!Tui, Proved!Tui
<1>2. Others \cup {"tui"} = Proved!Conns
  BY DEF Proved!Conns, Proved!Tui
<1> QED
  BY <1>1, <1>2

LEMMA ServerInit ==
  ASSUME part = "server", Server!Init
  PROVE  Proved!Inv /\ Cap!Init
<1>1. Proved!Inv /\ Proved!Cap!Init
  BY SameServerInit, Proved!InitGood
<1> QED
  BY <1>1, SamePlaces DEF Proved!Cap!Init, Cap!Init

\* ServerStep: a step of the server is one of Places, or changes no place.
LEMMA ServerStep ==
  ASSUME part = "server", part' = "server", Proved!Inv, Server!Next
  PROVE  Proved!Inv' /\ [Cap!Next]_(Cap!vars)
<1>1. Proved!Inv' /\ [Proved!Cap!Next]_(Proved!Cap!vars)
  BY SameServerSteps, Proved!NextGood DEF Proved!Good
<1> DEFINE holders == IF part = "server" THEN v1.entries ELSE {}
           served == IF part = "server" THEN Server!Served ELSE {}
<1>2. /\ holders = v1.entries /\ holders' = v1'.entries
      /\ served = Proved!Served /\ served' = Proved!Served'
      /\ Others \cup {"tui"} = Proved!Conns
  <2>1. holders = v1.entries /\ served = Proved!Served /\ Others \cup {"tui"} = Proved!Conns
    BY SamePlaces
  <2>2. Server!Served' = Proved!Served'
    BY Zenon DEF Server!Served, Proved!Served, Server!Conn, Proved!Conn, Server!Conns, Proved!Conns,
                 Server!Tui, Proved!Tui
  <2> QED
    BY <2>1, <2>2
<1>3. \A S : Proved!Cap!Cardinality(S) = Cap!Cardinality(S)
  BY DEF Proved!Cap!Cardinality, Cap!Cardinality
<1>4. CASE UNCHANGED Proved!Cap!vars
  <2>1. holders' = holders /\ served' = served
    BY <1>2, <1>4 DEF Proved!Cap!vars
  <2> QED
    BY <1>1, <2>1 DEF Cap!vars
<1>5. CASE Proved!Cap!Next
  BY <1>1, <1>2, <1>3, <1>5
  DEF Cap!Next, Cap!Enter, Cap!Serve, Cap!Leave, Cap!Rest,
      Proved!Cap!Next, Proved!Cap!Enter, Proved!Cap!Serve, Proved!Cap!Leave, Proved!Cap!Rest
<1> QED
  BY <1>1, <1>4, <1>5

-----------------------------------------------------------------------------
(* The parts together *)

BackgroundInv ==
  /\ part = "git" => GitInv
  /\ part = "server" => Proved!Inv
  /\ part = "pi" => PiInv
  /\ part = "resize" => ResizeInv

LEMMA BackgroundInit == Init => BackgroundInv /\ Cap!Init
<1>1. part # "server" => Cap!Init
  BY DEF Cap!Init
<1>2. part = "git" /\ Git!Init => BackgroundInv /\ Cap!Init
  BY <1>1, GitInit DEF BackgroundInv
<1>3. part = "pi" /\ Pi!Init => BackgroundInv /\ Cap!Init
  BY <1>1, PiInit DEF BackgroundInv
<1>4. part = "server" /\ Server!Init => BackgroundInv /\ Cap!Init
  BY ServerInit DEF BackgroundInv
<1>5. part = "resize" /\ Resize!Init => BackgroundInv /\ Cap!Init
  BY <1>1, ResizeInit DEF BackgroundInv
<1> QED
  BY <1>2, <1>3, <1>4, <1>5 DEF Init

\* BackgroundStep: a step keeps the parts' invariants; it gives no session
\* another directory's context, and is one that Places allows.
LEMMA BackgroundStep ==
  ASSUME BackgroundInv, [Next]_vars
  PROVE  /\ BackgroundInv'
         /\ UNCHANGED vars \/ (part = "git" => Git!ChangesAreOwn)
         /\ [Cap!Next]_(Cap!vars)
<1>1. ASSUME part # "server", part' # "server"  PROVE [Cap!Next]_(Cap!vars)
  BY <1>1 DEF Cap!vars
<1>2. CASE Of("git") /\ Git!Next
  <2>1. part = "git" /\ part' = "git" /\ GitInv /\ Git!Next
    BY <1>2 DEF Of, BackgroundInv
  <2>2. GitInv' /\ Git!ChangesAreOwn
    BY <2>1, GitStep
  <2> QED
    BY <1>1, <2>1, <2>2 DEF BackgroundInv
<1>3. CASE Of2("server") /\ Server!Next
  <2>1. part = "server" /\ part' = "server" /\ Proved!Inv /\ Server!Next
    BY <1>3 DEF Of, Of2, Of3, BackgroundInv
  <2>2. Proved!Inv' /\ [Cap!Next]_(Cap!vars)
    BY <2>1, ServerStep
  <2> QED
    BY <2>1, <2>2 DEF BackgroundInv
<1>4. CASE Of3("pi") /\ Pi!Next
  <2>1. part = "pi" /\ part' = "pi" /\ PiInv /\ Pi!Next
    BY <1>4 DEF Of, Of3, BackgroundInv
  <2>2. PiInv'
    BY <2>1, PiStep
  <2> QED
    BY <1>1, <2>1, <2>2 DEF BackgroundInv
<1>5. CASE Of2("resize") /\ Resize!Next
  <2>1. part = "resize" /\ part' = "resize" /\ ResizeInv /\ Resize!Next
    BY <1>5 DEF Of, Of2, Of3, BackgroundInv
  <2>2. ResizeInv'
    BY <2>1, ResizeStep
  <2> QED
    BY <1>1, <2>1, <2>2 DEF BackgroundInv
<1>6. CASE UNCHANGED vars
  <2>1. /\ part' = part /\ v1' = v1 /\ v2' = v2 /\ v3' = v3 /\ v4' = v4 /\ v5' = v5
        /\ v6' = v6 /\ v7' = v7 /\ v8' = v8 /\ v9' = v9
    BY <1>6 DEF vars
  <2>2. GitInv => GitInv'
    BY <2>1 DEF GitInv, Git!TypeOK, Slots, OwnResults
  <2>3. Proved!Inv => Proved!Inv' /\ [Cap!Next]_(Cap!vars)
    <3>1. Proved!Inv => Proved!Inv'
      BY <2>1, Proved!NextGood DEF Proved!Good, Proved!vars
    <3>2. Server!Served' = Server!Served
      BY <2>1 DEF Server!Served, Server!Conn
    <3> QED
      BY <2>1, <3>1, <3>2 DEF Cap!vars
  <2>4. PiInv => PiInv'
    BY <2>1 DEF PiInv
  <2>5. ResizeInv => ResizeInv'
    BY <2>1 DEF ResizeInv, Settling, Due, NoneRuns, OnlyRuns, Target
  <2> QED
    BY <1>1, <1>6, <2>1, <2>2, <2>3, <2>4, <2>5 DEF BackgroundInv
<1> QED
  BY <1>2, <1>3, <1>4, <1>5, <1>6 DEF Next

\* BackgroundInvariant: the parts' invariants hold of every state of a run.
THEOREM BackgroundInvariant == Spec => []BackgroundInv
<1>1. BackgroundInv /\ [Next]_vars => BackgroundInv'
  BY BackgroundStep
<1>2. Init => BackgroundInv
  BY BackgroundInit
<1> QED
  BY <1>1, <1>2, PTL DEF Spec

\* LookupSlotsExact: however directories are moved to, lookups hang, panic or
\* report, a directory has one lookup exactly while it holds its slot in
\* in_flight (registry/git.rs), so none starves and none is looked up twice at once.
THEOREM LookupSlotsExact == Spec => []SlotsExact
<1>1. BackgroundInv => SlotsExact
  BY SlotsIsSlotsExact DEF BackgroundInv, GitInv, SlotsExact
<1> QED
  BY BackgroundInvariant, <1>1, PTL

\* LookupsNeverStray: a step changes a session's context only to that of the
\* directory the session is in.
THEOREM LookupsNeverStray == Spec => NoStrayContext
<1>1. BackgroundInv /\ [Next]_vars => [part = "git" => Git!ChangesAreOwn]_vars
  BY BackgroundStep
<1> QED
  BY BackgroundInvariant, <1>1, PTL DEF Spec, NoStrayContext

\* PlacesAlwaysKept: subscriptions implement Places, for any clients, any cap
\* and any number of restarts (handle_message and the forwarders of connection.rs):
\* who is forwarded events holds one of a fixed number of places.
THEOREM PlacesAlwaysKept == Spec => PlacesKept
<1>1. Init => Cap!Init
  BY BackgroundInit
<1>2. BackgroundInv /\ [Next]_vars => [Cap!Next]_(Cap!vars)
  BY BackgroundStep
<1> QED
  BY <1>1, <1>2, BackgroundInvariant, PTL DEF Spec, PlacesKept, Cap!Spec

\* EventsReadInOrder: atmd reads the pi extension's events in the order pi fired
\* them, and the extension holds a bounded number of lines, however often the
\* connection is lost, pauses or overflows.
THEOREM EventsReadInOrder == Spec => []ReadInOrder
<1>1. BackgroundInv => ReadInOrder
  BY PiInvMeans DEF BackgroundInv, ReadInOrder
<1> QED
  BY BackgroundInvariant, <1>1, PTL

\* SidebarSettles: the sidebar has its width whenever all is quiet after a
\* resize of a quiet window, for any limit of tries and any number of scripts.
THEOREM SidebarSettles == Spec => []SettlesAtWidth
<1>1. BackgroundInv => SettlesAtWidth
  BY ResizeInvMeans DEF BackgroundInv, SettlesAtWidth
<1> QED
  BY BackgroundInvariant, <1>1, PTL
=============================================================================
