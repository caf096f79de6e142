--------------------------- MODULE TurnParts_proofs ---------------------------
(***************************************************************************)
(* Proofs, for every value of the constants, about the parts that prepare  *)
(* a turn's prompt, the todo lists (Planner), the truncation of tool       *)
(* results (ToolPruning), the recall of memories (Recall) and the cut to   *)
(* the budget (Compaction), and about the splitter of what the model       *)
(* streams back (ThinkingSplit).                                           *)
(***************************************************************************)
EXTENDS Planner, ToolPruning, Recall, Compaction, ThinkingSplit, FiniteSetTheorems,
        SequenceTheorems, WellFoundedInduction, TLAPS

-------------------------------------------------------------------------------
\* Planner: the todo lists.
LEMMA ListFacts ==
  /\ \A l \in Lists : \E n \in 0..MaxTasks : l \in [1..n -> Task]
  /\ \A n \in 0..MaxTasks : [1..n -> Task] \subseteq Lists
BY DEF Lists

\* Marking a task changes its status and nothing else of the list.
LEMMA MarkedFacts ==
  ASSUME NEW l \in Lists, NEW i \in DOMAIN l
  PROVE  /\ Marked(l, i) \in Lists /\ DOMAIN Marked(l, i) = DOMAIN l
         /\ Marked(l, i)[i].status = "done"
         /\ \A j \in DOMAIN l : Marked(l, i)[j].id = l[j].id
<1>1. PICK n \in 0..MaxTasks : l \in [1..n -> Task] BY ListFacts
<1>2. l[i] \in Task /\ [l[i] EXCEPT !.status = "done"] \in Task
  BY <1>1 DEF Task, Statuses
<1>3. Marked(l, i) = [l EXCEPT ![i] = [l[i] EXCEPT !.status = "done"]] BY DEF Marked
<1>4. Marked(l, i) \in [1..n -> Task] BY <1>1, <1>2, <1>3
<1> QED BY <1>1, <1>2, <1>3, <1>4, ListFacts DEF Task

\* A session without tasks.
LEMMA EmptyList == <<>> \in Lists
<1>1. <<>> \in Seq(Task) /\ Len(<<>>) = 0 BY EmptySeq
<1>2. <<>> \in [1..0 -> Task] BY <1>1, LenProperties
<1>3. 0 \in 0..MaxTasks BY ListsAssumption
<1>4. [1..0 -> Task] \subseteq Lists BY <1>3, ListFacts
<1> QED BY <1>2, <1>4

\* Lists keep their type also where turns share a session.
ListsTyped ==
  sessions \in [Sessions -> Lists] /\ session \in [Turns -> Sessions \cup {NoSession}]

LEMMA ListsStayTyped == PlannerSpec => []ListsTyped
<1>1. PlannerInit => ListsTyped BY EmptyList DEF PlannerInit, ListsTyped
<1>2. ListsTyped /\ [PlannerNext]_plannerVars => ListsTyped'
  <2> SUFFICES ASSUME ListsTyped, [PlannerNext]_plannerVars PROVE ListsTyped'
    OBVIOUS
  <2> USE DEF ListsTyped
  <2>1. ASSUME NEW t \in Turns, NEW s \in Sessions, Prepare(t, s) PROVE ListsTyped'
    BY <2>1 DEF Prepare
  <2>2. ASSUME NEW t \in Turns, UpdateTodo(t) PROVE ListsTyped'
    BY <2>2 DEF UpdateTodo, ReplaceTasks
  <2>3. ASSUME NEW t \in Turns, NEW id \in TaskIds, MarkTaskDone(t, id) PROVE ListsTyped'
    <3>1. PICK i \in First(sessions[session[t]], id) :
            sessions' = [sessions EXCEPT ![session[t]] = Marked(sessions[session[t]], i)]
      BY <2>3 DEF MarkTaskDone
    <3>2. Marked(sessions[session[t]], i) \in Lists
      BY <2>3, MarkedFacts DEF First, MarkTaskDone
    <3> QED BY <2>3, <3>1, <3>2 DEF MarkTaskDone
  <2>4. ASSUME NEW t \in Turns, EndTurn(t) PROVE ListsTyped'
    BY <2>4 DEF EndTurn
  <2>5. CASE LoseTodos BY <2>5, EmptyList DEF LoseTodos
  <2>6. CASE UNCHANGED plannerVars BY <2>6 DEF plannerVars
  <2> QED BY <2>1, <2>2, <2>3, <2>4, <2>5, <2>6 DEF PlannerNext
<1> QED BY <1>1, <1>2, PTL DEF PlannerSpec

\* A list that still names the marked id as its focus holds it twice.
LEMMA MarkedLeavesFocus ==
  ASSUME NEW l \in Lists, NEW id \in TaskIds, NEW i \in First(l, id), id \in Focus(Marked(l, i))
  PROVE  Cardinality(Twins(Marked(l, i), id)) > 1
<1> DEFINE m == Marked(l, i)
<1>1. i \in DOMAIN l /\ l[i].id = id BY DEF First
<1>2. m \in Lists /\ i \in DOMAIN m /\ m[i].status = "done" /\ m[i].id = id
  BY <1>1, MarkedFacts
<1> HIDE DEF m
<1>3. PICK j \in DOMAIN m : m[j].status = "in_progress" /\ m[j].id = id
  BY DEF Focus, InProgress, m
<1>4. i # j BY <1>2, <1>3
<1> DEFINE S == {i}
<1>5. S \cup {j} \subseteq Twins(m, id) BY <1>2, <1>3 DEF Twins
<1>6. IsFiniteSet(Twins(m, id))
  <2>1. PICK n \in 0..MaxTasks : m \in [1..n -> Task] BY <1>2, ListFacts
  <2>2. Twins(m, id) \subseteq 1..n BY <2>1 DEF Twins
  <2>3. n \in Int /\ 1 \in Int BY ListsAssumption
  <2>4. IsFiniteSet(1..n) BY <2>3, FS_Interval
  <2> QED BY <2>2, <2>4, FS_Subset
<1>7. IsFiniteSet(S) /\ Cardinality(S) = 1 /\ j \notin S BY <1>4, FS_Singleton
<1> HIDE DEF S
<1>8. Cardinality(S \cup {j}) = Cardinality(S) + 1 BY <1>7, FS_AddElement
<1>9. Cardinality(S \cup {j}) <= Cardinality(Twins(m, id)) /\ Cardinality(Twins(m, id)) \in Nat
  BY <1>5, <1>6, FS_Subset, FS_CardinalityType
<1> QED BY <1>7, <1>8, <1>9 DEF m

\* After mark_task_done the focus moves on, unless the id is there twice
\* (MemoryStore.MarkDone), also where turns share a session.
THEOREM DoneLeavesFocusAlways == PlannerSpec => DoneLeavesFocus
<1> DEFINE A == \A t \in Turns, id \in TaskIds : MarkTaskDone(t, id) =>
                  LET l == sessions'[session[t]]
                  IN id \notin Focus(l) \/ Cardinality(Twins(l, id)) > 1
<1>1. ListsTyped /\ [PlannerNext]_plannerVars => [A]_plannerVars
  <2> SUFFICES ASSUME ListsTyped, NEW t \in Turns, NEW id \in TaskIds, MarkTaskDone(t, id),
                      id \in Focus(sessions'[session[t]])
               PROVE  Cardinality(Twins(sessions'[session[t]], id)) > 1
    OBVIOUS
  <2>1. PICK i \in First(sessions[session[t]], id) :
          sessions' = [sessions EXCEPT ![session[t]] = Marked(sessions[session[t]], i)]
    BY DEF MarkTaskDone
  <2>2. session[t] \in Sessions BY DEF MarkTaskDone, ListsTyped
  <2>3. sessions'[session[t]] = Marked(sessions[session[t]], i) /\ sessions[session[t]] \in Lists
    BY <2>1, <2>2 DEF ListsTyped
  <2> QED BY <2>1, <2>3, MarkedLeavesFocus
<1> HIDE DEF A
<1>2. PlannerSpec => [][A]_plannerVars BY <1>1, ListsStayTyped, PTL DEF PlannerSpec
<1> QED BY <1>2 DEF DoneLeavesFocus, A
-------------------------------------------------------------------------------
\* ToolPruning: texts are sequences of runes.
LEMMA RunesFacts ==
  ASSUME NEW n \in Nat
  PROVE  Runes(n) \in Seq(Int) /\ Len(Runes(n)) = n /\ \A i \in 1..n : Runes(n)[i] = i
<1>1. Runes(n) \in [1..n -> Int] BY DEF Runes
<1>2. Runes(n) \in Seq(Int) BY <1>1, SeqDef
<1> QED BY <1>1, <1>2, LenProperties DEF Runes

LEMMA EllipsisFacts == Ellipsis \in Seq(Int) /\ Len(Ellipsis) = EllipsisLen
<1>1. Ellipsis \in [1..EllipsisLen -> Int] BY LengthsAssumption DEF Ellipsis
<1>2. Ellipsis \in Seq(Int) BY <1>1, SeqDef, LengthsAssumption
<1> QED BY <1>1, <1>2, LenProperties, LengthsAssumption DEF Ellipsis

LEMMA ShortenedFacts ==
  ASSUME NEW n \in Nat
  PROVE  /\ Runes(n) \o Ellipsis \in Seq(Int)
         /\ Len(Runes(n) \o Ellipsis) = n + EllipsisLen
         /\ \A i \in 1..n : (Runes(n) \o Ellipsis)[i] = i
         /\ \A i \in 1..EllipsisLen : (Runes(n) \o Ellipsis)[n + i] = Ellipsis[i]
<1> DEFINE r == Runes(n)
<1>1. EllipsisLen \in Nat BY LengthsAssumption
<1>2. r \in Seq(Int) /\ Len(r) = n /\ \A i \in 1..n : r[i] = i BY RunesFacts
<1> HIDE DEF r
<1>3. /\ r \o Ellipsis \in Seq(Int) /\ Len(r \o Ellipsis) = n + EllipsisLen
      /\ \A i \in 1..n + EllipsisLen :
           (r \o Ellipsis)[i] = IF i <= n THEN r[i] ELSE Ellipsis[i - n]
  BY <1>1, <1>2, EllipsisFacts, ConcatProperties
<1>4. \A i \in 1..n : (r \o Ellipsis)[i] = i BY <1>1, <1>2, <1>3
<1>5. ASSUME NEW i \in 1..EllipsisLen PROVE (r \o Ellipsis)[n + i] = Ellipsis[i]
  <2>1. n + i \in 1..n + EllipsisLen /\ ~(n + i <= n) /\ n + i - n = i BY <1>1
  <2>2. (r \o Ellipsis)[n + i] = IF n + i <= n THEN r[n + i] ELSE Ellipsis[n + i - n]
    BY <1>3, <2>1
  <2>3. (r \o Ellipsis)[n + i] = Ellipsis[n + i - n] BY <2>1, <2>2, Zenon
  <2> QED BY <2>1, <2>3, Zenon
<1> QED BY <1>3, <1>4, <1>5 DEF r

\* The front of a text that begins like the result is a part of the result.
LEMMA FrontIsRunes ==
  ASSUME NEW t \in Seq(Int), NEW k \in 0..Len(t), \A i \in 1..k : t[i] = i
  PROVE  SubSeq(t, 1, k) = Runes(k)
<1>0. k \in Nat BY LenProperties
<1>1. /\ SubSeq(t, 1, k) \in Seq(Int) /\ Len(SubSeq(t, 1, k)) = k
      /\ \A i \in 1..k : SubSeq(t, 1, k)[i] = i
  <2>1. \A i \in 1..k : t[i] \in Int OBVIOUS
  <2> QED BY <1>0, <2>1, SubSeqProperties
<1> QED BY <1>0, <1>1, RunesFacts, SeqEqual

LEMMA NoRunes == Runes(0) = <<>> /\ Runes(0) \o Ellipsis = Ellipsis
<1>1. Runes(0) = <<>> BY RunesFacts, EmptySeq
<1> QED BY <1>1, EllipsisFacts, ConcatEmptySeq

\* The model can tell a shortened text by its end.
LEMMA ShortenedEnds ==
  ASSUME NEW n \in Nat PROVE IsSuffix(Ellipsis, Runes(n) \o Ellipsis)
<1> DEFINE t == Runes(n) \o Ellipsis
           E == EllipsisLen
<1>0. E \in Nat BY LengthsAssumption
<1>1. t \in Seq(Int) /\ Len(t) = n + E /\ \A i \in 1..E : t[n + i] = Ellipsis[i]
  BY ShortenedFacts
<1>2. Ellipsis \in Seq(Int) /\ Len(Ellipsis) = E BY EllipsisFacts
<1> HIDE DEF t, E
<1>3. Reverse(t) \in [1..n + E -> Int] /\ Reverse(Ellipsis) \in [1..E -> Int]
  BY <1>0, <1>1, <1>2 DEF Reverse
<1>4. Reverse(t) \in Seq(Int) /\ Reverse(Ellipsis) \in Seq(Int) BY <1>0, <1>3, SeqDef
<1>5. Len(Reverse(t)) = n + E /\ Len(Reverse(Ellipsis)) = E
  BY <1>0, <1>1, <1>2 DEF Reverse
<1>6. \A i \in 1..E : Reverse(t)[i] = Reverse(Ellipsis)[i]
  <2> SUFFICES ASSUME NEW i \in 1..E PROVE Reverse(t)[i] = Reverse(Ellipsis)[i]
    OBVIOUS
  <2>1. Reverse(t)[i] = t[n + (E - i + 1)] BY <1>0, <1>1 DEF Reverse
  <2>2. Reverse(Ellipsis)[i] = Ellipsis[E - i + 1] BY <1>0, <1>2 DEF Reverse
  <2>3. E - i + 1 \in 1..E BY <1>0
  <2> QED BY <1>1, <2>1, <2>2, <2>3
<1>7. SubSeq(Reverse(Ellipsis), 1, E) = SubSeq(Reverse(t), 1, E)
  <2> DEFINE a == SubSeq(Reverse(Ellipsis), 1, E)
             b == SubSeq(Reverse(t), 1, E)
  <2>1. \A i \in 1..E : Reverse(t)[i] \in Int /\ Reverse(Ellipsis)[i] \in Int
    BY <1>0, <1>3
  <2>2. /\ a \in Seq(Int) /\ Len(a) = E
        /\ \A i \in 1..E : a[i] = Reverse(Ellipsis)[i]
    BY <1>0, <2>1, SubSeqProperties
  <2>3. b \in Seq(Int) /\ Len(b) = E /\ \A i \in 1..E : b[i] = Reverse(t)[i]
    BY <1>0, <2>1, SubSeqProperties
  <2> HIDE DEF a, b
  <2>4. a = b BY <1>0, <1>6, <2>2, <2>3, SeqEqual
  <2> QED BY <2>4 DEF a, b
<1> QED BY <1>0, <1>5, <1>7 DEF IsSuffix, IsPrefix, t

\* Prune shortens the beginning of a result only if it is over the limit, ...
LEMMA PruneOfRunes ==
  ASSUME NEW m \in Nat, NEW max \in Limits \cup {Off}
  PROVE  \/ Prune(Runes(m), max) = Runes(m)
         \/ /\ max # Off /\ m > max
            /\ \E n \in 0..m : Prune(Runes(m), max) = Runes(n) \o Ellipsis
<1>0. max \in Nat /\ EllipsisLen \in Nat /\ Margin \in Nat BY LengthsAssumption DEF Off
<1>1. Runes(m) \in Seq(Int) /\ Len(Runes(m)) = m /\ \A i \in 1..m : Runes(m)[i] = i
  BY RunesFacts
<1>2. CASE max = Off \/ m <= max BY <1>1, <1>2 DEF Prune
<1>3. CASE ~(max = Off \/ m <= max) /\ max <= EllipsisLen + Margin
  <2>1. Prune(Runes(m), max) = Runes(0) \o Ellipsis BY <1>1, <1>3, NoRunes DEF Prune
  <2>2. m > max BY <1>0, <1>3
  <2> QED BY <1>3, <2>1, <2>2
<1>4. CASE ~(max = Off \/ m <= max) /\ ~(max <= EllipsisLen + Margin)
  <2>1. max - EllipsisLen \in 0..m BY <1>0, <1>4
  <2>2. SubSeq(Runes(m), 1, max - EllipsisLen) = Runes(max - EllipsisLen)
    BY <1>1, <2>1, FrontIsRunes
  <2>3. Prune(Runes(m), max) = Runes(max - EllipsisLen) \o Ellipsis
    BY <1>1, <1>4, <2>2 DEF Prune
  <2>4. m > max BY <1>0, <1>4
  <2> QED BY <1>4, <2>1, <2>3, <2>4
<1> QED BY <1>2, <1>3, <1>4

\* ... and shortens a shortened text before its ellipsis, never within it.
LEMMA PruneOfShortened ==
  ASSUME NEW m \in Nat, NEW max \in Limits \cup {Off}
  PROVE  \E n \in 0..m : Prune(Runes(m) \o Ellipsis, max) = Runes(n) \o Ellipsis
<1> DEFINE t == Runes(m) \o Ellipsis
<1>0. max \in Nat /\ EllipsisLen \in Nat /\ Margin \in Nat BY LengthsAssumption DEF Off
<1>1. t \in Seq(Int) /\ Len(t) = m + EllipsisLen /\ \A i \in 1..m : t[i] = i
  BY ShortenedFacts
<1>2. CASE max = Off \/ Len(t) <= max
  <2>1. Prune(t, max) = t BY <1>2 DEF Prune
  <2> QED BY <2>1
<1>3. CASE ~(max = Off \/ Len(t) <= max) /\ max <= EllipsisLen + Margin
  <2>1. Prune(t, max) = Runes(0) \o Ellipsis BY <1>3, NoRunes DEF Prune
  <2> QED BY <2>1
<1> HIDE DEF t
<1>4. CASE ~(max = Off \/ Len(t) <= max) /\ ~(max <= EllipsisLen + Margin)
  <2>1. max - EllipsisLen \in 0..m /\ max - EllipsisLen \in 0..Len(t) BY <1>0, <1>1, <1>4
  <2>2. SubSeq(t, 1, max - EllipsisLen) = Runes(max - EllipsisLen)
    BY <1>1, <2>1, FrontIsRunes
  <2>3. Prune(t, max) = Runes(max - EllipsisLen) \o Ellipsis BY <1>4, <2>2 DEF Prune
  <2> QED BY <2>1, <2>3 DEF t
<1> QED BY <1>2, <1>3, <1>4 DEF t

Shortened(t) == \E n \in 0..Len(result) : t = Runes(n) \o Ellipsis
OverLimit == \E l \in since \ {Off} : Len(result) > l

\* The stored text is as honest as the given one, as it is what later turns prune.
PruningInv ==
  /\ limit \in Limits \cup {Off}
  /\ \E m \in Nat : result = Runes(m)
  /\ result = <<>> => given = <<>> /\ stored = <<>>
  /\ result # <<>> => limit \in since
  /\ given = result \/ (OverLimit /\ Shortened(given))
  /\ stored = result \/ (OverLimit /\ Shortened(stored))

LEMMA InitPruning == PruningInit => PruningInv
BY NoRunes DEF PruningInit, PruningInv

LEMMA NextPruning == PruningInv /\ [PruningNext]_pruningVars => PruningInv'
<1> SUFFICES ASSUME PruningInv, [PruningNext]_pruningVars PROVE PruningInv'
  OBVIOUS
<1>0. PICK m \in Nat : result = Runes(m) BY DEF PruningInv
<1>1. Len(result) = m BY <1>0, RunesFacts
<1>2. ASSUME NEW n \in 1..MaxResult, ToolReturns(n) PROVE PruningInv'
  <2>1. n \in Nat /\ n > 0 BY LengthsAssumption
  <2>2. result' = Runes(n) /\ Len(result') = n /\ given' = Prune(Runes(n), limit)
        /\ stored' = given' /\ since' = {limit} /\ limit' = limit
    BY <1>2, <2>1, RunesFacts DEF ToolReturns
  <2>3. result' # <<>> BY <2>1, <2>2, EmptySeq
  <2>4. given' = result' \/ (OverLimit' /\ Shortened(given)')
    <3>1. CASE Prune(Runes(n), limit) = Runes(n) BY <2>2, <3>1
    <3>2. CASE /\ limit # Off /\ n > limit
               /\ \E k \in 0..n : Prune(Runes(n), limit) = Runes(k) \o Ellipsis
      BY <2>2, <3>2 DEF OverLimit, Shortened
    <3> QED BY <2>1, <3>1, <3>2, PruneOfRunes DEF PruningInv
  <2> QED BY <2>1, <2>2, <2>3, <2>4 DEF PruningInv, Shortened
<1>3. CASE PrepareLoop
  <2>1. UNCHANGED <<limit, result, stored, since>> /\ given' = Prune(stored, limit)
        /\ limit \in since
    BY <1>3 DEF PrepareLoop, PruningInv
  <2>2. given' = result \/ (OverLimit /\ Shortened(given'))
    <3>1. CASE stored = result
      <4>1. CASE Prune(Runes(m), limit) = Runes(m) BY <1>0, <2>1, <3>1, <4>1
      <4>2. CASE /\ limit # Off /\ m > limit
                 /\ \E k \in 0..m : Prune(Runes(m), limit) = Runes(k) \o Ellipsis
        BY <1>0, <1>1, <2>1, <3>1, <4>2 DEF OverLimit, Shortened
      <4> QED BY <4>1, <4>2, PruneOfRunes DEF PruningInv
    <3>2. CASE OverLimit /\ Shortened(stored)
      <4>1. PICK k \in 0..m : stored = Runes(k) \o Ellipsis BY <1>1, <3>2 DEF Shortened
      <4>a. k \in Nat /\ limit \in Limits \cup {Off} BY DEF PruningInv
      <4>b. \E j \in 0..k : Prune(Runes(k) \o Ellipsis, limit) = Runes(j) \o Ellipsis
        BY <4>a, PruneOfShortened
      <4>2. PICK j \in 0..k : Prune(stored, limit) = Runes(j) \o Ellipsis
        BY <4>1, <4>b
      <4>3. j \in 0..m BY <1>0
      <4> QED BY <1>1, <2>1, <3>2, <4>2, <4>3 DEF Shortened
    <3> QED BY <3>1, <3>2 DEF PruningInv
  <2> QED BY <1>3, <2>1, <2>2 DEF PrepareLoop, PruningInv, OverLimit, Shortened
<1>4. ASSUME NEW l \in Limits \cup {Off}, NewLimit(l) PROVE PruningInv'
  <2>1. CASE result = <<>>
    BY <1>4, <2>1 DEF NewLimit, PruningInv
  <2>2. CASE result # <<>>
    <3>1. since' = since \cup {l} /\ limit' = l /\ UNCHANGED <<result, stored, given>>
      BY <1>4, <2>2 DEF NewLimit
    <3>2. OverLimit => OverLimit' BY <3>1 DEF OverLimit
    <3> QED BY <2>2, <3>1, <3>2 DEF PruningInv, Shortened
  <2> QED BY <2>1, <2>2
<1>5. CASE UNCHANGED pruningVars
  BY <1>5 DEF pruningVars, PruningInv, OverLimit, Shortened
<1> QED BY <1>2, <1>3, <1>4, <1>5 DEF PruningNext

\* However often a tool result is pruned and under whatever limits, the model is
\* given its beginning and at most one whole ellipsis at the end, and less than
\* all of it only if it was over a limit (TruncateToolPruner.Prune).
THEOREM PruningHonestAlways == PruningSpec => []PruningHonest
<1>1. PruningInv => PruningHonest
  <2> SUFFICES ASSUME PruningInv PROVE PruningHonest
    OBVIOUS
  <2>0. PICK m \in Nat : result = Runes(m) BY DEF PruningInv
  <2>1. Len(result) = m BY <2>0, RunesFacts
  <2>2. \E n \in 0..Len(result) : given \in {Runes(n), Runes(n) \o Ellipsis}
    BY <2>0, <2>1 DEF PruningInv, Shortened
  <2>3. Shortened(given) => IsSuffix(Ellipsis, given)
    BY <2>1, ShortenedEnds DEF Shortened
  <2> QED BY <2>2, <2>3 DEF PruningHonest, PruningInv, OverLimit
<1> QED BY InitPruning, NextPruning, <1>1, PTL DEF PruningSpec
-------------------------------------------------------------------------------
\* Recall: rows, and sets of rows in which no memory is twice.
Row == [id : Nat, created : Nat, text : Nat, hit : BOOLEAN]
DistinctIds(S) == \A r, q \in S : r.id = q.id => r = q
Table(S) == S \subseteq Row /\ IsFiniteSet(S) /\ DistinctIds(S)

\* What a query with ORDER BY created_at DESC LIMIT n returns.
LEMMA NewestFacts ==
  ASSUME NEW S, IsFiniteSet(S), NEW n \in Nat, NEW p \in Newest(S, n)
  PROVE  /\ p \subseteq S /\ IsFiniteSet(p)
         /\ Cardinality(p) \in Nat /\ Cardinality(p) <= n
         /\ p # S => Cardinality(p) = n
         /\ \A r \in p, q \in S \ p : r.created >= q.created
<1>1. /\ p \in SUBSET S
      /\ Cardinality(p) = IF Cardinality(S) < n THEN Cardinality(S) ELSE n
      /\ \A r \in p, q \in S \ p : r.created >= q.created
  BY DEF Newest
<1>2. IsFiniteSet(p) /\ (Cardinality(S) = Cardinality(p) => S = p) BY <1>1, FS_Subset
<1>3. Cardinality(p) \in Nat /\ Cardinality(S) \in Nat BY <1>2, FS_CardinalityType
<1>4. Cardinality(p) <= n /\ (p # S => Cardinality(p) = n) BY <1>1, <1>2, <1>3
<1> QED BY <1>1, <1>2, <1>3, <1>4

\* A finite set within another has no more members, also with one more of its own.
LEMMA OneMore ==
  ASSUME NEW S, NEW x, NEW T, IsFiniteSet(T), S \subseteq T, x \in T, x \notin S
  PROVE  Cardinality(S) \in Nat /\ Cardinality(T) \in Nat /\ Cardinality(S) + 1 <= Cardinality(T)
<1>1. IsFiniteSet(S) BY FS_Subset
<1>2. Cardinality(S \cup {x}) = Cardinality(S) + 1 BY <1>1, FS_AddElement
<1>3. S \cup {x} \subseteq T OBVIOUS
<1>4. Cardinality(S \cup {x}) <= Cardinality(T) BY <1>3, FS_Subset
<1> QED BY <1>1, <1>2, <1>4, FS_CardinalityType

\* SelectForTurn unites the hits M with the newest rows N of the table R.
LEMMA UniteTable ==
  ASSUME NEW M, Table(M), NEW N, Table(N)
  PROVE  Table(Unite(M, N)) /\ N \subseteq Unite(M, N) /\ Unite(M, N) \subseteq M \cup N
<1>1. N \subseteq Unite(M, N) /\ Unite(M, N) \subseteq M \cup N BY DEF Unite
<1>2. IsFiniteSet(Unite(M, N))
  <2>1. IsFiniteSet(M \cup N) BY FS_Union DEF Table
  <2> QED BY <1>1, <2>1, FS_Subset
<1>3. DistinctIds(Unite(M, N)) BY DEF DistinctIds, Table, Unite
<1> QED BY <1>1, <1>2, <1>3 DEF Table

\* A row of the table is left out of the cut only when the cut is full.
LEMMA CutFillsPlaces ==
  ASSUME NEW R, Table(R), NEW M, Table(M), NEW N \in Newest(R, RecentExtra),
         NEW P \in Cut(Unite(M, N)), NEW r \in R \ P
  PROVE  Cardinality(P) = Limit
<1> DEFINE B == Unite(M, N)
<1>0. Limit \in Nat /\ RecentExtra \in Nat /\ RecentExtra >= Limit BY LimitsAssumption
<1>1. /\ N \subseteq R /\ IsFiniteSet(N) /\ Cardinality(N) \in Nat
      /\ N # R => Cardinality(N) = RecentExtra
  BY <1>0, NewestFacts DEF Table
<1>2. Table(N) BY <1>1 DEF Table, DistinctIds
<1>3. Table(B) /\ N \subseteq B BY <1>2, UniteTable
<1>4. IsFiniteSet(B) BY <1>3 DEF Table
<1> HIDE DEF B
<1>5. /\ P \subseteq B /\ Cardinality(P) \in Nat /\ Cardinality(P) <= Limit
      /\ P # B => Cardinality(P) = Limit
  BY <1>0, <1>4, NewestFacts DEF Cut, B
<1>6. CASE r \in N BY <1>3, <1>5, <1>6
<1>7. CASE r \notin N
  <2>1. Cardinality(N) = RecentExtra BY <1>1, <1>7
  <2>2. Cardinality(N) <= Cardinality(B) /\ Cardinality(B) \in Nat
    BY <1>3, <1>4, FS_Subset, FS_CardinalityType
  <2> QED BY <1>0, <1>5, <2>1, <2>2
<1> QED BY <1>6, <1>7

\* A row in the cut that is not in the table was a hit, and if its id still is
\* in the table, the second query missed it among rows of its age.
LEMMA CutExplainsStale ==
  ASSUME NEW R, Table(R), NEW M, Table(M), NEW N \in Newest(R, RecentExtra),
         NEW P \in Cut(Unite(M, N)), NEW p \in P \ R,
         \A m \in M, r \in R : r.id = m.id => r.created = m.created
  PROVE  /\ p \in M
         /\ \A r \in R : r.id = p.id =>
              Cardinality({q \in N : q.created = p.created}) >= RecentExtra - Limit + 1
<1> DEFINE B == Unite(M, N)
           Same == {q \in N : q.created = p.created}
           Newer == N \ Same
<1>0. Limit \in Nat /\ RecentExtra \in Nat BY LimitsAssumption
<1>1. /\ N \subseteq R /\ IsFiniteSet(N) /\ Cardinality(N) \in Nat
      /\ N # R => Cardinality(N) = RecentExtra
      /\ \A n \in N, q \in R \ N : n.created >= q.created
  BY <1>0, NewestFacts DEF Table
<1>2. Table(N) BY <1>1 DEF Table, DistinctIds
<1>3. Table(B) /\ N \subseteq B /\ B \subseteq M \cup N BY <1>2, UniteTable
<1>4. IsFiniteSet(B) BY <1>3 DEF Table
<1>5. /\ P \subseteq B /\ IsFiniteSet(P) /\ Cardinality(P) \in Nat /\ Cardinality(P) <= Limit
      /\ \A a \in P, q \in B \ P : a.created >= q.created
  BY <1>0, <1>4, NewestFacts DEF Cut
<1>6. p \in M /\ p \notin N /\ \A q \in N : q.id # p.id BY <1>1, <1>5 DEF Unite
<1>7. ASSUME NEW r \in R, r.id = p.id PROVE Cardinality(Same) >= RecentExtra - Limit + 1
  <2>1. r \notin N /\ r.created = p.created BY <1>6, <1>7
  <2>2. Cardinality(N) = RecentExtra BY <1>1, <2>1
  <2>3. p.created \in Nat /\ \A n \in N : n.created \in Nat
    BY <1>3, <1>5 DEF Table, Row
  <2>4. ASSUME NEW n \in Newer PROVE n \in P
    <3>1. n.created >= p.created /\ n.created # p.created BY <1>1, <2>1
    <3>2. ~(p.created >= n.created) BY <2>3, <3>1
    <3> QED BY <1>3, <1>5, <3>2
  <2>5. Newer \subseteq P /\ p \notin Newer BY <1>6, <2>4
  <2>6. Same \subseteq N OBVIOUS
  <2>7. N \cap Same = Same OBVIOUS
  <2> HIDE DEF Same
  <2>8. Cardinality(Newer) = Cardinality(N) - Cardinality(Same)
    BY <1>1, <2>7, FS_Difference
  <2>9. IsFiniteSet(Same) /\ Cardinality(Same) \in Nat
    BY <1>1, <2>6, FS_Subset, FS_CardinalityType
  <2> HIDE DEF Newer
  <2>10. Cardinality(Newer) \in Nat /\ Cardinality(Newer) + 1 <= Cardinality(P)
    BY <1>5, <2>5, OneMore
  <2> QED BY <1>0, <1>5, <2>2, <2>8, <2>9, <2>10
<1> QED BY <1>6, <1>7

\* The table, as the writers keep it, and what the recall has read of it. The
\* age of a memory does not change as long as its id is there.
RecallInv ==
  /\ Table(rows) /\ Table(matched)
  /\ lastId \in Nat /\ writes \in Nat
  /\ \A r \in rows \cup matched : r.id <= lastId
  /\ recall \in {"match", "recent", "done"}
  /\ recall = "match" => matched = {}
  /\ recall # "done" => byID = matched
  /\ \A m \in matched, r \in rows : r.id = m.id => r.created = m.created
  /\ PlacesUsed /\ StaleExplained

\* A finite set of rows with the ids of an interval.
LEMMA RowsOfInterval ==
  ASSUME NEW a \in Int, NEW b \in Int, NEW f \in [a..b -> Row]
  PROVE  IsFiniteSet({f[i] : i \in a..b})
<1> DEFINE T == {f[i] : i \in a..b}
<1>1. f \in [a..b -> T] /\ \A t \in T : \E i \in a..b : f[i] = t OBVIOUS
<1>2. f \in Surjection(a..b, T) BY <1>1 DEF Surjection
<1>3. IsFiniteSet(a..b) BY FS_Interval
<1> HIDE DEF T
<1>4. IsFiniteSet(T) BY <1>2, <1>3, FS_Surjection
<1> QED BY <1>4 DEF T

LEMMA EmptyTable == Table({})
BY FS_EmptySet DEF Table, DistinctIds

LEMMA InitRecall == RecallInit => RecallInv
<1> SUFFICES ASSUME RecallInit PROVE RecallInv
  OBVIOUS
<1>0. lastId \in Nat /\ writes \in Nat BY LimitsAssumption DEF RecallInit
<1>1. PICK h \in [1..lastId -> BOOLEAN] :
        rows = {[id |-> i, created |-> i, text |-> i, hit |-> h[i]] : i \in 1..lastId}
  BY DEF RecallInit
<1> DEFINE f == [i \in 1..lastId |-> [id |-> i, created |-> i, text |-> i, hit |-> h[i]]]
<1>2. f \in [1..lastId -> Row] BY <1>0 DEF Row
<1>3. rows = {f[i] : i \in 1..lastId} BY <1>1
<1>4. \A i \in 1..lastId : f[i].id = i /\ i <= lastId BY <1>0
<1> HIDE DEF f
<1>5. IsFiniteSet(rows) BY <1>0, <1>2, <1>3, RowsOfInterval
<1>6. rows \subseteq Row /\ DistinctIds(rows) BY <1>2, <1>3, <1>4 DEF DistinctIds
<1>7. \A r \in rows : r.id <= lastId BY <1>3, <1>4
<1> QED BY <1>0, <1>5, <1>6, <1>7, EmptyTable
        DEF RecallInit, RecallInv, Table, PlacesUsed, StaleExplained

\* A write that keeps the table and the age of its memories keeps the invariant.
LEMMA WriteKeeps ==
  ASSUME RecallInv, recall # "done", UNCHANGED <<recall, byID, picked, matched, newest>>,
         Table(rows)', lastId' \in Nat, lastId' >= lastId, writes' = writes + 1,
         \A r \in rows' : r.id <= lastId',
         \A r \in rows' : r.id <= lastId => \E q \in rows : q.id = r.id /\ q.created = r.created
  PROVE  RecallInv'
<1>1. \A m \in matched : m.id \in Nat /\ m.id <= lastId BY DEF RecallInv, Table, Row
<1>2. \A m \in matched : m.id <= lastId' BY <1>1 DEF RecallInv
<1>3. ASSUME NEW m \in matched, NEW r \in rows', r.id = m.id PROVE r.created = m.created
  <2>1. PICK q \in rows : q.id = r.id /\ q.created = r.created BY <1>1, <1>3
  <2> QED BY <1>3, <2>1 DEF RecallInv
<1>4. PlacesUsed' /\ StaleExplained' BY DEF PlacesUsed, StaleExplained
<1>5. Table(matched)' BY DEF RecallInv, Table, DistinctIds
<1> QED BY <1>2, <1>3, <1>4, <1>5 DEF RecallInv

LEMMA NextRecall == RecallInv /\ [RecallNext]_recallVars => RecallInv'
<1> SUFFICES ASSUME RecallInv, [RecallNext]_recallVars PROVE RecallInv'
  OBVIOUS
<1>0. /\ lastId \in Nat /\ writes \in Nat
      /\ rows \subseteq Row /\ IsFiniteSet(rows) /\ DistinctIds(rows)
      /\ \A r \in rows : r.id \in Nat /\ r.id <= lastId
  BY DEF RecallInv, Table, Row
<1>1. CASE Insert
  <2>1. PICK h \in BOOLEAN :
          rows' = rows \cup {[id |-> lastId + 1, created |-> writes + 1, text |-> writes + 1, hit |-> h]}
    BY <1>1 DEF Insert
  <2> DEFINE new == [id |-> lastId + 1, created |-> writes + 1, text |-> writes + 1, hit |-> h]
  <2>2. new \in Row /\ new.id = lastId + 1 BY <1>0 DEF Row
  <2>3. rows' = rows \cup {new} BY <2>1
  <2> HIDE DEF new
  <2>4. IsFiniteSet(rows') BY <1>0, <2>3, FS_AddElement
  <2>5. Table(rows)' BY <1>0, <2>2, <2>3, <2>4 DEF Table, DistinctIds
  <2>6. lastId' = lastId + 1 /\ writes' = writes + 1 /\ recall # "done"
        /\ UNCHANGED <<recall, byID, picked, matched, newest>>
    BY <1>1 DEF Insert, CanWrite
  <2>7. \A r \in rows' : r.id <= lastId' /\ (r.id <= lastId => r \in rows)
    BY <1>0, <2>2, <2>3, <2>6
  <2> QED BY <1>0, <2>5, <2>6, <2>7, WriteKeeps
<1>2. CASE Upsert
  <2>1. PICK r \in rows, h \in BOOLEAN :
          rows' = (rows \ {r}) \cup {[r EXCEPT !.text = writes + 1, !.hit = h]}
    BY <1>2 DEF Upsert
  <2> DEFINE new == [r EXCEPT !.text = writes + 1, !.hit = h]
  <2>2. new \in Row /\ new.id = r.id /\ new.created = r.created
    <3>0. r \in Row /\ writes + 1 \in Nat BY <1>0
    <3>1. new.id = r.id /\ new.created = r.created BY <3>0 DEF Row
    <3>2. [r EXCEPT !.text = writes + 1] \in Row BY <3>0 DEF Row
    <3>3. ASSUME NEW q \in Row PROVE [q EXCEPT !.hit = h] \in Row BY DEF Row
    <3>4. new = [[r EXCEPT !.text = writes + 1] EXCEPT !.hit = h] BY <3>0 DEF Row
    <3> QED BY <3>1, <3>2, <3>3, <3>4
  <2>3. rows' = (rows \ {r}) \cup {new} BY <2>1
  <2> HIDE DEF new
  <2>4. IsFiniteSet(rows') BY <1>0, <2>3, FS_AddElement, FS_RemoveElement
  <2>5. Table(rows)' BY <1>0, <2>2, <2>3, <2>4 DEF Table, DistinctIds
  <2>6. lastId' = lastId /\ writes' = writes + 1 /\ recall # "done"
        /\ UNCHANGED <<recall, byID, picked, matched, newest>>
    BY <1>2 DEF Upsert, CanWrite
  <2>7. \A s \in rows' : s.id <= lastId' /\ \E q \in rows : q.id = s.id /\ q.created = s.created
    BY <1>0, <2>2, <2>3, <2>6
  <2> QED BY <1>0, <2>5, <2>6, <2>7, WriteKeeps
<1>3. CASE Replace
  <2>1. PICK old \in SUBSET rows, n \in 1..MaxMerged, h \in BOOLEAN, began \in 1..writes + 1 :
          /\ rows' = (rows \ old) \cup
               {[id |-> i, created |-> began, text |-> writes + 1, hit |-> h] : i \in lastId + 1..lastId + n}
          /\ lastId' = lastId + n
    BY <1>3 DEF Replace
  <2> DEFINE f == [i \in lastId + 1..lastId + n |->
                    [id |-> i, created |-> began, text |-> writes + 1, hit |-> h]]
             new == {f[i] : i \in lastId + 1..lastId + n}
  <2>2. n \in Nat /\ lastId + 1 \in Int /\ lastId + n \in Int /\ began \in Nat
    BY <1>0, LimitsAssumption
  <2>3. f \in [lastId + 1..lastId + n -> Row] BY <1>0, <2>2 DEF Row
  <2>4. rows' = (rows \ old) \cup new BY <2>1
  <2>5. \A i \in lastId + 1..lastId + n : f[i].id = i OBVIOUS
  <2> HIDE DEF f
  <2>6. IsFiniteSet(new) BY <2>2, <2>3, RowsOfInterval
  <2>7. /\ new \subseteq Row /\ DistinctIds(new)
        /\ \A r \in new : r.id \in Nat /\ r.id > lastId /\ r.id <= lastId + n
    BY <1>0, <2>2, <2>3, <2>5 DEF DistinctIds
  <2> HIDE DEF new
  <2>8. IsFiniteSet(rows \ old) BY <1>0, FS_Difference
  <2>9. IsFiniteSet(rows') BY <2>4, <2>6, <2>8, FS_Union
  <2>10. \A r \in rows, q \in new : r.id # q.id BY <1>0, <2>7
  <2>11. DistinctIds(rows') BY <1>0, <2>4, <2>7, <2>10 DEF DistinctIds
  <2>12. Table(rows)' BY <1>0, <2>4, <2>7, <2>9, <2>11 DEF Table, DistinctIds
  <2>13. writes' = writes + 1 /\ recall # "done" /\ lastId' = lastId + n
         /\ UNCHANGED <<recall, byID, picked, matched, newest>>
    BY <1>3, <2>1 DEF Replace, CanWrite
  <2>14. \A r \in rows' : r.id <= lastId' /\ (r.id <= lastId => r \in rows)
    BY <1>0, <2>2, <2>4, <2>7, <2>13
  <2> QED BY <1>0, <2>2, <2>12, <2>13, <2>14, WriteKeeps
<1>4. CASE ReadForTenant
  <2>1. matched' \subseteq rows
    <3>1. Newest({r \in rows : r.hit}, Limit + MatchExtra) \subseteq SUBSET rows BY DEF Newest
    <3> QED BY <1>4, <3>1 DEF ReadForTenant
  <2>2. UNCHANGED <<rows, lastId, writes>> /\ recall' = "recent" /\ byID' = matched'
    BY <1>4 DEF ReadForTenant, table
  <2>3. IsFiniteSet(matched') BY <1>0, <2>1, FS_Subset
  <2>4. Table(matched)' /\ Table(rows)' BY <1>0, <2>1, <2>2, <2>3 DEF Table, DistinctIds
  <2>5. \A m \in matched', r \in rows' : r.id = m.id => r.created = m.created
    BY <1>0, <2>1, <2>2 DEF DistinctIds
  <2> QED BY <1>0, <2>1, <2>2, <2>4, <2>5 DEF RecallInv, PlacesUsed, StaleExplained
<1>5. CASE ListRecentForTenant
  <2>1. /\ UNCHANGED <<rows, lastId, writes, matched>> /\ recall' = "done"
        /\ newest' \in Newest(rows, RecentExtra)
        /\ picked' \in Cut(Unite(matched, newest'))
    BY <1>5 DEF ListRecentForTenant, table, RecallInv
  <2>2. Table(rows) /\ Table(matched)
        /\ \A m \in matched, r \in rows : r.id = m.id => r.created = m.created
    BY DEF RecallInv
  <2>3. DistinctIds(picked')
    <3>1. IsFiniteSet(rows) /\ RecentExtra \in Nat BY <1>0, LimitsAssumption
    <3>2. newest' \subseteq rows /\ IsFiniteSet(newest') BY <2>1, <3>1, NewestFacts
    <3>3. Table(newest') BY <1>0, <3>2 DEF Table, DistinctIds
    <3>4. Table(Unite(matched, newest')) BY <2>2, <3>3, UniteTable
    <3>5. picked' \subseteq Unite(matched, newest') BY <2>1 DEF Cut, Newest
    <3> QED BY <3>4, <3>5 DEF Table, DistinctIds
  <2>4. PlacesUsed'
    <3>1. \A r \in rows \ picked' : Cardinality(picked') = Limit
      BY <2>1, <2>2, CutFillsPlaces
    <3> QED BY <2>1, <2>3, <3>1 DEF PlacesUsed, DistinctIds
  <2>5. StaleExplained'
    <3>1. \A p \in picked' \ rows :
            /\ p \in matched
            /\ \A r \in rows : r.id = p.id =>
                 Cardinality({q \in newest' : q.created = p.created}) >= RecentExtra - Limit + 1
      BY <2>1, <2>2, CutExplainsStale
    <3> QED BY <2>1, <3>1 DEF StaleExplained
  <2>6. Table(rows)' /\ Table(matched)' BY <2>1, <2>2 DEF Table, DistinctIds
  <2> QED BY <2>1, <2>4, <2>5, <2>6 DEF RecallInv
<1>6. CASE UNCHANGED recallVars
  BY <1>6 DEF recallVars, table, RecallInv, Table, DistinctIds, PlacesUsed, StaleExplained
<1> QED BY <1>1, <1>2, <1>3, <1>4, <1>5, <1>6 DEF RecallNext

LEMMA RecallInvariant == RecallSpec => []RecallInv
BY InitRecall, NextRecall, PTL DEF RecallSpec

\* Whatever is written between the two queries, no memory takes two of a turn's
\* places, and one is left out only when all are taken (SideQuery.SelectForTurn).
THEOREM PlacesUsedAlways == RecallSpec => []PlacesUsed
<1>1. RecallInv => PlacesUsed BY DEF RecallInv
<1> QED BY <1>1, RecallInvariant, PTL

\* What a turn is given is out of date only where a pass replaced the memory or
\* the second query missed it among rows of its age (SideQuery.SelectForTurn).
THEOREM StaleExplainedAlways == RecallSpec => []StaleExplained
<1>1. RecallInv => StaleExplained BY DEF RecallInv
<1> QED BY <1>1, RecallInvariant, PTL
-------------------------------------------------------------------------------
(***************************************************************************)
(* Compaction.  The parts of a prompt as operators of the prompt, so that  *)
(* the invariant can speak of them before and after a step.                *)
(***************************************************************************)
RestOf(m) == SubSeq(m, PrefixLen(m) + 1, Len(m))
LastOf(m) == RestOf(m)[Len(RestOf(m))]
HistoryOf(m) == SubSeq(RestOf(m), 1, Len(RestOf(m)) - 1)
SquashOf(m, s) == SubSeq(m, 1, PrefixLen(m)) \o s \o <<LastOf(m)>>

\* The history without its first d messages, and the prompt with just that.
Without(m, d) == SubSeq(HistoryOf(m), d + 1, Len(HistoryOf(m)))
Kept(m, d) == SubSeq(m, 1, PrefixLen(m)) \o <<Notice>> \o Without(m, d) \o <<LastOf(m)>>

LEMMA PartsOfPrompt ==
  /\ rest = RestOf(msgs) /\ last = LastOf(msgs) /\ history = HistoryOf(msgs)
  /\ prefix = SubSeq(msgs, 1, PrefixLen(msgs)) /\ \A s : squash(s) = SquashOf(msgs, s)
BY DEF prefix, rest, last, history, squash, RestOf, LastOf, HistoryOf, SquashOf

\* A non-empty set of naturals has a least element.
LEMMA LeastOf ==
  ASSUME NEW T, T \subseteq Nat, T # {}
  PROVE  \E x \in T : \A y \in T : x <= y
<1> DEFINE Less == OpToRel(<, Nat)
<1>1. \A x, y \in Nat : y < x => <<y, x>> \in Less BY DEF OpToRel
<1>2. IsWellFoundedOn(Less, Nat) BY NatLessThanWellFounded
<1> HIDE DEF Less
<1>3. PICK x \in T : \A y \in T : ~(<<y, x>> \in Less) BY <1>2, WFMin
<1>4. ASSUME NEW y \in T PROVE x <= y
  <2>1. x \in Nat /\ y \in Nat OBVIOUS
  <2>2. ~(y < x) BY <1>1, <1>3, <2>1
  <2> QED BY <2>1, <2>2
<1> QED BY <1>4

LEMMA PrefixLenFacts ==
  ASSUME NEW m \in Seq(Message)
  PROVE  /\ PrefixLen(m) \in 0..Len(m)
         /\ \A i \in 1..PrefixLen(m) : m[i].role = "system"
         /\ PrefixLen(m) < Len(m) => m[PrefixLen(m) + 1].role # "system"
<1> DEFINE T == {n \in 0..Len(m) : n < Len(m) => m[n + 1].role # "system"}
           P(n) == (\A i \in 1..n : m[i].role = "system") /\ (n < Len(m) => m[n + 1].role # "system")
<1>0. Len(m) \in Nat OBVIOUS
<1>1. T \subseteq Nat /\ Len(m) \in T BY <1>0
<1>2. PICK n \in T : \A k \in T : n <= k
  <2> HIDE DEF T
  <2> QED BY <1>1, LeastOf
<1>3. ASSUME NEW i \in 1..n PROVE m[i].role = "system"
  <2>1. n \in 0..Len(m) OBVIOUS
  <2>2. i - 1 \in 0..Len(m) /\ ~(n <= i - 1) /\ i - 1 < Len(m) /\ i - 1 + 1 = i BY <1>0, <2>1
  <2>3. i - 1 \notin T BY <1>2, <2>2
  <2> QED BY <2>2, <2>3
<1>4. n \in 0..Len(m) /\ P(n) BY <1>3
<1>5. PrefixLen(m) = CHOOSE k \in 0..Len(m) : P(k) BY DEF PrefixLen
<1> HIDE DEF P
<1>6. PrefixLen(m) \in 0..Len(m) /\ P(PrefixLen(m)) BY <1>4, <1>5
<1> QED BY <1>6 DEF P

\* consumeBlockFromFront: a block is a message, or a reply with all the results
\* that answer it from there on.
LEMMA BlockLenFacts ==
  ASSUME NEW s \in Seq(Message), s # <<>>
  PROVE  LET n == BlockLen(s) IN
         /\ n \in 1..Len(s)
         /\ \A j \in 2..n : s[j].role = "tool"
         /\ s[1].role = "tool" => n = 1
         /\ s[1].role = "assistant" /\ n < Len(s) => ~Answers(s[n + 1], s[1])
<1>0. Len(s) \in Nat /\ Len(s) > 0 OBVIOUS
<1>1. CASE s[1].role = "assistant" /\ s[1].calls # {}
  <2> DEFINE T == {n \in 1..Len(s) : n < Len(s) => ~Answers(s[n + 1], s[1])}
             P(n) == /\ \A j \in 2..n : Answers(s[j], s[1])
                     /\ n < Len(s) => ~Answers(s[n + 1], s[1])
  <2>1. T \subseteq Nat /\ Len(s) \in T BY <1>0
  <2>2. PICK n \in T : \A k \in T : n <= k
    <3> HIDE DEF T
    <3> QED BY <2>1, LeastOf
  <2>3. ASSUME NEW j \in 2..n PROVE Answers(s[j], s[1])
    <3>1. n \in 1..Len(s) OBVIOUS
    <3>2. j - 1 \in 1..Len(s) /\ ~(n <= j - 1) /\ j - 1 < Len(s) /\ j - 1 + 1 = j BY <1>0, <3>1
    <3>3. j - 1 \notin T BY <2>2, <3>2
    <3> QED BY <3>2, <3>3
  <2>4. n \in 1..Len(s) /\ P(n) BY <2>3
  <2>5. BlockLen(s) = CHOOSE k \in 1..Len(s) : P(k) BY <1>1 DEF BlockLen
  <2> HIDE DEF P
  <2>6. BlockLen(s) \in 1..Len(s) /\ P(BlockLen(s)) BY <2>4, <2>5
  <2> QED BY <1>1, <2>6 DEF P, Answers
<1>2. CASE ~(s[1].role = "assistant" /\ s[1].calls # {})
  <2>1. BlockLen(s) = 1 BY <1>2 DEF BlockLen
  <2>2. s[1].role = "assistant" => s[1].calls = {} BY <1>2
  <2> QED BY <1>0, <2>1, <2>2 DEF Answers
<1> QED BY <1>1, <1>2

LEMMA SubSeqFrom ==
  ASSUME NEW S, NEW s \in Seq(S), NEW n \in 0..Len(s)
  PROVE  LET x == SubSeq(s, n + 1, Len(s))
         IN x \in Seq(S) /\ Len(x) = Len(s) - n /\ \A i \in 1..Len(s) - n : x[i] = s[n + i]
<1>1. Len(s) \in Nat OBVIOUS
<1> QED BY <1>1

LEMMA ConcatFacts ==
  ASSUME NEW S, NEW s \in Seq(S), NEW t \in Seq(S)
  PROVE  /\ s \o t \in Seq(S) /\ Len(s \o t) = Len(s) + Len(t)
         /\ \A i \in 1..Len(s) : (s \o t)[i] = s[i]
         /\ \A i \in 1..Len(t) : (s \o t)[Len(s) + i] = t[i]
OBVIOUS

\* Where the parts of a prompt lie.
LEMMA ShapeOfPrompt ==
  ASSUME NEW m \in Seq(Message), RestOf(m) # <<>>
  PROVE  /\ PrefixLen(m) \in Nat /\ Len(m) = PrefixLen(m) + Len(HistoryOf(m)) + 1
         /\ HistoryOf(m) \in Seq(Message)
         /\ \A i \in 1..Len(HistoryOf(m)) : HistoryOf(m)[i] = m[PrefixLen(m) + i]
         /\ LastOf(m) = m[Len(m)] /\ LastOf(m) \in Message
<1> DEFINE p == PrefixLen(m)
           r == RestOf(m)
<1>1. p \in 0..Len(m) /\ Len(m) \in Nat BY PrefixLenFacts
<1>2. r = SubSeq(m, p + 1, Len(m)) BY DEF RestOf
<1>3. HistoryOf(m) = SubSeq(r, 1, Len(r) - 1) /\ LastOf(m) = r[Len(r)] BY DEF HistoryOf, LastOf
<1> HIDE DEF p, r
<1>4. r \in Seq(Message) /\ Len(r) = Len(m) - p /\ \A i \in 1..Len(r) : r[i] = m[p + i]
  BY <1>1, <1>2
<1>5. Len(r) \in Nat /\ Len(r) > 0 BY <1>4 DEF r
<1>6. HistoryOf(m) \in Seq(Message) /\ Len(HistoryOf(m)) = Len(r) - 1
      /\ \A i \in 1..Len(r) - 1 : HistoryOf(m)[i] = r[i]
  BY <1>3, <1>4, <1>5
<1>7. Len(r) \in 1..Len(r) /\ p + Len(r) = Len(m) BY <1>1, <1>4, <1>5
<1>8. LastOf(m) = m[Len(m)] /\ LastOf(m) \in Message BY <1>3, <1>4, <1>7
<1>9. ASSUME NEW i \in 1..Len(HistoryOf(m)) PROVE HistoryOf(m)[i] = m[p + i]
  <2>1. i \in 1..Len(r) - 1 /\ i \in 1..Len(r) BY <1>5, <1>6
  <2> QED BY <1>4, <1>6, <2>1
<1> QED BY <1>1, <1>4, <1>5, <1>6, <1>8, <1>9 DEF p

LEMMA WithoutFacts ==
  ASSUME NEW m \in Seq(Message), RestOf(m) # <<>>, NEW d \in 0..Len(HistoryOf(m))
  PROVE  /\ Without(m, d) \in Seq(Message) /\ Len(Without(m, d)) = Len(HistoryOf(m)) - d
         /\ \A i \in 1..Len(Without(m, d)) : Without(m, d)[i] = HistoryOf(m)[d + i]
<1> DEFINE h == HistoryOf(m)
<1>1. h \in Seq(Message) /\ Len(h) \in Nat BY ShapeOfPrompt
<1>2. Without(m, d) = SubSeq(h, d + 1, Len(h)) BY DEF Without
<1> HIDE DEF h
<1>3. SubSeq(h, d + 1, Len(h)) \in Seq(Message) /\ Len(SubSeq(h, d + 1, Len(h))) = Len(h) - d
      /\ \A i \in 1..Len(h) - d : SubSeq(h, d + 1, Len(h))[i] = h[d + i]
  BY <1>1 DEF h
<1> QED BY <1>2, <1>3 DEF h

\* Dropping n more messages.
LEMMA WithoutMore ==
  ASSUME NEW m \in Seq(Message), RestOf(m) # <<>>, NEW d \in 0..Len(HistoryOf(m)),
         NEW n \in 1..Len(Without(m, d))
  PROVE  /\ d + n \in 1..Len(HistoryOf(m))
         /\ SubSeq(Without(m, d), n + 1, Len(Without(m, d))) = Without(m, d + n)
<1> DEFINE w == Without(m, d)
           v == Without(m, d + n)
           x == SubSeq(w, n + 1, Len(w))
<1>0. Len(HistoryOf(m)) \in Nat BY ShapeOfPrompt
<1>1. /\ w \in Seq(Message) /\ Len(w) = Len(HistoryOf(m)) - d
      /\ \A i \in 1..Len(w) : w[i] = HistoryOf(m)[d + i]
  BY WithoutFacts
<1>2. d + n \in 1..Len(HistoryOf(m)) /\ d + n \in 0..Len(HistoryOf(m)) /\ Len(w) \in Nat
      /\ n \in Nat /\ d \in Nat
  BY <1>0, <1>1
<1>3. /\ v \in Seq(Message) /\ Len(v) = Len(HistoryOf(m)) - (d + n)
      /\ \A i \in 1..Len(v) : v[i] = HistoryOf(m)[d + n + i]
  BY <1>2, WithoutFacts
<1> HIDE DEF w, v
<1>4. x \in Seq(Message) /\ Len(x) = Len(w) - n /\ \A i \in 1..Len(w) - n : x[i] = w[n + i]
  <2>1. n \in 0..Len(w) BY <1>2 DEF w
  <2> QED BY <1>1, <2>1, SubSeqFrom
<1> HIDE DEF x
<1>5. Len(x) = Len(v) /\ Len(v) \in Nat BY <1>0, <1>1, <1>2, <1>3, <1>4
<1>6. ASSUME NEW i \in 1..Len(x) PROVE x[i] = v[i]
  <2>1. n + i \in 1..Len(w) /\ i \in 1..Len(v) /\ d + (n + i) = d + n + i
    BY <1>2, <1>4, <1>5
  <2>2. x[i] = w[n + i] BY <1>4
  <2>3. w[n + i] = HistoryOf(m)[d + n + i]
    <3>1. w[n + i] = HistoryOf(m)[d + (n + i)] BY <1>1, <2>1, Zenon
    <3> QED BY <2>1, <3>1, Zenon
  <2>4. v[i] = HistoryOf(m)[d + n + i] BY <1>3, <2>1
  <2> QED BY <2>2, <2>3, <2>4, Zenon
<1>7. x = v BY <1>3, <1>4, <1>5, <1>6, SeqEqual
<1> QED BY <1>2, <1>7 DEF x, w, v

\* The returned prompt: after the prefix and the notice come the messages of the
\* argument, d - 1 places further on in it.
LEMMA KeptFacts ==
  ASSUME NEW m \in Seq(Message), RestOf(m) # <<>>, NEW d \in 0..Len(HistoryOf(m))
  PROVE  LET x == Kept(m, d)
             p == PrefixLen(m)
         IN /\ Len(x) = Len(m) - d + 1
            /\ \A i \in 1..p + 1 : x[i].role = "system"
            /\ \A i \in p + 2..Len(x) : x[i] = m[i - 1 + d]
<1> DEFINE p == PrefixLen(m)
           h == HistoryOf(m)
           a == SubSeq(m, 1, p)
           w == Without(m, d)
           z == LastOf(m)
           x == Kept(m, d)
<1>1. /\ p \in Nat /\ Len(m) = p + Len(h) + 1 /\ h \in Seq(Message) /\ Len(h) \in Nat
      /\ \A i \in 1..Len(h) : h[i] = m[p + i]
      /\ z = m[Len(m)] /\ z \in Message
  BY ShapeOfPrompt
<1>2. p \in 0..Len(m) /\ \A i \in 1..p : m[i].role = "system" BY PrefixLenFacts
<1>3. a \in Seq(Message) /\ Len(a) = p /\ \A i \in 1..p : a[i] = m[i] BY <1>2
<1>4. w \in Seq(Message) /\ Len(w) = Len(h) - d /\ \A i \in 1..Len(w) : w[i] = h[d + i]
  BY WithoutFacts
<1>5. Notice \in Message /\ Notice.role = "system"
  BY NoticeAssumption DEF Notice, Message
<1>6. x = a \o <<Notice>> \o w \o <<z>> BY DEF Kept
<1>d. d \in Nat /\ d <= Len(h) BY <1>1
<1> HIDE DEF p, h, a, w, z, x
<1>7. /\ Len(x) = Len(a) + 1 + Len(w) + 1
      /\ \A i \in 1..Len(a) : x[i] = a[i]
      /\ x[Len(a) + 1] = Notice
      /\ \A i \in 1..Len(w) : x[Len(a) + 1 + i] = w[i]
      /\ x[Len(a) + 1 + Len(w) + 1] = z
  <2> DEFINE b == a \o <<Notice>>
             c == b \o w
  <2>1. /\ b \in Seq(Message) /\ Len(b) = Len(a) + 1 /\ b[Len(a) + 1] = Notice
        /\ \A i \in 1..Len(a) : b[i] = a[i]
    BY <1>3, <1>5
  <2> HIDE DEF b
  <2>2. /\ c \in Seq(Message) /\ Len(c) = Len(b) + Len(w)
        /\ (\A i \in 1..Len(b) : c[i] = b[i]) /\ \A i \in 1..Len(w) : c[Len(b) + i] = w[i]
    <3>1. b \in Seq(Message) /\ w \in Seq(Message) BY <1>4, <2>1, Zenon
    <3>2. /\ b \o w \in Seq(Message) /\ Len(b \o w) = Len(b) + Len(w)
          /\ \A i \in 1..Len(b) : (b \o w)[i] = b[i]
          /\ \A i \in 1..Len(w) : (b \o w)[Len(b) + i] = w[i]
      BY <3>1, ConcatFacts
    <3> QED BY <3>2, Zenon
  <2> HIDE DEF c
  <2>3. x = c \o <<z>> BY <1>6 DEF b, c
  <2>4. /\ Len(x) = Len(c) + 1 /\ x[Len(c) + 1] = z /\ \A i \in 1..Len(c) : x[i] = c[i]
    <3>1. <<z>> \in Seq(Message) /\ Len(<<z>>) = 1 /\ <<z>>[1] = z BY <1>1
    <3> QED BY <2>2, <2>3, <3>1, ConcatFacts
  <2>5. Len(a) \in Nat /\ Len(b) \in Nat /\ Len(w) \in Nat /\ Len(c) \in Nat BY <1>3, <1>4, <2>1, <2>2
  <2>6. ASSUME NEW i \in 1..Len(a) PROVE x[i] = a[i]
    <3>1. i \in 1..Len(b) /\ i \in 1..Len(c) BY <2>1, <2>2, <2>5
    <3> QED BY <2>1, <2>2, <2>4, <3>1
  <2>7. x[Len(a) + 1] = Notice
    <3>1. Len(a) + 1 \in 1..Len(b) /\ Len(a) + 1 \in 1..Len(c) BY <2>1, <2>2, <2>5
    <3> QED BY <2>1, <2>2, <2>4, <3>1
  <2>8. ASSUME NEW i \in 1..Len(w) PROVE x[Len(a) + 1 + i] = w[i]
    <3>1. Len(b) + i \in 1..Len(c) /\ Len(b) + i = Len(a) + 1 + i BY <2>1, <2>2, <2>5
    <3> QED BY <2>2, <2>4, <3>1
  <2> QED BY <2>1, <2>2, <2>4, <2>6, <2>7, <2>8
<1>8. Len(x) = Len(m) - d + 1 BY <1>1, <1>3, <1>4, <1>7, <1>d
<1>9. ASSUME NEW i \in 1..p + 1 PROVE x[i].role = "system"
  <2>1. i \in 1..Len(a) \/ i = Len(a) + 1 BY <1>1, <1>3
  <2>2. CASE i \in 1..Len(a) BY <1>2, <1>3, <1>7, <2>2
  <2>3. CASE i = Len(a) + 1 BY <1>5, <1>7, <2>3
  <2> QED BY <2>1, <2>2, <2>3
<1>10. ASSUME NEW i \in p + 2..Len(x) PROVE x[i] = m[i - 1 + d]
  <2>0. Len(w) \in Nat /\ i \in Nat BY <1>1, <1>4
  <2>1. CASE i = Len(x)
    <3>1. i - 1 + d = Len(m) /\ i = Len(a) + 1 + Len(w) + 1
      BY <1>1, <1>3, <1>4, <1>7, <1>8, <1>d, <2>1
    <3> QED BY <1>1, <1>7, <3>1
  <2>2. CASE i # Len(x)
    <3>1. i - p - 1 \in 1..Len(w) /\ Len(a) + 1 + (i - p - 1) = i
      <4>a. Len(x) = p + 1 + Len(w) + 1 /\ Len(x) \in Nat BY <1>1, <1>3, <1>7, <2>0
      <4>1. p + 2 <= i /\ i < p + 1 + Len(w) + 1 BY <1>1, <2>0, <2>2, <4>a
      <4> QED BY <1>1, <1>3, <2>0, <4>1
    <3>2. x[i] = w[i - p - 1] BY <1>7, <3>1
    <3>3. d + (i - p - 1) \in 1..Len(h) /\ p + (d + (i - p - 1)) = i - 1 + d
      BY <1>1, <1>4, <1>d, <2>0, <3>1
    <3> QED BY <1>1, <1>4, <3>1, <3>2, <3>3
  <2> QED BY <2>1, <2>2
<1> QED BY <1>8, <1>9, <1>10 DEF x, p

\* Where the last block of the first d messages begins, as in DropsOnlyNeeded.
Starts(m, d) == {k \in 1..d : HistoryOf(m)[k].role # "tool"}
Latest(K) == CHOOSE k \in K : \A j \in K : j <= k
LastBlock(m, d) == IF Starts(m, d) = {} THEN d ELSE Latest(Starts(m, d))
Back(m, d) == SubSeq(HistoryOf(m), LastBlock(m, d), Len(HistoryOf(m)))

\* With the last dropped block back the prompt was too large and long enough.
Needed(m, d) == Tokens(SquashOf(m, Back(m, d))) > MaxTokens /\ Len(Back(m, d)) > MinTail

\* No round is cut: after a dropped reply the results that answer it end before
\* or right behind the last dropped message, unless all of the history is dropped.
NoCut(m, d) ==
  \A q \in 1..d :
    HistoryOf(m)[q].role = "assistant" /\ d < Len(HistoryOf(m)) =>
      \E k \in q + 1..d + 1 : ~Answers(HistoryOf(m)[k], HistoryOf(m)[q])

(***************************************************************************)
(* The inductive invariant: in the loop mid is the history without the     *)
(* dropped messages, and no round is cut; what is returned is built from   *)
(* that.  Needed speaks of the last iteration, the guard of which is gone  *)
(* from the state once the block is dropped.                               *)
(***************************************************************************)
CompactInv ==
  /\ msgs \in Prompts /\ dropped \in Nat
  /\ pc = "start" => dropped = 0
  /\ pc # "start" /\ dropped > 0 => Needed(msgs, dropped)
  /\ pc = "drop" =>
       /\ RestOf(msgs) # <<>> /\ dropped <= Len(HistoryOf(msgs))
       /\ mid = Without(msgs, dropped) /\ NoCut(msgs, dropped)
  /\ pc = "done" /\ out # msgs =>
       /\ RestOf(msgs) # <<>> /\ dropped \in 1..Len(HistoryOf(msgs))
       /\ out = Kept(msgs, dropped) /\ NoCut(msgs, dropped)

LEMMA InitCompact == Init => CompactInv
BY DEF Init, CompactInv

\* The block dropped after the first d messages begins at d + 1, or it is an
\* orphan result, which belongs to the block before.
LEMMA LastBlockMore ==
  ASSUME NEW m \in Seq(Message), RestOf(m) # <<>>, NEW d \in 0..Len(HistoryOf(m)),
         Without(m, d) # <<>>,
         d > 0 => Needed(m, d),
         Tokens(SquashOf(m, Without(m, d))) > MaxTokens, Len(Without(m, d)) > MinTail
  PROVE  Needed(m, d + BlockLen(Without(m, d)))
<1> DEFINE w == Without(m, d)
           n == BlockLen(w)
           h == HistoryOf(m)
<1>1. /\ w \in Seq(Message) /\ Len(w) = Len(h) - d
      /\ \A i \in 1..Len(w) : w[i] = h[d + i]
  BY WithoutFacts
<1>2. Len(h) \in Nat /\ d \in Nat /\ Len(w) \in Nat BY <1>1, ShapeOfPrompt
<1>3. /\ n \in 1..Len(w) /\ (\A j \in 2..n : w[j].role = "tool")
      /\ w[1].role = "tool" => n = 1
  BY <1>1, BlockLenFacts
<1>4. n \in Nat /\ n > 0 /\ 1 \in 1..Len(w) BY <1>2, <1>3
<1>5. w[1] = h[d + 1] BY <1>1, <1>4
<1>6. ASSUME NEW k \in d + 2..d + n PROVE h[k].role = "tool"
  <2>1. k - d \in 2..n /\ k - d \in 1..Len(w) /\ d + (k - d) = k BY <1>2, <1>3, <1>4
  <2> QED BY <1>1, <1>3, <2>1
<1>7. w = SubSeq(h, d + 1, Len(h)) BY DEF Without
<1> HIDE DEF w, n
<1>8. CASE h[d + 1].role # "tool"
  <2>1. d + 1 \in Starts(m, d + n) BY <1>2, <1>4, <1>8 DEF Starts, h
  <2>2. ASSUME NEW k \in Starts(m, d + n) PROVE k <= d + 1
    <3>1. k \in 1..d + n /\ h[k].role # "tool" BY DEF Starts, h
    <3> QED BY <1>2, <1>4, <1>6, <3>1
  <2>3. ASSUME NEW k \in Starts(m, d + n), \A j \in Starts(m, d + n) : j <= k PROVE k = d + 1
    <3>1. k \in Nat BY <1>2, <1>4 DEF Starts
    <3> QED BY <1>2, <2>1, <2>2, <2>3, <3>1
  <2>4. LastBlock(m, d + n) = d + 1 BY <2>1, <2>2, <2>3 DEF LastBlock, Latest
  <2>5. Back(m, d + n) = w BY <1>7, <2>4 DEF Back, h
  <2> QED BY <2>5 DEF Needed, w, n
<1>9. CASE h[d + 1].role = "tool"
  <2>1. n = 1 BY <1>3, <1>5, <1>9
  <2>2. Starts(m, d + 1) = Starts(m, d) BY <1>2, <1>9 DEF Starts, h
  <2>3. CASE Starts(m, d) = {}
    <3>1. LastBlock(m, d + 1) = d + 1 BY <2>2, <2>3 DEF LastBlock
    <3>2. Back(m, d + n) = w BY <1>7, <2>1, <3>1 DEF Back, h
    <3> QED BY <3>2 DEF Needed, w, n
  <2>4. CASE Starts(m, d) # {}
    <3>1. d > 0 BY <1>2, <2>4 DEF Starts
    <3>2. LastBlock(m, d + 1) = LastBlock(m, d) BY <2>2, <2>4 DEF LastBlock
    <3>3. Needed(m, d + n) BY <2>1, <3>1, <3>2 DEF Needed, Back
    <3> QED BY <3>3 DEF w, n
  <2> QED BY <2>3, <2>4
<1> QED BY <1>8, <1>9

LEMMA NoCutMore ==
  ASSUME NEW m \in Seq(Message), RestOf(m) # <<>>, NEW d \in 0..Len(HistoryOf(m)),
         Without(m, d) # <<>>, NoCut(m, d)
  PROVE  NoCut(m, d + BlockLen(Without(m, d)))
<1> DEFINE w == Without(m, d)
           n == BlockLen(w)
           h == HistoryOf(m)
<1>1. /\ w \in Seq(Message) /\ Len(w) = Len(h) - d
      /\ \A i \in 1..Len(w) : w[i] = h[d + i]
  BY WithoutFacts
<1>2. Len(h) \in Nat /\ d \in Nat /\ Len(w) \in Nat BY <1>1, ShapeOfPrompt
<1>3. /\ n \in 1..Len(w) /\ (\A j \in 2..n : w[j].role = "tool")
      /\ w[1].role = "assistant" /\ n < Len(w) => ~Answers(w[n + 1], w[1])
  BY <1>1, BlockLenFacts
<1>4. n \in Nat /\ n > 0 /\ 1 \in 1..Len(w) /\ d < Len(h) BY <1>1, <1>2, <1>3
<1>5. w[1] = h[d + 1] BY <1>1, <1>4
<1>6. ASSUME NEW k \in d + 2..d + n PROVE h[k].role = "tool"
  <2>1. k - d \in 2..n /\ k - d \in 1..Len(w) /\ d + (k - d) = k BY <1>2, <1>3, <1>4
  <2> QED BY <1>1, <1>3, <2>1
<1> HIDE DEF w, n
<1>7. SUFFICES ASSUME NEW q \in 1..d + n, h[q].role = "assistant", d + n < Len(h)
               PROVE  \E k \in q + 1..d + n + 1 : ~Answers(h[k], h[q])
  BY DEF NoCut, w, n, h
<1>8. CASE q <= d
  <2>1. PICK k \in q + 1..d + 1 : ~Answers(h[k], h[q])
    <3>1. q \in 1..d BY <1>2, <1>4, <1>8
    <3> QED BY <1>4, <1>7, <3>1 DEF NoCut, h
  <2>2. k \in q + 1..d + n + 1 BY <1>2, <1>4, <1>7
  <2> QED BY <2>1, <2>2
<1>9. CASE q = d + 1
  <2>1. n + 1 \in 1..Len(w) /\ n < Len(w) /\ d + (n + 1) = d + n + 1 BY <1>1, <1>2, <1>4, <1>7
  <2>2. w[n + 1] = h[d + n + 1]
    <3>1. w[n + 1] = h[d + (n + 1)] BY <1>1, <2>1, Zenon
    <3> QED BY <2>1, <3>1, Zenon
  <2>3. ~Answers(h[d + n + 1], h[q]) BY <1>3, <1>5, <1>7, <1>9, <2>1, <2>2
  <2>4. d + n + 1 \in q + 1..d + n + 1 BY <1>2, <1>4, <1>9
  <2> QED BY <2>3, <2>4
<1>10. CASE q > d + 1
  <2>1. q \in d + 2..d + n BY <1>2, <1>4, <1>10
  <2> QED BY <1>6, <1>7, <2>1
<1> QED BY <1>2, <1>4, <1>8, <1>9, <1>10

LEMMA NextCompact == CompactInv /\ [Next]_vars => CompactInv'
<1> SUFFICES ASSUME CompactInv, [Next]_vars PROVE CompactInv' OBVIOUS
<1>0. msgs \in Prompts /\ msgs \in Seq(Message) /\ dropped \in Nat
  BY PromptsAssumption DEF CompactInv
<1>1. CASE Fits
  <2>1. msgs' = msgs /\ dropped' = dropped /\ pc' = "done" /\ out' = msgs BY <1>1 DEF Fits
  <2>2. dropped = 0 BY <1>1 DEF Fits, CompactInv
  <2> QED BY <1>0, <2>1, <2>2 DEF CompactInv
<1>2. CASE OverBudget
  <2>1. /\ msgs' = msgs /\ dropped' = dropped /\ pc' = "drop" /\ out' = out
        /\ mid' = HistoryOf(msgs) /\ RestOf(msgs) # <<>>
    BY <1>2, PartsOfPrompt DEF OverBudget
  <2>2. dropped = 0 BY <1>2 DEF OverBudget, CompactInv
  <2>3. HistoryOf(msgs) \in Seq(Message) /\ Len(HistoryOf(msgs)) \in Nat
    BY <1>0, <2>1, ShapeOfPrompt
  <2>4. HistoryOf(msgs) = Without(msgs, 0)
    <3> DEFINE h == HistoryOf(msgs)
    <3> HIDE DEF h
    <3>1. h \in Seq(Message) => h = SubSeq(h, 1, Len(h)) OBVIOUS
    <3> QED BY <2>3, <3>1 DEF Without, h
  <2>5. NoCut(msgs, 0) BY DEF NoCut
  <2> QED BY <1>0, <2>1, <2>2, <2>3, <2>4, <2>5 DEF CompactInv
<1>3. CASE DropBlock
  <2> DEFINE n == BlockLen(mid)
  <2>1. /\ msgs' = msgs /\ dropped' = dropped + n /\ pc = "drop" /\ pc' = "drop" /\ out' = out
        /\ mid' = SubSeq(mid, n + 1, Len(mid))
        /\ Tokens(SquashOf(msgs, mid)) > MaxTokens /\ Len(mid) > MinTail
    BY <1>3, PartsOfPrompt DEF DropBlock, KeepDropping
  <2>2. /\ RestOf(msgs) # <<>> /\ dropped <= Len(HistoryOf(msgs))
        /\ mid = Without(msgs, dropped) /\ NoCut(msgs, dropped)
        /\ dropped > 0 => Needed(msgs, dropped)
    BY <2>1 DEF CompactInv
  <2>3. Len(HistoryOf(msgs)) \in Nat /\ dropped \in 0..Len(HistoryOf(msgs))
    BY <1>0, <2>2, ShapeOfPrompt
  <2>4. mid \in Seq(Message) BY <1>0, <2>2, <2>3, WithoutFacts
  <2>5. mid # <<>>
    <3>1. MinTail \in Nat BY OptionsAssumption DEF MinTail
    <3> QED BY <2>1, <2>4, <3>1
  <2>6. n \in 1..Len(mid) BY <2>4, <2>5, BlockLenFacts
  <2> HIDE DEF n
  <2>7. dropped + n \in 1..Len(HistoryOf(msgs)) /\ mid' = Without(msgs, dropped + n)
    BY <1>0, <2>1, <2>2, <2>3, <2>6, WithoutMore
  <2>8. NoCut(msgs, dropped + n) BY <1>0, <2>2, <2>3, <2>5, NoCutMore DEF n
  <2>9. Needed(msgs, dropped + n) BY <1>0, <2>1, <2>2, <2>3, <2>5, LastBlockMore DEF n
  <2>10. dropped + n \in Nat /\ dropped + n <= Len(HistoryOf(msgs)) BY <2>3, <2>7
  <2> QED BY <1>0, <2>1, <2>2, <2>7, <2>8, <2>9, <2>10 DEF CompactInv
<1>4. CASE Finish
  <2>1. /\ msgs' = msgs /\ dropped' = dropped /\ pc = "drop" /\ pc' = "done"
        /\ out' = IF dropped = 0 THEN msgs ELSE Result
    BY <1>4 DEF Finish
  <2>2. /\ RestOf(msgs) # <<>> /\ dropped <= Len(HistoryOf(msgs))
        /\ mid = Without(msgs, dropped) /\ NoCut(msgs, dropped)
        /\ dropped > 0 => Needed(msgs, dropped)
    BY <2>1 DEF CompactInv
  <2>3. Len(HistoryOf(msgs)) \in Nat BY <1>0, <2>2, ShapeOfPrompt
  <2>4. Result = Kept(msgs, dropped) BY <2>2, PartsOfPrompt DEF Result, Kept
  <2>5. out' # msgs => dropped \in 1..Len(HistoryOf(msgs)) BY <1>0, <2>1, <2>2, <2>3
  <2> QED BY <1>0, <2>1, <2>2, <2>4, <2>5 DEF CompactInv
<1>5. CASE UNCHANGED vars BY <1>5 DEF vars, CompactInv
<1> QED BY <1>1, <1>2, <1>3, <1>4, <1>5 DEF Next

LEMMA CompactInvariant == Spec => []CompactInv
BY InitCompact, NextCompact, PTL DEF Spec

\* Whatever the prompt and the limits, what is returned is the prefix, the
\* newest part of the history and the last message (MaybeCompact).
THEOREM KeepsNewestAlways == Spec => []KeepsNewest
<1>1. CompactInv => KeepsNewest
  <2> SUFFICES ASSUME CompactInv, pc = "done", out # msgs
               PROVE  /\ out = prefix \o <<Notice>> \o SubSeq(history, dropped + 1, Len(history)) \o <<last>>
                      /\ dropped > 0
    BY DEF KeepsNewest
  <2>1. out = Kept(msgs, dropped) /\ dropped \in 1..Len(HistoryOf(msgs)) /\ dropped \in Nat BY DEF CompactInv
  <2> QED BY <2>1, PartsOfPrompt DEF Kept, Without
<1> QED BY <1>1, CompactInvariant, PTL

\* No block is dropped that the budget and the tail rule did not call for
\* (the loop of MaybeCompact).
THEOREM DropsOnlyNeededAlways == Spec => []DropsOnlyNeeded
<1>1. CompactInv => DropsOnlyNeeded
  <2>1. CompactInv /\ pc = "done" /\ dropped > 0 => Needed(msgs, dropped) BY DEF CompactInv
  <2> QED BY <2>1, PartsOfPrompt DEF DropsOnlyNeeded, Needed, Back, LastBlock, Latest, Starts
<1> QED BY <1>1, CompactInvariant, PTL

\* When the prompt holds whole rounds and ends with the user's message, no tool
\* result is returned without its reply, unless the ids of its round were empty
\* (consumeBlockFromFront).
THEOREM WholeRoundsAlways ==
  ASSUME \A m \in Prompts : WellFormed(m)
  PROVE  Spec => []WholeRounds
<1>1. ASSUME CompactInv PROVE WholeRounds
  <2> DEFINE p == PrefixLen(msgs)
             h == HistoryOf(msgs)
             d == dropped
  <2> SUFFICES ASSUME pc = "done", out # msgs,
                      NEW i \in 1..Len(out), out[i].role = "tool",
                      NEW j \in 1..Len(msgs), ReplyTo(msgs, i - 1 + d, j), NoId \notin msgs[j].calls
               PROVE  \E k \in 1..Len(out) : ReplyTo(out, i, k)
    BY DEF WholeRounds
  <2>1. /\ RestOf(msgs) # <<>> /\ d \in 1..Len(h) /\ out = Kept(msgs, d) /\ NoCut(msgs, d)
        /\ msgs \in Seq(Message) /\ msgs \in Prompts
    BY <1>1, PromptsAssumption DEF CompactInv
  <2>2. /\ p \in Nat /\ Len(msgs) = p + Len(h) + 1 /\ Len(h) \in Nat
        /\ \A k \in 1..Len(h) : h[k] = msgs[p + k]
    BY <2>1, ShapeOfPrompt
  <2>3. \A k \in 1..p : msgs[k].role = "system" BY <2>1, PrefixLenFacts
  <2>4. d \in 0..Len(h) /\ d \in Nat /\ d <= Len(h) BY <2>1, <2>2
  <2>5. /\ Len(out) = Len(msgs) - d + 1
        /\ \A k \in 1..p + 1 : out[k].role = "system"
        /\ \A k \in p + 2..Len(out) : out[k] = msgs[k - 1 + d]
    BY <2>1, <2>4, KeptFacts
  <2>6. WellFormed(msgs) BY <2>1
  <2> DEFINE q == i - 1 + d
  <2> HIDE DEF p, h, d
  <2>7. i \in p + 2..Len(out) /\ i \in Nat /\ Len(out) \in Nat
    <3>1. i \notin 1..p + 1 BY <2>5
    <3>2. Len(out) \in Nat BY <2>2, <2>4, <2>5
    <3> QED BY <2>2, <3>1, <3>2
  <2>8. q \in 1..Len(msgs) /\ q > p + d /\ q \in Nat BY <2>2, <2>4, <2>5, <2>7
  <2>9. out[i] = msgs[q] BY <2>5, <2>7
  <2>10. /\ j < q /\ msgs[j].role = "assistant" /\ msgs[q].id \in msgs[j].calls
         /\ \A k \in (j + 1)..(q - 1) : msgs[k].role = "tool"
    BY DEF ReplyTo, d
  <2>11. msgs[q].role = "tool" BY <2>9
  <2>12. \A k \in (j + 1)..(q - 1) : msgs[k].id \in msgs[j].calls
    BY <2>6, <2>8, <2>11 DEF WellFormed, d
  <2>13. \A k \in (j + 1)..q : Answers(msgs[k], msgs[j])
    <3>1. \A k \in (j + 1)..q : k = q \/ k \in (j + 1)..(q - 1) BY <2>8
    <3> QED BY <2>10, <2>11, <2>12, <3>1 DEF Answers
  <2>14. j \in Nat /\ j > p BY <2>2, <2>3, <2>10
  <2> HIDE DEF q
  <2>15. CASE j <= p + d
    <3>1. q < Len(msgs)
      <4>1. q # Len(msgs)
        <5>1. msgs # <<>> /\ msgs[Len(msgs)].role # "tool" BY <2>6, <2>8, <2>1 DEF WellFormed
        <5> QED BY <2>11, <5>1
      <4> QED BY <2>2, <2>8, <4>1
    <3>2. d < Len(h) BY <2>2, <2>4, <2>8, <3>1
    <3>3. j - p \in 1..d /\ p + (j - p) = j /\ j - p \in 1..Len(h) BY <2>2, <2>4, <2>14, <2>15
    <3>4. h[j - p] = msgs[j] BY <2>2, <3>3
    <3>5. PICK k \in j - p + 1..d + 1 : ~Answers(h[k], h[j - p])
      BY <2>1, <2>10, <3>2, <3>3, <3>4 DEF NoCut, h
    <3>6. k \in 1..Len(h) /\ p + k \in (j + 1)..q
      <4>1. p \in Nat /\ d \in Nat /\ q \in Nat /\ j \in Nat /\ Len(h) \in Nat BY <2>2, <2>4, <2>8, <2>14
      <4>2. j > p /\ q > p + d /\ d < Len(h) BY <2>8, <2>14, <3>2
      <4>3. k \in Int /\ j - p + 1 <= k /\ k <= d + 1 BY <4>1, <3>5
      <4>4. 1 <= k /\ k <= Len(h) BY <4>1, <4>2, <4>3
      <4>5. j + 1 <= p + k /\ p + k <= q BY <4>1, <4>2, <4>3
      <4> QED BY <4>1, <4>3, <4>4, <4>5
    <3>7. h[k] = msgs[p + k] BY <2>2, <3>6
    <3> QED BY <2>13, <3>4, <3>5, <3>6, <3>7
  <2>16. CASE j > p + d
    <3> DEFINE t == j + 1 - d
    <3>1. t \in p + 2..Len(out) /\ t \in 1..Len(out) /\ t < i /\ t - 1 + d = j
      BY <2>2, <2>4, <2>5, <2>7, <2>8, <2>10, <2>14, <2>16 DEF q
    <3>2. t \in Nat BY <3>1, <2>2, <2>7
    <3> HIDE DEF t
    <3>3. out[t] = msgs[j] BY <2>5, <3>1
    <3>4. ASSUME NEW k \in (t + 1)..(i - 1) PROVE out[k].role = "tool"
      <4>1. k \in p + 2..Len(out) /\ k - 1 + d \in (j + 1)..(q - 1)
        BY <2>2, <2>4, <2>7, <2>14, <3>1, <3>2 DEF q
      <4> QED BY <2>5, <2>10, <4>1
    <3>5. ReplyTo(out, i, t) BY <2>9, <2>10, <3>1, <3>3, <3>4 DEF ReplyTo
    <3> QED BY <3>1, <3>5
  <2> QED BY <2>2, <2>4, <2>14, <2>15, <2>16
<1> QED BY <1>1, CompactInvariant, PTL
-------------------------------------------------------------------------------
(***************************************************************************)
(* BudgetOrTail needs what Tokens computes: the recursive function has a   *)
(* value for every prompt, and a message more adds its tokens.  Each fact  *)
(* is by the least place where it would fail.                              *)
(***************************************************************************)
RunningSum(s, f) ==
  f \in [0..Len(s) -> Nat] /\ f[0] = 0 /\ \A i \in 1..Len(s) : f[i] = f[i - 1] + s[i].tokens

LEMMA SumUpTo ==
  ASSUME NEW s \in Seq(Message), NEW n \in 0..Len(s)
  PROVE  \E f \in [0..n -> Nat] : f[0] = 0 /\ \A i \in 1..n : f[i] = f[i - 1] + s[i].tokens
<1> DEFINE P(k, f) == /\ f \in [0..k -> Nat] /\ f[0] = 0
                      /\ \A i \in 1..k : f[i] = f[i - 1] + s[i].tokens
           Bad == {k \in 0..Len(s) : ~\E f : P(k, f)}
<1>0. Len(s) \in Nat OBVIOUS
<1>1. ASSUME Bad # {} PROVE FALSE
  <2>1. Bad \subseteq Nat BY <1>0
  <2>2. PICK k \in Bad : \A l \in Bad : k <= l
    <3> HIDE DEF Bad
    <3> QED BY <1>1, <2>1, LeastOf
  <2>3. k \in 0..Len(s) /\ k \in Nat /\ ~\E f : P(k, f) BY <1>0
  <2>4. k # 0
    <3>1. P(0, [i \in 0..0 |-> 0]) OBVIOUS
    <3> QED BY <2>3, <3>1
  <2>5. k - 1 \in 0..Len(s) /\ ~(k <= k - 1) BY <1>0, <2>3, <2>4
  <2>6. k - 1 \notin Bad BY <2>2, <2>5
  <2>7. PICK f : P(k - 1, f) BY <2>5, <2>6
  <2> DEFINE g == [i \in 0..k |-> IF i = k THEN f[k - 1] + s[k].tokens ELSE f[i]]
  <2>8. s[k].tokens \in Nat /\ f[k - 1] \in Nat
    <3>1. k \in 1..Len(s) BY <2>3, <2>4
    <3>2. s[k] \in Message BY <3>1
    <3> QED BY <2>3, <2>4, <2>7, <3>2 DEF Message
  <2>9. g \in [0..k -> Nat] BY <2>3, <2>4, <2>7, <2>8
  <2>10. g[0] = 0 /\ g[k] = f[k - 1] + s[k].tokens /\ \A i \in 0..k - 1 : g[i] = f[i]
    BY <2>3, <2>4, <2>7
  <2>11. ASSUME NEW i \in 1..k PROVE g[i] = g[i - 1] + s[i].tokens
    <3>1. i - 1 \in 0..k - 1 /\ (i = k \/ (i \in 0..k - 1 /\ i \in 1..k - 1)) BY <2>3, <2>4
    <3> HIDE DEF g
    <3>2. CASE i = k BY <2>10, <3>1, <3>2
    <3>3. CASE i \in 1..k - 1 BY <2>7, <2>10, <3>1, <3>3
    <3> QED BY <3>1, <3>2, <3>3
  <2> HIDE DEF g
  <2>12. P(k, g) BY <2>9, <2>10, <2>11
  <2> QED BY <2>3, <2>12
<1>2. n \notin Bad BY <1>1
<1> QED BY <1>2

LEMMA TokensSum ==
  ASSUME NEW s \in Seq(Message)
  PROVE  \E f : RunningSum(s, f) /\ Tokens(s) = f[Len(s)]
<1> DEFINE Sum(f) == f = [i \in 0..Len(s) |-> IF i = 0 THEN 0 ELSE f[i - 1] + s[i].tokens]
<1>0. Len(s) \in Nat OBVIOUS
<1>1. Tokens(s) = (CHOOSE f : Sum(f))[Len(s)] BY Zenon DEF Tokens
<1>2. PICK g : RunningSum(s, g)
  <2>1. Len(s) \in 0..Len(s) BY <1>0
  <2> QED BY <2>1, SumUpTo DEF RunningSum
<1>3. Sum(g) BY <1>0, <1>2 DEF RunningSum
<1> DEFINE f == CHOOSE f : Sum(f)
<1>4. Sum(f)
  <2> HIDE DEF Sum
  <2> QED BY <1>3
<1> HIDE DEF f
<1>5. f[0] = 0 /\ \A i \in 1..Len(s) : f[i] = f[i - 1] + s[i].tokens BY <1>0, <1>4
<1>6. ASSUME NEW i \in 0..Len(s) PROVE f[i] = g[i]
  <2> DEFINE Bad == {k \in 0..Len(s) : f[k] # g[k]}
  <2>1. ASSUME Bad # {} PROVE FALSE
    <3>1. Bad \subseteq Nat BY <1>0
    <3>2. PICK k \in Bad : \A l \in Bad : k <= l
      <4> HIDE DEF Bad
      <4> QED BY <2>1, <3>1, LeastOf
    <3>3. k # 0 BY <1>2, <1>5 DEF RunningSum
    <3>4. k - 1 \in 0..Len(s) /\ ~(k <= k - 1) /\ k \in 1..Len(s) BY <1>0, <3>3
    <3>5. k - 1 \notin Bad BY <3>2, <3>4
    <3>6. f[k - 1] = g[k - 1] BY <3>4, <3>5
    <3>7. f[k] = f[k - 1] + s[k].tokens BY <1>5, <3>4
    <3>8. g[k] = g[k - 1] + s[k].tokens BY <1>2, <3>4 DEF RunningSum
    <3> QED BY <3>6, <3>7, <3>8
  <2> QED BY <2>1
<1>7. f[Len(s)] = g[Len(s)] BY <1>0, <1>6
<1> QED BY <1>1, <1>2, <1>7 DEF f

\* A message put in between adds its tokens.
LEMMA TokensInsert ==
  ASSUME NEW a \in Seq(Message), NEW w \in Seq(Message), NEW n \in Message
  PROVE  Tokens(a \o <<n>> \o w) = Tokens(a \o w) + n.tokens
<1> DEFINE b == a \o <<n>>
           x == b \o w
           y == a \o w
           l == Len(a)
<1>1. b \in Seq(Message) /\ Len(b) = l + 1 /\ b[l + 1] = n /\ \A i \in 1..l : b[i] = a[i] OBVIOUS
<1>2. /\ y \in Seq(Message) /\ Len(y) = l + Len(w)
      /\ \A i \in 1..l : y[i] = a[i]
      /\ \A i \in 1..Len(w) : y[l + i] = w[i]
  BY ConcatFacts
<1> HIDE DEF b, l
<1>3. /\ b \o w \in Seq(Message) /\ Len(b \o w) = l + 1 + Len(w)
      /\ \A i \in 1..l + 1 : (b \o w)[i] = b[i]
      /\ \A i \in 1..Len(w) : (b \o w)[l + 1 + i] = w[i]
  <2>1. /\ b \o w \in Seq(Message) /\ Len(b \o w) = Len(b) + Len(w)
        /\ \A i \in 1..Len(b) : (b \o w)[i] = b[i]
        /\ \A i \in 1..Len(w) : (b \o w)[Len(b) + i] = w[i]
    <3>1. b \in Seq(Message) BY <1>1
    <3> QED BY <3>1, ConcatFacts
  <2>2. Len(b) = l + 1 BY <1>1
  <2> QED BY <2>1, <2>2, Zenon
<1>4. x \in Seq(Message) /\ x = b \o w BY <1>3
<1>5. l \in Nat /\ Len(w) \in Nat /\ n.tokens \in Nat BY DEF l, Message
<1> HIDE DEF x, y
<1>6. ASSUME NEW i \in 1..l PROVE x[i] = y[i]
  <2>1. i \in 1..l + 1 BY <1>5
  <2> QED BY <1>1, <1>2, <1>3, <1>4, <2>1
<1>7. x[l + 1] = n
  <2>1. l + 1 \in 1..l + 1 BY <1>5
  <2> QED BY <1>1, <1>3, <1>4, <2>1
<1>8. ASSUME NEW i \in l + 1..Len(y) PROVE x[i + 1] = y[i]
  <2>1. i - l \in 1..Len(w) /\ l + 1 + (i - l) = i + 1 /\ l + (i - l) = i BY <1>2, <1>5
  <2>2. y[l + (i - l)] = w[i - l] BY <1>2, <2>1, Zenon
  <2>3. x[l + 1 + (i - l)] = w[i - l] BY <1>3, <1>4, <2>1, Zenon
  <2> QED BY <2>1, <2>2, <2>3, Zenon
<1>9. PICK f : RunningSum(x, f) /\ Tokens(x) = f[Len(x)] BY <1>4, TokensSum
<1>10. PICK g : RunningSum(y, g) /\ Tokens(y) = g[Len(y)] BY <1>2, TokensSum
<1>11. Len(x) = Len(y) + 1 /\ Len(y) \in Nat /\ l <= Len(y) /\ Len(x) \in Nat BY <1>2, <1>3, <1>4, <1>5
<1>12. /\ f[0] = 0 /\ \A i \in 1..Len(x) : f[i] = f[i - 1] + x[i].tokens
       /\ g[0] = 0 /\ \A i \in 1..Len(y) : g[i] = g[i - 1] + y[i].tokens
       /\ \A i \in 0..Len(y) : g[i] \in Nat
       /\ \A i \in 1..Len(y) : y[i].tokens \in Nat
  <2>1. \A i \in 1..Len(y) : y[i] \in Message BY <1>2
  <2> QED BY <1>9, <1>10, <2>1 DEF RunningSum, Message
<1>13. ASSUME NEW i \in 0..l PROVE f[i] = g[i]
  <2> DEFINE Bad == {k \in 0..l : f[k] # g[k]}
  <2>1. ASSUME Bad # {} PROVE FALSE
    <3>1. Bad \subseteq Nat BY <1>5
    <3>2. PICK k \in Bad : \A j \in Bad : k <= j
      <4> HIDE DEF Bad
      <4> QED BY <2>1, <3>1, LeastOf
    <3>3. k # 0 BY <1>12
    <3>4. k - 1 \in 0..l /\ ~(k <= k - 1) /\ k \in 1..l /\ k \in 1..Len(x) /\ k \in 1..Len(y)
      BY <1>5, <1>11, <3>3
    <3>5. k - 1 \notin Bad BY <3>2, <3>4
    <3>6. f[k - 1] = g[k - 1] BY <3>4, <3>5
    <3>7. f[k] = f[k - 1] + x[k].tokens /\ g[k] = g[k - 1] + y[k].tokens BY <1>12, <3>4
    <3>8. x[k] = y[k] BY <1>6, <3>4
    <3> QED BY <3>6, <3>7, <3>8
  <2> QED BY <2>1
<1>14. ASSUME NEW i \in l..Len(y) PROVE f[i + 1] = g[i] + n.tokens
  <2> DEFINE Bad == {k \in l..Len(y) : f[k + 1] # g[k] + n.tokens}
  <2>1. ASSUME Bad # {} PROVE FALSE
    <3>1. Bad \subseteq Nat BY <1>5, <1>11
    <3>2. PICK k \in Bad : \A j \in Bad : k <= j
      <4> HIDE DEF Bad
      <4> QED BY <2>1, <3>1, LeastOf
    <3>3. k # l
      <4>1. l + 1 \in 1..Len(x) /\ l + 1 - 1 = l /\ l \in 0..l BY <1>5, <1>11
      <4>2. f[l + 1] = f[l + 1 - 1] + x[l + 1].tokens BY <1>12, <4>1
      <4>3. f[l + 1] = g[l] + n.tokens BY <1>7, <1>13, <4>1, <4>2
      <4> QED BY <4>3
    <3>4. /\ k - 1 \in l..Len(y) /\ ~(k <= k - 1) /\ k \in l + 1..Len(y) /\ k + 1 \in 1..Len(x)
          /\ k \in 1..Len(y) /\ k - 1 \in 0..Len(y) /\ k + 1 - 1 = k /\ k - 1 + 1 = k
      BY <1>5, <1>11, <3>3
    <3>5. k - 1 \notin Bad BY <3>2, <3>4
    <3>6. f[k] = g[k - 1] + n.tokens BY <3>4, <3>5
    <3>7. f[k + 1] = f[k] + x[k + 1].tokens BY <1>12, <3>4
    <3>8. g[k] = g[k - 1] + y[k].tokens BY <1>12, <3>4
    <3>9. x[k + 1] = y[k] BY <1>8, <3>4
    <3>10. g[k - 1] \in Nat /\ y[k].tokens \in Nat BY <1>12, <3>4
    <3>11. f[k + 1] = g[k] + n.tokens BY <1>5, <3>6, <3>7, <3>8, <3>9, <3>10
    <3> QED BY <3>11
  <2> QED BY <2>1
<1>15. f[Len(y) + 1] = g[Len(y)] + n.tokens BY <1>11, <1>14
<1>16. Tokens(x) = Tokens(y) + n.tokens BY <1>9, <1>10, <1>11, <1>15
<1> QED BY <1>16 DEF x, y, b

\* With nothing dropped the prompt is put together again as it was.
LEMMA SquashAll ==
  ASSUME NEW m \in Seq(Message), RestOf(m) # <<>>
  PROVE  SquashOf(m, HistoryOf(m)) = m
<1> DEFINE p == PrefixLen(m)
           h == HistoryOf(m)
           a == SubSeq(m, 1, p)
           z == LastOf(m)
           b == a \o h
           x == b \o <<z>>
<1>1. /\ p \in Nat /\ Len(m) = p + Len(h) + 1 /\ h \in Seq(Message) /\ Len(h) \in Nat
      /\ \A i \in 1..Len(h) : h[i] = m[p + i]
      /\ z = m[Len(m)] /\ z \in Message
  BY ShapeOfPrompt
<1>2. p \in 0..Len(m) BY PrefixLenFacts
<1>3. a \in Seq(Message) /\ Len(a) = p /\ \A i \in 1..p : a[i] = m[i] BY <1>2
<1>4. SquashOf(m, h) = x BY DEF SquashOf
<1> HIDE DEF p, h, a, z
<1>5. /\ b \in Seq(Message) /\ Len(b) = p + Len(h)
      /\ \A i \in 1..p : b[i] = a[i]
      /\ \A i \in 1..Len(h) : b[p + i] = h[i]
  <2>1. /\ a \o h \in Seq(Message) /\ Len(a \o h) = Len(a) + Len(h)
        /\ \A i \in 1..Len(a) : (a \o h)[i] = a[i]
        /\ \A i \in 1..Len(h) : (a \o h)[Len(a) + i] = h[i]
    <3>1. a \in Seq(Message) /\ h \in Seq(Message) BY <1>1, <1>3
    <3> QED BY <3>1, ConcatFacts
  <2>2. Len(a) = p BY <1>3
  <2> QED BY <2>1, <2>2, Zenon
<1> HIDE DEF b
<1>6. x \in Seq(Message) /\ Len(x) = Len(b) + 1 /\ x[Len(b) + 1] = z /\ \A i \in 1..Len(b) : x[i] = b[i]
  <2>1. b \in Seq(Message) /\ z \in Message BY <1>1, <1>5
  <2> QED BY <2>1
<1>7. Len(x) = Len(m) /\ Len(b) \in Nat /\ Len(b) + 1 = Len(m) BY <1>1, <1>5, <1>6
<1> HIDE DEF x
<1>8. ASSUME NEW i \in 1..Len(x) PROVE x[i] = m[i]
  <2>1. i \in 1..p \/ i - p \in 1..Len(h) \/ i = Len(m) BY <1>1, <1>7
  <2>2. CASE i \in 1..p
    <3>1. i \in 1..Len(b) BY <1>1, <1>5, <2>2
    <3> QED BY <1>3, <1>5, <1>6, <2>2, <3>1
  <2>3. CASE i - p \in 1..Len(h)
    <3>1. p + (i - p) = i /\ i \in 1..Len(b) BY <1>1, <1>5, <1>7, <2>3
    <3>2. b[p + (i - p)] = h[i - p] BY <1>5, <2>3, Zenon
    <3>3. h[i - p] = m[p + (i - p)] BY <1>1, <2>3, Zenon
    <3>4. x[i] = b[i] BY <1>6, <3>1
    <3> QED BY <3>1, <3>2, <3>3, <3>4
  <2>4. CASE i = Len(m) BY <1>1, <1>6, <1>7, <2>4
  <2> QED BY <2>1, <2>2, <2>3, <2>4
<1>9. x = m BY <1>6, <1>7, <1>8, SeqEqual
<1> QED BY <1>4, <1>9 DEF h

\* The notice is all that the returned prompt has beyond what the loop measured.
LEMMA KeptTokens ==
  ASSUME NEW m \in Seq(Message), RestOf(m) # <<>>, NEW d \in 0..Len(HistoryOf(m))
  PROVE  Tokens(Kept(m, d)) = Tokens(SquashOf(m, Without(m, d))) + NoticeTokens
<1> DEFINE a == SubSeq(m, 1, PrefixLen(m))
           w == Without(m, d)
           z == LastOf(m)
<1>1. a \in Seq(Message)
  <2>1. PrefixLen(m) \in 0..Len(m) BY PrefixLenFacts
  <2> QED BY <2>1
<1>2. w \in Seq(Message) BY WithoutFacts
<1>3. z \in Message BY ShapeOfPrompt
<1>4. Notice \in Message /\ Notice.tokens = NoticeTokens BY NoticeAssumption DEF Notice, Message
<1>5. /\ Kept(m, d) = a \o <<Notice>> \o w \o <<z>> /\ SquashOf(m, w) = a \o w \o <<z>>
  BY DEF Kept, SquashOf
<1> HIDE DEF a, w, z
<1>6. <<z>> \in Seq(Message) /\ w \o <<z>> \in Seq(Message) /\ a \o <<Notice>> \in Seq(Message)
  BY <1>1, <1>2, <1>3, <1>4
<1>7. a \o <<Notice>> \o w \o <<z>> = a \o <<Notice>> \o (w \o <<z>>)
  BY <1>2, <1>6, ConcatAssociative
<1>8. a \o w \o <<z>> = a \o (w \o <<z>>) BY <1>1, <1>2, <1>6, ConcatAssociative
<1>9. Tokens(a \o <<Notice>> \o (w \o <<z>>)) = Tokens(a \o (w \o <<z>>)) + NoticeTokens
  BY <1>1, <1>4, <1>6, TokensInsert
<1> QED BY <1>5, <1>7, <1>8, <1>9 DEF w

\* What is returned was measured against the budget, or the tail rule applies.
BudgetInv ==
  pc = "done" =>
    IF out = msgs
    THEN Tokens(msgs) <= MaxTokens \/ RestOf(msgs) = <<>> \/ Len(HistoryOf(msgs)) <= MinTail
    ELSE LET w == Without(msgs, dropped)
         IN Tokens(SquashOf(msgs, w)) <= MaxTokens \/ Len(w) <= MinTail

LEMMA NextBudget == CompactInv /\ BudgetInv /\ [Next]_vars => BudgetInv'
<1> SUFFICES ASSUME CompactInv, BudgetInv, [Next]_vars PROVE BudgetInv' OBVIOUS
<1>0. msgs \in Seq(Message) /\ MaxTokens \in Nat /\ MinTail \in Nat
  BY PromptsAssumption, OptionsAssumption DEF CompactInv, MaxTokens, MinTail
<1>1. CASE Fits
  <2>1. msgs' = msgs /\ out' = msgs /\ (Tokens(msgs) <= MaxTokens \/ RestOf(msgs) = <<>>)
    BY <1>1, PartsOfPrompt DEF Fits
  <2> QED BY <2>1 DEF BudgetInv
<1>2. CASE OverBudget BY <1>2 DEF OverBudget, BudgetInv
<1>3. CASE DropBlock BY <1>3 DEF DropBlock, BudgetInv
<1>4. CASE Finish
  <2>1. /\ msgs' = msgs /\ dropped' = dropped /\ pc = "drop"
        /\ out' = IF dropped = 0 THEN msgs ELSE Result
        /\ ~(Tokens(SquashOf(msgs, mid)) > MaxTokens /\ Len(mid) > MinTail)
    BY <1>4, PartsOfPrompt DEF Finish, KeepDropping
  <2>2. /\ RestOf(msgs) # <<>> /\ dropped <= Len(HistoryOf(msgs)) /\ dropped \in Nat
        /\ mid = Without(msgs, dropped)
    BY <2>1 DEF CompactInv
  <2>3. HistoryOf(msgs) \in Seq(Message) /\ Len(HistoryOf(msgs)) \in Nat
    BY <1>0, <2>2, ShapeOfPrompt
  <2>4. dropped \in 0..Len(HistoryOf(msgs)) BY <2>2, <2>3
  <2>5. Tokens(SquashOf(msgs, mid)) <= MaxTokens \/ Len(mid) <= MinTail
    <3>1. mid \in Seq(Message) BY <1>0, <2>2, <2>4, WithoutFacts
    <3>2. SquashOf(msgs, mid) \in Seq(Message)
      <4>1. PrefixLen(msgs) \in 0..Len(msgs) BY <1>0, PrefixLenFacts
      <4>2. SubSeq(msgs, 1, PrefixLen(msgs)) \in Seq(Message) BY <1>0, <4>1
      <4>3. <<LastOf(msgs)>> \in Seq(Message) BY <1>0, <2>2, ShapeOfPrompt
      <4> QED BY <3>1, <4>2, <4>3, ConcatFacts DEF SquashOf
    <3>3. Tokens(SquashOf(msgs, mid)) \in Nat
      <4> DEFINE s == SquashOf(msgs, mid)
      <4> HIDE DEF s
      <4>1. s \in Seq(Message) => Tokens(s) \in Nat BY TokensSum DEF RunningSum
      <4> QED BY <3>2, <4>1 DEF s
    <3> QED BY <1>0, <2>1, <3>1, <3>3
  <2>6. CASE dropped = 0
    <3>1. mid = HistoryOf(msgs)
      <4> DEFINE h == HistoryOf(msgs)
      <4> HIDE DEF h
      <4>1. h \in Seq(Message) => h = SubSeq(h, 1, Len(h)) OBVIOUS
      <4> QED BY <2>2, <2>3, <2>6, <4>1 DEF Without, h
    <3>2. SquashOf(msgs, mid) = msgs BY <1>0, <2>2, <3>1, SquashAll
    <3> QED BY <2>1, <2>5, <2>6, <3>1, <3>2 DEF BudgetInv
  <2>7. CASE dropped # 0
    <3>1. out' = Kept(msgs, dropped) BY <2>1, <2>2, <2>7, PartsOfPrompt DEF Result, Kept
    <3>2. out' # msgs
      <4>1. PrefixLen(msgs) + 1 \in 1..PrefixLen(msgs) + 1 /\ PrefixLen(msgs) < Len(msgs)
        BY <1>0, <2>2, <2>3, ShapeOfPrompt
      <4>2. msgs[PrefixLen(msgs) + 1].role # "system" BY <1>0, <4>1, PrefixLenFacts
      <4>3. Kept(msgs, dropped)[PrefixLen(msgs) + 1].role = "system"
        BY <1>0, <2>2, <2>4, <4>1, KeptFacts
      <4> QED BY <3>1, <4>2, <4>3
    <3> QED BY <2>1, <2>2, <2>5, <3>2 DEF BudgetInv
  <2> QED BY <2>6, <2>7
<1>5. CASE UNCHANGED vars BY <1>5 DEF vars, BudgetInv
<1> QED BY <1>1, <1>2, <1>3, <1>4, <1>5 DEF Next

\* Whatever the prompt and the limits, the returned prompt is within the budget,
\* the notice aside, or no longer than the tail rule forbids to cut (MaybeCompact).
THEOREM BudgetOrTailAlways == Spec => []BudgetOrTail
<1>1. Init => BudgetInv BY DEF Init, BudgetInv
<1>2. ASSUME CompactInv, BudgetInv PROVE BudgetOrTail
  <2> SUFFICES ASSUME pc = "done"
               PROVE  LET notice == IF out = msgs THEN 0 ELSE 1
                      IN \/ Tokens(out) <= MaxTokens + notice * NoticeTokens
                         \/ Len(out) - PrefixLen(msgs) - 1 - notice <= MinTail
    BY DEF BudgetOrTail
  <2>0. msgs \in Seq(Message) /\ MaxTokens \in Nat /\ MinTail \in Nat /\ NoticeTokens \in Nat
    BY <1>2, PromptsAssumption, OptionsAssumption, NoticeAssumption DEF CompactInv, MaxTokens, MinTail
  <2>1. PrefixLen(msgs) \in 0..Len(msgs) /\ Len(msgs) \in Nat BY <2>0, PrefixLenFacts
  <2>2. CASE out = msgs
    <3>1. Tokens(msgs) <= MaxTokens \/ RestOf(msgs) = <<>> \/ Len(HistoryOf(msgs)) <= MinTail
      BY <1>2, <2>2 DEF BudgetInv
    <3>2. CASE Tokens(msgs) <= MaxTokens BY <2>0, <2>2, <3>2
    <3>3. CASE RestOf(msgs) = <<>>
      <4>1. Len(RestOf(msgs)) = Len(msgs) - PrefixLen(msgs)
        BY <2>0, <2>1, SubSeqFrom DEF RestOf
      <4>2. Len(msgs) = PrefixLen(msgs) BY <2>1, <3>3, <4>1
      <4> QED BY <2>0, <2>1, <2>2, <4>2
    <3>4. CASE RestOf(msgs) # <<>> /\ Len(HistoryOf(msgs)) <= MinTail
      <4>1. Len(msgs) = PrefixLen(msgs) + Len(HistoryOf(msgs)) + 1 /\ Len(HistoryOf(msgs)) \in Nat
        BY <2>0, <3>4, ShapeOfPrompt
      <4> QED BY <2>0, <2>1, <2>2, <3>4, <4>1
    <3> QED BY <3>1, <3>2, <3>3, <3>4
  <2>3. CASE out # msgs
    <3> DEFINE w == Without(msgs, dropped)
    <3>1. /\ RestOf(msgs) # <<>> /\ dropped \in 1..Len(HistoryOf(msgs)) /\ out = Kept(msgs, dropped)
          /\ Tokens(SquashOf(msgs, w)) <= MaxTokens \/ Len(w) <= MinTail
      BY <1>2, <2>3 DEF CompactInv, BudgetInv
    <3>2. /\ Len(msgs) = PrefixLen(msgs) + Len(HistoryOf(msgs)) + 1
          /\ Len(HistoryOf(msgs)) \in Nat /\ dropped \in 0..Len(HistoryOf(msgs)) /\ dropped \in Nat
      BY <2>0, <3>1, ShapeOfPrompt
    <3>3. Len(w) = Len(HistoryOf(msgs)) - dropped BY <2>0, <3>1, <3>2, WithoutFacts
    <3>4. Tokens(out) = Tokens(SquashOf(msgs, w)) + NoticeTokens BY <2>0, <3>1, <3>2, KeptTokens
    <3>5. Len(out) = Len(msgs) - dropped + 1 BY <2>0, <3>1, <3>2, KeptFacts
    <3>6. Tokens(SquashOf(msgs, w)) \in Nat
      <4>1. SquashOf(msgs, w) \in Seq(Message)
        <5>1. SubSeq(msgs, 1, PrefixLen(msgs)) \in Seq(Message) BY <2>0, <2>1
        <5>2. <<LastOf(msgs)>> \in Seq(Message) BY <2>0, <3>1, ShapeOfPrompt
        <5>3. w \in Seq(Message) BY <2>0, <3>1, <3>2, WithoutFacts
        <5> HIDE DEF w
        <5> QED BY <5>1, <5>2, <5>3, ConcatFacts DEF SquashOf
      <4> DEFINE s == SquashOf(msgs, w)
      <4> HIDE DEF s
      <4>2. s \in Seq(Message) => Tokens(s) \in Nat BY TokensSum DEF RunningSum
      <4> QED BY <4>1, <4>2 DEF s
    <3> HIDE DEF w
    <3>7. CASE Tokens(SquashOf(msgs, w)) <= MaxTokens BY <2>0, <2>3, <3>4, <3>6, <3>7
    <3>8. CASE Len(w) <= MinTail
      <4>1. Len(out) - PrefixLen(msgs) - 1 - 1 = Len(w)
        <5> DEFINE a == PrefixLen(msgs)
                   b == Len(HistoryOf(msgs))
        <5>1. a \in Nat /\ b \in Nat /\ dropped \in Nat BY <2>1, <3>2
        <5>2. Len(out) = Len(msgs) - dropped + 1 /\ Len(msgs) = a + b + 1 BY <3>2, <3>5
        <5>3. Len(w) = b - dropped BY <3>3
        <5> HIDE DEF a, b
        <5>4. Len(out) - a - 1 - 1 = Len(w) BY <5>1, <5>2, <5>3
        <5> QED BY <5>4 DEF a
      <4> QED BY <2>3, <3>8, <4>1
    <3> QED BY <3>1, <3>7, <3>8
  <2> QED BY <2>2, <2>3
<1> QED BY <1>1, <1>2, NextBudget, CompactInvariant, PTL DEF Spec
-------------------------------------------------------------------------------
(***************************************************************************)
(* ThinkingSplit.  The reference reads a text from the left; Reading says  *)
(* that f[i][b] is what is read from place i on in mode b.                 *)
(***************************************************************************)
Sides == [text : Seq(Chars), thinking : Seq(Chars)]

\* o1 before o2 on both sides.
Cat(o1, o2) == [text |-> o1.text \o o2.text, thinking |-> o1.thinking \o o2.thinking]

Reading(s, f) ==
  /\ f \in [1..Len(s) + 1 -> [BOOLEAN -> Sides]]
  /\ \A b \in BOOLEAN : f[Len(s) + 1][b] = Nothing
  /\ \A i \in 1..Len(s), b \in BOOLEAN : f[i][b] = ReadAt(s, f, i, b)

LEMMA TagFacts ==
  ASSUME NEW b \in BOOLEAN
  PROVE  TagOf(b) \in Seq(Chars) /\ Len(TagOf(b)) \in Nat /\ Len(TagOf(b)) > 0
<1>1. TagOf(b) \in Seq(Chars) /\ TagOf(b) # <<>> BY TagsAssumption DEF TagOf
<1> HIDE DEF TagOf
<1> QED BY <1>1

LEMMA SidesFacts ==
  ASSUME NEW b \in BOOLEAN, NEW s \in Seq(Chars), NEW o \in Sides
  PROVE  Put(b, s, o) \in Sides /\ Nothing \in Sides
<1>1. o.text \in Seq(Chars) /\ o.thinking \in Seq(Chars) BY DEF Sides
<1>2. s \o o.text \in Seq(Chars) /\ s \o o.thinking \in Seq(Chars) BY <1>1, ConcatProperties
<1>3. <<>> \in Seq(Chars) OBVIOUS
<1> QED BY <1>1, <1>2, <1>3 DEF Put, Nothing, Sides

LEMMA PutPut ==
  ASSUME NEW b \in BOOLEAN, NEW s \in Seq(Chars), NEW t \in Seq(Chars), NEW o \in Sides
  PROVE  Put(b, s, Put(b, t, o)) = Put(b, s \o t, o) /\ Put(b, <<>>, o) = o
<1>1. o.text \in Seq(Chars) /\ o.thinking \in Seq(Chars)
      /\ o = [text |-> o.text, thinking |-> o.thinking]
  BY DEF Sides
<1>2. /\ (s \o t) \o o.text = s \o (t \o o.text)
      /\ (s \o t) \o o.thinking = s \o (t \o o.thinking)
  BY <1>1, ConcatAssociative
<1>3. <<>> \o o.text = o.text /\ <<>> \o o.thinking = o.thinking BY <1>1, ConcatEmptySeq
<1>4. CASE b = TRUE BY <1>1, <1>2, <1>3, <1>4 DEF Put
<1>5. CASE b = FALSE BY <1>1, <1>2, <1>3, <1>5 DEF Put
<1> QED BY <1>4, <1>5

\* Where a tag is found, in terms of its characters.
LEMMA FoundFacts ==
  ASSUME NEW s \in Seq(Chars), NEW t \in Seq(Chars), Len(t) > 0, NEW i \in Nat
  PROVE  i \in Found(s, t) <=>
           i > 0 /\ i + Len(t) <= Len(s) + 1 /\ \A k \in 1..Len(t) : s[i + k - 1] = t[k]
<1>0. Len(s) \in Nat /\ Len(t) \in Nat OBVIOUS
<1>1. i \in Found(s, t) <=>
        i \in 1..Len(s) - Len(t) + 1 /\ SubSeq(s, i, i + Len(t) - 1) = t
  BY DEF Found
<1>2. i \in 1..Len(s) - Len(t) + 1 <=> i > 0 /\ i + Len(t) <= Len(s) + 1 BY <1>0
<1>3. ASSUME i \in 1..Len(s) - Len(t) + 1
      PROVE  SubSeq(s, i, i + Len(t) - 1) = t <=> \A k \in 1..Len(t) : s[i + k - 1] = t[k]
  <2> DEFINE x == SubSeq(s, i, i + Len(t) - 1)
  <2>0. \A j \in i..i + Len(t) - 1 : s[j] \in Chars
    <3>1. \A j \in i..i + Len(t) - 1 : j \in 1..Len(s) BY <1>0, <1>3
    <3> QED BY <3>1
  <2>1. /\ x \in Seq(Chars)
        /\ Len(x) = IF i <= i + Len(t) - 1 THEN i + Len(t) - 1 - i + 1 ELSE 0
        /\ \A k \in 1..i + Len(t) - 1 - i + 1 : x[k] = s[i + k - 1]
    <3>1. i \in Int /\ i + Len(t) - 1 \in Int BY <1>0
    <3> QED BY <2>0, <3>1, SubSeqProperties
  <2>2. i <= i + Len(t) - 1 /\ i + Len(t) - 1 - i + 1 = Len(t) BY <1>0
  <2>3. Len(x) = Len(t) /\ \A k \in 1..Len(t) : x[k] = s[i + k - 1] BY <2>1, <2>2
  <2> HIDE DEF x
  <2>4. x = t <=> \A k \in 1..Len(t) : x[k] = t[k] BY <2>1, <2>3, SeqEqual
  <2> QED BY <2>3, <2>4 DEF x
<1> QED BY <1>1, <1>2, <1>3

\* The places a step of the reading goes on at.
LEMMA NextPlace ==
  ASSUME NEW s \in Seq(Chars), NEW b \in BOOLEAN, NEW i \in 1..Len(s)
  PROVE  /\ i + 1 \in 1..Len(s) + 1
         /\ i \in Found(s, TagOf(b)) => i + Len(TagOf(b)) \in i + 1..Len(s) + 1
<1>1. TagOf(b) \in Seq(Chars) /\ Len(TagOf(b)) \in Nat /\ Len(TagOf(b)) > 0 BY TagFacts
<1>2. Len(s) \in Nat /\ i \in Nat OBVIOUS
<1>3. i \in Found(s, TagOf(b)) => i + Len(TagOf(b)) <= Len(s) + 1 BY <1>1, <1>2, FoundFacts
<1> QED BY <1>1, <1>2, <1>3

\* Every text has a reading, by the last place that has none.
LEMMA ReadingExists ==
  ASSUME NEW s \in Seq(Chars)
  PROVE  \E f : Reading(s, f)
<1> DEFINE e == Len(s) + 1
           P(k, f) == /\ f \in [e - k..e -> [BOOLEAN -> Sides]]
                      /\ \A b \in BOOLEAN : f[e][b] = Nothing
                      /\ \A i \in e - k..Len(s), b \in BOOLEAN : f[i][b] = ReadAt(s, f, i, b)
           Bad == {k \in 0..Len(s) : ~\E f : P(k, f)}
<1>0. Len(s) \in Nat /\ e \in Nat OBVIOUS
<1>1. ASSUME Bad # {} PROVE FALSE
  <2>1. Bad \subseteq Nat BY <1>0
  <2>2. PICK k \in Bad : \A l \in Bad : k <= l
    <3> HIDE DEF Bad
    <3> QED BY <1>1, <2>1, LeastOf
  <2>3. k \in 0..Len(s) /\ k \in Nat /\ ~\E f : P(k, f) BY <1>0
  <2>4. k # 0
    <3> DEFINE g == [i \in e..e |-> [b \in BOOLEAN |-> Nothing]]
    <3>1. Nothing \in Sides
      <4>1. <<>> \in Seq(Chars) OBVIOUS
      <4> QED BY <4>1 DEF Nothing, Sides
    <3>2. e - 0 = e /\ e \in e..e /\ ~\E i \in e..Len(s) : TRUE BY <1>0
    <3>3. g \in [e - 0..e -> [BOOLEAN -> Sides]] /\ \A b \in BOOLEAN : g[e][b] = Nothing
      BY <3>1, <3>2
    <3>4. P(0, g) BY <3>2, <3>3
    <3> QED BY <2>3, <3>4
  <2>5. k - 1 \in 0..Len(s) /\ ~(k <= k - 1) BY <1>0, <2>3, <2>4
  <2>6. k - 1 \notin Bad BY <2>2, <2>5
  <2>7. PICK f : P(k - 1, f) BY <2>5, <2>6
  <2> DEFINE p == e - k
  <2>8. p \in 1..Len(s) /\ p \in Nat /\ e - (k - 1) = p + 1 BY <1>0, <2>3, <2>4
  <2> DEFINE g == [i \in p..e |-> IF i = p THEN [b \in BOOLEAN |-> ReadAt(s, f, p, b)] ELSE f[i]]
  <2>9. /\ f \in [p + 1..e -> [BOOLEAN -> Sides]]
        /\ \A b \in BOOLEAN : f[e][b] = Nothing
        /\ \A i \in p + 1..Len(s), b \in BOOLEAN : f[i][b] = ReadAt(s, f, i, b)
    BY <2>7, <2>8
  <2>10. ASSUME NEW b \in BOOLEAN PROVE ReadAt(s, f, p, b) \in Sides
    <3>1. p + 1 \in p + 1..e /\ (~b) \in BOOLEAN BY <1>0, <2>8
    <3>2. p \in Found(s, TagOf(b)) => p + Len(TagOf(b)) \in p + 1..e BY <2>8, NextPlace
    <3>3. s[p] \in Chars BY <2>8
    <3>4. <<s[p]>> \in Seq(Chars) BY <3>3
    <3>5. f[p + 1] \in [BOOLEAN -> Sides] BY <2>9, <3>1
    <3>6. f[p + 1][b] \in Sides BY <3>5
    <3>7. Put(b, <<s[p]>>, f[p + 1][b]) \in Sides BY <3>4, <3>6, SidesFacts
    <3>8. p \in Found(s, TagOf(b)) => f[p + Len(TagOf(b))][~b] \in Sides BY <2>9, <3>1, <3>2
    <3> QED BY <3>7, <3>8 DEF ReadAt
  <2>11. g \in [p..e -> [BOOLEAN -> Sides]]
    <3>1. [b \in BOOLEAN |-> ReadAt(s, f, p, b)] \in [BOOLEAN -> Sides] BY <2>10
    <3>2. \A i \in p..e : i = p \/ i \in p + 1..e BY <1>0, <2>8
    <3>3. \A i \in p + 1..e : f[i] \in [BOOLEAN -> Sides] BY <2>9
    <3> HIDE DEF p
    <3> QED BY <3>1, <3>2, <3>3
  <2>12. /\ \A b \in BOOLEAN : g[p][b] = ReadAt(s, f, p, b)
         /\ \A i \in p + 1..e : g[i] = f[i]
    <3>1. p \in p..e /\ \A i \in p + 1..e : i \in p..e /\ i # p BY <1>0, <2>8
    <3> QED BY <3>1
  <2> HIDE DEF g
  <2>13. \A i \in p..Len(s), b \in BOOLEAN : ReadAt(s, g, i, b) = ReadAt(s, f, i, b)
    <3> TAKE i \in p..Len(s), b \in BOOLEAN
    <3>1. i \in 1..Len(s) BY <1>0, <2>8
    <3>2. i + 1 \in p + 1..e BY <1>0, <2>8
    <3>3. i \in Found(s, TagOf(b)) => i + Len(TagOf(b)) \in p + 1..e
      <4>1. i \in Found(s, TagOf(b)) => i + Len(TagOf(b)) \in i + 1..e BY <3>1, NextPlace
      <4> QED BY <1>0, <2>8, <4>1
    <3>4. g[i + 1] = f[i + 1] BY <2>12, <3>2
    <3>5. i \in Found(s, TagOf(b)) => g[i + Len(TagOf(b))] = f[i + Len(TagOf(b))] BY <2>12, <3>3
    <3> QED BY <3>4, <3>5 DEF ReadAt
  <2>14. \A i \in p..Len(s), b \in BOOLEAN : g[i][b] = ReadAt(s, g, i, b)
    <3> TAKE i \in p..Len(s), b \in BOOLEAN
    <3>1. i = p \/ (i \in p + 1..Len(s) /\ i \in p + 1..e) BY <1>0, <2>8
    <3>2. CASE i = p BY <2>12, <2>13, <3>2
    <3>3. CASE i \in p + 1..Len(s) /\ i \in p + 1..e BY <2>9, <2>12, <2>13, <3>3
    <3> QED BY <3>1, <3>2, <3>3
  <2>15. \A b \in BOOLEAN : g[e][b] = Nothing
    <3>1. e \in p + 1..e BY <1>0, <2>8
    <3> QED BY <2>9, <2>12, <3>1
  <2>16. P(k, g) BY <2>11, <2>14, <2>15
  <2> QED BY <2>3, <2>16
<1>2. Len(s) \in 0..Len(s) BY <1>0
<1>3. PICK f : P(Len(s), f) BY <1>1, <1>2
<1>4. e - Len(s) = 1 BY <1>0
<1>5. Reading(s, f) BY <1>3, <1>4 DEF Reading
<1> QED BY <1>5

\* Demux gives what a reading has at the first place.
LEMMA DemuxReads ==
  ASSUME NEW s \in Seq(Chars), NEW g, Reading(s, g)
  PROVE  Demux(s) = g[1][FALSE]
<1> DEFINE e == Len(s) + 1
           Rec(f) == f = [i \in 1..e |-> [b \in BOOLEAN |-> IF i > Len(s) THEN Nothing ELSE ReadAt(s, f, i, b)]]
<1>0. Len(s) \in Nat /\ e \in Nat OBVIOUS
<1>1. Demux(s) = (CHOOSE f : Rec(f))[1][FALSE] BY Zenon DEF Demux, Nothing
<1>2. /\ g \in [1..e -> [BOOLEAN -> Sides]]
      /\ \A b \in BOOLEAN : g[e][b] = Nothing
      /\ \A i \in 1..Len(s), b \in BOOLEAN : g[i][b] = ReadAt(s, g, i, b)
  BY DEF Reading
<1>4. Rec(g)
  <2>1. ASSUME NEW i \in 1..e
        PROVE  g[i] = [b \in BOOLEAN |-> IF i > Len(s) THEN Nothing ELSE ReadAt(s, g, i, b)]
    <3>1. g[i] \in [BOOLEAN -> Sides] BY <1>2
    <3>2. (i = e /\ i > Len(s)) \/ (i \in 1..Len(s) /\ ~(i > Len(s))) BY <1>0
    <3>3. \A b \in BOOLEAN : g[i][b] = IF i > Len(s) THEN Nothing ELSE ReadAt(s, g, i, b)
      BY <1>2, <3>2
    <3> QED BY <3>1, <3>3
  <2> QED BY <1>2, <2>1
<1> DEFINE f == CHOOSE f : Rec(f)
<1>5. Rec(f)
  <2> HIDE DEF Rec
  <2> QED BY <1>4
<1> HIDE DEF f
<1>6. /\ \A b \in BOOLEAN : f[e][b] = Nothing
      /\ \A i \in 1..Len(s), b \in BOOLEAN : f[i][b] = ReadAt(s, f, i, b)
  <2>1. e \in 1..e /\ e > Len(s) BY <1>0
  <2>2. \A i \in 1..Len(s) : i \in 1..e /\ ~(i > Len(s)) BY <1>0
  <2>3. \A i \in 1..e :
          f[i] = [b \in BOOLEAN |-> IF i > Len(s) THEN Nothing ELSE ReadAt(s, f, i, b)]
    <3> DEFINE R(i, b) == IF i > Len(s) THEN Nothing ELSE ReadAt(s, f, i, b)
    <3>1. f = [i \in 1..e |-> [b \in BOOLEAN |-> R(i, b)]] BY <1>5
    <3> HIDE DEF R
    <3>2. \A i \in 1..e : f[i] = [b \in BOOLEAN |-> R(i, b)] BY <3>1, Zenon
    <3> QED BY <3>2 DEF R
  <2>4. \A i \in 1..e, b \in BOOLEAN :
          f[i][b] = IF i > Len(s) THEN Nothing ELSE ReadAt(s, f, i, b)
    BY <2>3
  <2>5. \A b \in BOOLEAN : f[e][b] = Nothing BY <2>1, <2>4
  <2>6. \A i \in 1..Len(s), b \in BOOLEAN : f[i][b] = ReadAt(s, f, i, b) BY <2>2, <2>4
  <2> QED BY <2>5, <2>6
<1> DEFINE Bad == {k \in 0..Len(s) : \E b \in BOOLEAN : f[e - k][b] # g[e - k][b]}
<1>7. ASSUME Bad # {} PROVE FALSE
  <2>1. Bad \subseteq Nat BY <1>0
  <2>2. PICK k \in Bad : \A l \in Bad : k <= l
    <3> HIDE DEF Bad
    <3> QED BY <1>7, <2>1, LeastOf
  <2>3. k \in 0..Len(s) /\ k \in Nat /\ \E b \in BOOLEAN : f[e - k][b] # g[e - k][b] BY <1>0
  <2>4. k # 0
    <3>1. e - 0 = e BY <1>0
    <3> QED BY <1>2, <1>6, <2>3, <3>1
  <2> DEFINE p == e - k
  <2>5. p \in 1..Len(s) /\ p \in Nat BY <1>0, <2>3, <2>4
  <2>6. ASSUME NEW j \in p + 1..e, NEW b \in BOOLEAN PROVE f[j][b] = g[j][b]
    <3>1. e - j \in 0..Len(s) /\ ~(k <= e - j) /\ e - (e - j) = j BY <1>0, <2>3, <2>5
    <3>2. e - j \notin Bad BY <2>2, <3>1
    <3>3. ~(f[e - (e - j)][b] # g[e - (e - j)][b]) BY <3>1, <3>2
    <3> QED BY <3>1, <3>3
  <2>7. ASSUME NEW b \in BOOLEAN PROVE f[p][b] = g[p][b]
    <3>1. p + 1 \in p + 1..e BY <1>0, <2>5
    <3>2. \A c \in BOOLEAN : p \in Found(s, TagOf(c)) => p + Len(TagOf(c)) \in p + 1..e
      BY <2>5, NextPlace
    <3>4. ReadAt(s, f, p, b) = ReadAt(s, g, p, b) BY <2>6, <3>1, <3>2 DEF ReadAt
    <3> QED BY <1>2, <1>6, <2>5, <3>4
  <2> QED BY <2>3, <2>7
<1>8. f[1][FALSE] = g[1][FALSE]
  <2>1. Len(s) \in 0..Len(s) /\ e - Len(s) = 1 BY <1>0
  <2>2. Len(s) \notin Bad BY <1>7
  <2>3. ~(f[e - Len(s)][FALSE] # g[e - Len(s)][FALSE]) BY <2>1, <2>2
  <2> QED BY <2>1, <2>3
<1> QED BY <1>1, <1>8 DEF f

\* Where no tag starts, the reading hands out the characters.
LEMMA Walk ==
  ASSUME NEW s \in Seq(Chars), NEW f, Reading(s, f), NEW b \in BOOLEAN,
         NEW q \in 1..Len(s) + 1, NEW p \in 1..q,
         \A i \in p..q - 1 : i \notin Found(s, TagOf(b))
  PROVE  f[p][b] = Put(b, SubSeq(s, p, q - 1), f[q][b])
<1> DEFINE o == f[q][b]
           Bad == {k \in 0..q - p : f[q - k][b] # Put(b, SubSeq(s, q - k, q - 1), o)}
<1>0. Len(s) \in Nat /\ q \in Nat /\ p \in Nat /\ p > 0 /\ p <= q /\ q <= Len(s) + 1 OBVIOUS
<1>1. o \in Sides
  <2>1. f[q] \in [BOOLEAN -> Sides] BY DEF Reading
  <2> QED BY <2>1
<1>2. \A i \in 1..Len(s) : f[i][b] = ReadAt(s, f, i, b) BY DEF Reading
<1> HIDE DEF o
<1>3. ASSUME Bad # {} PROVE FALSE
  <2>1. Bad \subseteq Nat BY <1>0
  <2>2. PICK k \in Bad : \A l \in Bad : k <= l
    <3> HIDE DEF Bad
    <3> QED BY <1>3, <2>1, LeastOf
  <2>3. k \in 0..q - p /\ k \in Nat /\ f[q - k][b] # Put(b, SubSeq(s, q - k, q - 1), o) BY <1>0
  <2>4. k # 0
    <3>1. q - 0 = q /\ q - 1 < q /\ q \in Int /\ q - 1 \in Int BY <1>0
    <3>2. SubSeq(s, q, q - 1) = <<>> BY <3>1, SubSeqEmpty
    <3>3. Put(b, <<>>, o) = o
      <4>1. <<>> \in Seq(Chars) OBVIOUS
      <4> QED BY <1>1, <4>1, PutPut
    <3> QED BY <2>3, <3>1, <3>2, <3>3 DEF o
  <2> DEFINE i == q - k
  <2>5. /\ i \in 1..Len(s) /\ i \in p..q - 1 /\ k - 1 \in 0..q - p /\ ~(k <= k - 1)
        /\ q - (k - 1) = i + 1 /\ i \in Nat
    BY <1>0, <2>3, <2>4
  <2>6. k - 1 \notin Bad BY <2>2, <2>5
  <2>7. f[i + 1][b] = Put(b, SubSeq(s, i + 1, q - 1), o) BY <2>5, <2>6
  <2>8. f[i][b] = Put(b, <<s[i]>>, f[i + 1][b]) BY <1>2, <2>5 DEF ReadAt
  <2> HIDE DEF i
  <2>9. SubSeq(s, i, q - 1) = <<s[i]>> \o SubSeq(s, i + 1, q - 1)
    <3>1. q - 1 \in i..Len(s) BY <1>0, <2>5
    <3> QED BY <2>5, <3>1, SubSeqRecursiveFirst
  <2>10. <<s[i]>> \in Seq(Chars) /\ SubSeq(s, i + 1, q - 1) \in Seq(Chars)
    <3>1. s[i] \in Chars BY <2>5
    <3>2. \A j \in i + 1..q - 1 : s[j] \in Chars
      <4>1. \A j \in i + 1..q - 1 : j \in 1..Len(s) BY <1>0, <2>5
      <4> QED BY <4>1
    <3>3. i + 1 \in Int /\ q - 1 \in Int BY <1>0, <2>5
    <3> QED BY <3>1, <3>2, <3>3, SubSeqProperties
  <2>11. f[i][b] = Put(b, SubSeq(s, i, q - 1), o)
    <3>1. Put(b, <<s[i]>>, Put(b, SubSeq(s, i + 1, q - 1), o)) = Put(b, <<s[i]>> \o SubSeq(s, i + 1, q - 1), o)
      BY <1>1, <2>10, PutPut
    <3> QED BY <2>7, <2>8, <2>9, <3>1, Zenon
  <2> QED BY <2>3, <2>11 DEF i
<1>4. q - p \in 0..q - p /\ q - (q - p) = p BY <1>0
<1>5. q - p \notin Bad BY <1>3
<1>6. ~(f[q - (q - p)][b] # Put(b, SubSeq(s, q - (q - p), q - 1), o)) BY <1>4, <1>5
<1> QED BY <1>4, <1>6 DEF o

\* A bounded, non-empty set of naturals has a greatest element.
LEMMA GreatestOf ==
  ASSUME NEW n \in Nat, NEW T, T \subseteq 0..n, T # {}
  PROVE  Max(T) \in T /\ \A y \in T : Max(T) >= y
<1> DEFINE D == {u \in 0..n : n - u \in T}
<1>1. D \subseteq Nat OBVIOUS
<1>2. D # {}
  <2>1. PICK x \in T : TRUE OBVIOUS
  <2>2. n - x \in 0..n /\ n - (n - x) = x OBVIOUS
  <2> QED BY <2>1, <2>2
<1>3. PICK u \in D : \A v \in D : u <= v
  <2> HIDE DEF D
  <2> QED BY <1>1, <1>2, LeastOf
<1>4. n - u \in T /\ u \in 0..n OBVIOUS
<1>5. ASSUME NEW y \in T PROVE n - u >= y
  <2>1. n - y \in 0..n /\ n - (n - y) = y OBVIOUS
  <2>2. n - y \in D BY <2>1
  <2>3. u <= n - y BY <1>3, <2>2
  <2> QED BY <1>4, <2>1, <2>3
<1>6. \E x \in T : \A y \in T : x >= y BY <1>4, <1>5
<1> QED BY <1>6 DEF Max

\* An end of s that begins t, in terms of characters.
LEMMA PartialFacts ==
  ASSUME NEW s \in Seq(Chars), NEW t \in Seq(Chars), NEW k \in 1..Len(t) - 1
  PROVE  k \in Partial(s, t, Len(t) - 1) <=>
           k <= Len(s) /\ \A j \in 1..k : s[Len(s) - k + j] = t[j]
<1>0. Len(s) \in Nat /\ Len(t) \in Nat /\ k \in Nat /\ k < Len(t) /\ k > 0 OBVIOUS
<1>1. k \in Partial(s, t, Len(t) - 1) <=>
        k <= Len(s) /\ IsPrefix(SubSeq(s, Len(s) - k + 1, Len(s)), t)
  BY DEF Partial
<1>2. ASSUME k <= Len(s)
      PROVE  IsPrefix(SubSeq(s, Len(s) - k + 1, Len(s)), t) <=> \A j \in 1..k : s[Len(s) - k + j] = t[j]
  <2> DEFINE x == SubSeq(s, Len(s) - k + 1, Len(s))
             y == SubSeq(t, 1, k)
  <2>1. x \in Seq(Chars) /\ Len(x) = k /\ \A j \in 1..k : x[j] = s[Len(s) - k + j]
    <3>1. \A j \in Len(s) - k + 1..Len(s) : s[j] \in Chars
      <4>1. \A j \in Len(s) - k + 1..Len(s) : j \in 1..Len(s) BY <1>0, <1>2
      <4> QED BY <4>1
    <3>2. Len(s) - k + 1 \in Int /\ Len(s) \in Int /\ Len(s) - k + 1 <= Len(s)
          /\ Len(s) - (Len(s) - k + 1) + 1 = k
      BY <1>0
    <3>3. /\ x \in Seq(Chars)
          /\ Len(x) = IF Len(s) - k + 1 <= Len(s) THEN Len(s) - (Len(s) - k + 1) + 1 ELSE 0
          /\ \A j \in 1..Len(s) - (Len(s) - k + 1) + 1 : x[j] = s[Len(s) - k + 1 + j - 1]
      BY <3>1, <3>2, SubSeqProperties
    <3>4. \A j \in 1..k : Len(s) - k + 1 + j - 1 = Len(s) - k + j BY <1>0
    <3> HIDE DEF x
    <3> QED BY <3>2, <3>3, <3>4
  <2>2. y \in Seq(Chars) /\ Len(y) = k /\ \A j \in 1..k : y[j] = t[j]
    <3>1. \A j \in 1..k : t[j] \in Chars
      <4>1. \A j \in 1..k : j \in 1..Len(t) BY <1>0
      <4> QED BY <4>1
    <3>2. 1 \in Int /\ k \in Int /\ 1 <= k /\ k - 1 + 1 = k /\ \A j \in 1..k : 1 + j - 1 = j BY <1>0
    <3>3. /\ y \in Seq(Chars) /\ Len(y) = IF 1 <= k THEN k - 1 + 1 ELSE 0
          /\ \A j \in 1..k - 1 + 1 : y[j] = t[1 + j - 1]
      BY <3>1, <3>2, SubSeqProperties
    <3> HIDE DEF y
    <3> QED BY <3>2, <3>3
  <2>3. SubSeq(x, 1, Len(x)) = x BY <2>1, SubSeqFull
  <2>4. IsPrefix(x, t) <=> x = y
    <3>1. Len(x) <= Len(t) BY <1>0, <2>1
    <3> QED BY <2>1, <2>3, <3>1 DEF IsPrefix
  <2> HIDE DEF x, y
  <2>5. x = y <=> \A j \in 1..k : x[j] = y[j] BY <2>1, <2>2, SeqEqual
  <2> QED BY <2>1, <2>2, <2>4, <2>5 DEF x
<1> QED BY <1>1, <1>2

\* partialSuffix: what is carried over is shorter than the tag and begins it, and
\* no longer end of s does.
LEMMA PartialSuffixFacts ==
  ASSUME NEW s \in Seq(Chars), NEW t \in Seq(Chars), Len(t) > 0
  PROVE  LET m == partialSuffix(s, t) IN
         /\ m \in 0..Len(t) - 1 /\ m <= Len(s) /\ \A j \in 1..m : s[Len(s) - m + j] = t[j]
         /\ \A k \in 1..Len(t) - 1 :
              k > m /\ k <= Len(s) => ~\A j \in 1..k : s[Len(s) - k + j] = t[j]
<1> DEFINE T == {0} \cup Partial(s, t, Len(t) - 1)
           m == Max(T)
<1>0. Len(s) \in Nat /\ Len(t) \in Nat /\ Len(t) - 1 \in Nat OBVIOUS
<1>1. T \subseteq 0..Len(t) - 1 /\ T # {} BY <1>0 DEF Partial
<1>2. partialSuffix(s, t) = m BY DEF partialSuffix
<1>3. m \in T /\ \A y \in T : m >= y
  <2> HIDE DEF T
  <2> QED BY <1>0, <1>1, GreatestOf
<1> HIDE DEF m
<1>4. m \in 0..Len(t) - 1 BY <1>1, <1>3
<1>5. m <= Len(s) /\ \A j \in 1..m : s[Len(s) - m + j] = t[j]
  <2>1. CASE m = 0 BY <1>0, <2>1
  <2>2. CASE m # 0
    <3>1. m \in 1..Len(t) - 1 /\ m \in Partial(s, t, Len(t) - 1) BY <1>0, <1>3, <1>4, <2>2
    <3> QED BY <3>1, PartialFacts
  <2> QED BY <2>1, <2>2
<1>6. ASSUME NEW k \in 1..Len(t) - 1, k > m, k <= Len(s), \A j \in 1..k : s[Len(s) - k + j] = t[j]
      PROVE  FALSE
  <2>1. k \in Partial(s, t, Len(t) - 1) BY <1>6, PartialFacts
  <2>2. m >= k BY <1>3, <2>1
  <2> QED BY <1>0, <1>4, <1>6, <2>2
<1> QED BY <1>2, <1>4, <1>5, <1>6

\* A slice, character by character.
LEMMA Slice ==
  ASSUME NEW s \in Seq(Chars), NEW m \in 1..Len(s) + 1, NEW n \in m - 1..Len(s)
  PROVE  /\ SubSeq(s, m, n) \in Seq(Chars) /\ Len(SubSeq(s, m, n)) = n - m + 1
         /\ \A j \in 1..n - m + 1 : SubSeq(s, m, n)[j] = s[m + j - 1]
<1>0. m \in Int /\ n \in Int /\ m > 0 /\ m - 1 <= n /\ n <= Len(s) /\ Len(s) \in Nat OBVIOUS
<1>1. \A i \in m..n : s[i] \in Chars
  <2>1. \A i \in m..n : i \in 1..Len(s) BY <1>0
  <2> QED BY <2>1
<1>2. /\ SubSeq(s, m, n) \in Seq(Chars)
      /\ Len(SubSeq(s, m, n)) = IF m <= n THEN n - m + 1 ELSE 0
      /\ \A j \in 1..n - m + 1 : SubSeq(s, m, n)[j] = s[m + j - 1]
  BY <1>0, <1>1, SubSeqProperties
<1>3. (IF m <= n THEN n - m + 1 ELSE 0) = n - m + 1 BY <1>0
<1> QED BY <1>2, <1>3

\* h is what y has from place p on.
At(h, y, p) ==
  /\ h \in Seq(Chars) /\ y \in Seq(Chars) /\ p \in Nat /\ p > 0
  /\ p + Len(h) <= Len(y) + 1 /\ \A j \in 1..Len(h) : y[p + j - 1] = h[j]

LEMMA AtFacts ==
  ASSUME NEW h, NEW y, NEW p, At(h, y, p)
  PROVE  \A n \in 0..Len(h) : SubSeq(y, p, p + n - 1) = SubSeq(h, 1, n)
<1> TAKE n \in 0..Len(h)
<1>0. h \in Seq(Chars) /\ y \in Seq(Chars) /\ p \in Nat /\ p > 0 /\ p + Len(h) <= Len(y) + 1
      /\ Len(h) \in Nat /\ Len(y) \in Nat /\ n \in Nat /\ n <= Len(h)
      /\ \A j \in 1..Len(h) : y[p + j - 1] = h[j]
  BY DEF At
<1> DEFINE u == SubSeq(y, p, p + n - 1)
           v == SubSeq(h, 1, n)
<1>1. p \in 1..Len(y) + 1 /\ p + n - 1 \in p - 1..Len(y) /\ p + n - 1 - p + 1 = n BY <1>0
<1>2. u \in Seq(Chars) /\ Len(u) = p + n - 1 - p + 1
      /\ \A j \in 1..p + n - 1 - p + 1 : u[j] = y[p + j - 1]
  BY <1>0, <1>1, Slice
<1>3. 1 \in 1..Len(h) + 1 /\ n \in 1 - 1..Len(h) /\ n - 1 + 1 = n BY <1>0
<1>4. v \in Seq(Chars) /\ Len(v) = n - 1 + 1 /\ \A j \in 1..n - 1 + 1 : v[j] = h[1 + j - 1]
  BY <1>0, <1>3, Slice
<1> HIDE DEF u, v
<1>5. \A j \in 1..n : u[j] = v[j]
  <2> TAKE j \in 1..n
  <2>1. j \in 1..Len(h) /\ 1 + j - 1 = j BY <1>0
  <2> QED BY <1>0, <1>1, <1>2, <1>3, <1>4, <2>1
<1>6. Len(u) = Len(v) /\ \A j \in 1..Len(u) : u[j] = v[j] BY <1>1, <1>2, <1>3, <1>4, <1>5
<1>7. u = v BY <1>2, <1>4, <1>6, SeqEqual
<1> QED BY <1>7 DEF u, v

\* A tag that fits into the part is found in both or in none.
LEMMA TagInPart ==
  ASSUME NEW h, NEW y, NEW p, At(h, y, p), NEW t \in Seq(Chars), Len(t) > 0,
         NEW r \in 1..Len(h), r + Len(t) <= Len(h) + 1
  PROVE  p + r - 1 \in Found(y, t) <=> r \in Found(h, t)
<1>0. h \in Seq(Chars) /\ y \in Seq(Chars) /\ p \in Nat /\ p > 0 /\ p + Len(h) <= Len(y) + 1
      /\ Len(h) \in Nat /\ Len(y) \in Nat /\ Len(t) \in Nat
  BY DEF At
<1>1. r \in Nat /\ r > 0 /\ p + r - 1 \in Nat /\ p + r - 1 > 0 BY <1>0
<1>2. \A j \in 1..Len(h) - r + 1 : h[r + j - 1] = y[p + r - 1 + j - 1]
  <2> TAKE j \in 1..Len(h) - r + 1
  <2>1. r + j - 1 \in 1..Len(h) /\ p + (r + j - 1) - 1 = p + r - 1 + j - 1 BY <1>0, <1>1
  <2>2. \A i \in 1..Len(h) : y[p + i - 1] = h[i] BY DEF At
  <2> QED BY <2>1, <2>2
<1>3. p + r - 1 \in Found(y, t) <=>
        p + r - 1 + Len(t) <= Len(y) + 1 /\ \A j \in 1..Len(t) : y[p + r - 1 + j - 1] = t[j]
  BY <1>0, <1>1, FoundFacts
<1>4. r \in Found(h, t) <=>
        r > 0 /\ r + Len(t) <= Len(h) + 1 /\ \A j \in 1..Len(t) : h[r + j - 1] = t[j]
  BY <1>0, <1>1, FoundFacts
<1>5. p + r - 1 + Len(t) <= Len(y) + 1 BY <1>0, <1>1
<1>6. \A j \in 1..Len(t) : j \in 1..Len(h) - r + 1 BY <1>0, <1>1
<1> QED BY <1>1, <1>2, <1>3, <1>4, <1>5, <1>6

\* The end of the part begins a tag that it cuts.
LEMMA TagCut ==
  ASSUME NEW h, NEW y, NEW p, At(h, y, p), NEW t \in Seq(Chars), Len(t) > 0,
         NEW r \in 1..Len(h), r + Len(t) > Len(h) + 1, p + r - 1 \in Found(y, t)
  PROVE  \A j \in 1..Len(h) - r + 1 : h[r + j - 1] = t[j]
<1>0. h \in Seq(Chars) /\ y \in Seq(Chars) /\ p \in Nat /\ p > 0 /\ Len(h) \in Nat /\ Len(t) \in Nat
  BY DEF At
<1>1. r \in Nat /\ p + r - 1 \in Nat BY <1>0
<1>2. \A j \in 1..Len(h) - r + 1 : h[r + j - 1] = y[p + r - 1 + j - 1]
  <2> TAKE j \in 1..Len(h) - r + 1
  <2>1. r + j - 1 \in 1..Len(h) /\ p + (r + j - 1) - 1 = p + r - 1 + j - 1 BY <1>0, <1>1
  <2>2. \A i \in 1..Len(h) : y[p + i - 1] = h[i] BY DEF At
  <2> QED BY <2>1, <2>2
<1>3. \A j \in 1..Len(t) : y[p + r - 1 + j - 1] = t[j] BY <1>0, <1>1, FoundFacts
<1>4. \A j \in 1..Len(h) - r + 1 : j \in 1..Len(t) BY <1>0, <1>1
<1> QED BY <1>2, <1>3, <1>4

FirstOf(i, T) == i \in T /\ \A k \in T : i <= k

\* A reading passes a part up to its first tag, and goes on behind it in the other mode.
LEMMA ReadTag ==
  ASSUME NEW h, NEW y, NEW p, At(h, y, p), NEW f, Reading(y, f), NEW b \in BOOLEAN,
         NEW i, FirstOf(i, Found(h, TagOf(b)))
  PROVE  f[p][b] = Put(b, SubSeq(h, 1, i - 1), f[p + i - 1 + Len(TagOf(b))][~b])
<1> DEFINE t == TagOf(b)
           q == p + i - 1
<1>0. h \in Seq(Chars) /\ y \in Seq(Chars) /\ p \in Nat /\ p > 0 /\ p + Len(h) <= Len(y) + 1
      /\ Len(h) \in Nat /\ Len(y) \in Nat
  BY DEF At
<1>1. t \in Seq(Chars) /\ Len(t) \in Nat /\ Len(t) > 0 BY TagFacts
<1> HIDE DEF t
<1>2. i \in Nat /\ i > 0 /\ i + Len(t) <= Len(h) + 1
  <2>1. i \in Found(h, t) BY DEF FirstOf, t
  <2>2. i \in Nat BY <1>0, <1>1, <2>1 DEF Found
  <2> QED BY <1>0, <1>1, <2>1, <2>2, FoundFacts
<1>3. i \in 1..Len(h) /\ i - 1 \in 0..Len(h) /\ p + (i - 1) - 1 = q - 1 BY <1>0, <1>1, <1>2
<1>4. q \in 1..Len(y) + 1 /\ p \in 1..q /\ q \in 1..Len(y) BY <1>0, <1>1, <1>2
<1>5. q \in Found(y, t)
  <2>1. i \in Found(h, t) BY DEF FirstOf, t
  <2> QED BY <1>1, <1>2, <1>3, <2>1, TagInPart
<1>6. ASSUME NEW l \in p..q - 1, l \in Found(y, t) PROVE FALSE
  <2> DEFINE r == l - p + 1
  <2>1. r \in 1..Len(h) /\ r + Len(t) <= Len(h) + 1 /\ p + r - 1 = l /\ ~(i <= r)
    BY <1>0, <1>1, <1>2
  <2> HIDE DEF r
  <2>2. r \in Found(h, t) BY <1>1, <1>6, <2>1, TagInPart
  <2> QED BY <2>1, <2>2 DEF t, FirstOf
<1> HIDE DEF q
<1>7. f[p][b] = Put(b, SubSeq(y, p, q - 1), f[q][b])
  <2>1. \A l \in p..q - 1 : l \notin Found(y, TagOf(b)) BY <1>6 DEF t
  <2> QED BY <1>0, <1>4, <2>1, Walk
<1>8. f[q][b] = f[q + Len(t)][~b]
  <2>1. f[q][b] = ReadAt(y, f, q, b) BY <1>4 DEF Reading
  <2> QED BY <1>5, <2>1 DEF ReadAt, t
<1>9. SubSeq(y, p, q - 1) = SubSeq(h, 1, i - 1)
  <2> DEFINE n == i - 1
  <2>0. n \in 0..Len(h) BY <1>3
  <2>1. p + n - 1 = q - 1 BY <1>0, <1>1, <1>2 DEF q
  <2> HIDE DEF n
  <2>3. SubSeq(y, p, p + n - 1) = SubSeq(h, 1, n) BY <2>0, AtFacts
  <2>4. SubSeq(y, p, q - 1) = SubSeq(h, 1, n) BY <2>1, <2>3
  <2> QED BY <2>4 DEF n
<1> QED BY <1>7, <1>8, <1>9 DEF t, q

\* A reading passes a part without a tag up to the end that may begin one.
LEMMA ReadRest ==
  ASSUME NEW h, NEW y, NEW p, At(h, y, p), NEW f, Reading(y, f), NEW b \in BOOLEAN,
         Found(h, TagOf(b)) = {}
  PROVE  LET n == Len(h) - partialSuffix(h, TagOf(b))
         IN  f[p][b] = Put(b, SubSeq(h, 1, n), f[p + n][b])
<1> DEFINE t == TagOf(b)
           m == partialSuffix(h, t)
           n == Len(h) - m
           q == p + n
<1>0. h \in Seq(Chars) /\ y \in Seq(Chars) /\ p \in Nat /\ p > 0 /\ p + Len(h) <= Len(y) + 1
      /\ Len(h) \in Nat /\ Len(y) \in Nat
  BY DEF At
<1>1. t \in Seq(Chars) /\ Len(t) \in Nat /\ Len(t) > 0 BY TagFacts
<1> HIDE DEF t
<1>2. /\ m \in 0..Len(t) - 1 /\ m <= Len(h)
      /\ \A k \in 1..Len(t) - 1 :
           k > m /\ k <= Len(h) => ~\A j \in 1..k : h[Len(h) - k + j] = t[j]
  BY <1>0, <1>1, PartialSuffixFacts
<1> HIDE DEF m
<1>3. n \in 0..Len(h) /\ q \in 1..Len(y) + 1 /\ p \in 1..q /\ m \in Nat BY <1>0, <1>1, <1>2
<1>4. ASSUME NEW l \in p..q - 1, l \in Found(y, t) PROVE FALSE
  <2> DEFINE r == l - p + 1
             k == Len(h) - r + 1
  <2>1. r \in 1..Len(h) /\ p + r - 1 = l /\ k > m /\ k <= Len(h) /\ k > 0 /\ r \in Nat /\ k \in Nat
    BY <1>0, <1>1, <1>3
  <2>2. Len(h) - k + 1 = r /\ \A j \in 1..k : Len(h) - k + j = r + j - 1 BY <1>0, <2>1
  <2> HIDE DEF r
  <2>3. ~(r + Len(t) <= Len(h) + 1)
    <3>1. r \notin Found(h, t) BY DEF t
    <3> QED BY <1>1, <1>4, <2>1, <3>1, TagInPart
  <2>4. r + Len(t) > Len(h) + 1 BY <1>0, <1>1, <2>1, <2>3
  <2>5. \A j \in 1..k : h[r + j - 1] = t[j]
    <3>1. p + r - 1 \in Found(y, t) BY <1>4, <2>1
    <3>2. \A j \in 1..Len(h) - r + 1 : h[r + j - 1] = t[j]
      <4>1. r \in 1..Len(h) BY <2>1
      <4> QED BY <1>1, <2>4, <3>1, <4>1, TagCut
    <3> QED BY <3>2
  <2>6. k \in 1..Len(t) - 1 BY <1>0, <1>1, <2>1, <2>4
  <2> HIDE DEF k
  <2>7. \A j \in 1..k : h[Len(h) - k + j] = t[j] BY <2>2, <2>5
  <2> QED BY <1>2, <2>1, <2>6, <2>7
<1>5. SubSeq(y, p, p + n - 1) = SubSeq(h, 1, n)
  <2> HIDE DEF n
  <2> QED BY <1>3, AtFacts
<1> HIDE DEF q
<1>6. f[p][b] = Put(b, SubSeq(y, p, q - 1), f[q][b])
  <2>1. \A l \in p..q - 1 : l \notin Found(y, TagOf(b)) BY <1>4 DEF t
  <2> QED BY <1>0, <1>3, <2>1, Walk
<1>7. p + n - 1 = q - 1 BY <1>0, <1>3 DEF q
<1>8. f[p][b] = Put(b, SubSeq(h, 1, n), f[q][b]) BY <1>5, <1>6, <1>7
<1> QED BY <1>8, Zenon DEF m, t, q

\* An end too short to hold a tag is read as it stands.
LEMMA ReadEnd ==
  ASSUME NEW h, NEW y, NEW p, At(h, y, p), NEW f, Reading(y, f), NEW b \in BOOLEAN,
         Len(h) < Len(TagOf(b)), p + Len(h) = Len(y) + 1
  PROVE  f[p][b] = Put(b, h, Nothing)
<1> DEFINE t == TagOf(b)
           e == Len(y) + 1
<1>0. h \in Seq(Chars) /\ y \in Seq(Chars) /\ p \in Nat /\ p > 0
      /\ Len(h) \in Nat /\ Len(y) \in Nat
  BY DEF At
<1>1. t \in Seq(Chars) /\ Len(t) \in Nat /\ Len(t) > 0 /\ Len(h) < Len(t) BY TagFacts
<1> HIDE DEF t
<1>2. e \in 1..Len(y) + 1 /\ p \in 1..e BY <1>0
<1>3. ASSUME NEW l \in p..e - 1, l \in Found(y, t) PROVE FALSE
  <2>1. l \in Nat BY <1>0
  <2>2. l + Len(t) <= Len(y) + 1 BY <1>0, <1>1, <1>3, <2>1, FoundFacts
  <2> QED BY <1>0, <1>1, <2>1, <2>2
<1>4. \A l \in p..e - 1 : l \notin Found(y, TagOf(b)) BY <1>3 DEF t
<1>5. f[p][b] = Put(b, SubSeq(y, p, e - 1), f[e][b])
  <2> HIDE DEF e
  <2> QED BY <1>0, <1>2, <1>4, Walk
<1>6. f[e][b] = Nothing BY DEF Reading
<1>7. Len(h) \in 0..Len(h) /\ p + Len(h) - 1 = e - 1 BY <1>0
<1>8. SubSeq(y, p, e - 1) = SubSeq(h, 1, Len(h))
  <2> DEFINE n == Len(h)
  <2>1. n \in 0..Len(h) /\ p + n - 1 = e - 1 BY <1>7
  <2> HIDE DEF n, e
  <2>2. SubSeq(y, p, p + n - 1) = SubSeq(h, 1, n) BY <2>1, AtFacts
  <2>3. SubSeq(y, p, e - 1) = SubSeq(h, 1, n) BY <2>1, <2>2
  <2> QED BY <2>3 DEF n
<1>9. SubSeq(h, 1, Len(h)) = h BY <1>0, SubSeqFull
<1> QED BY <1>5, <1>6, <1>8, <1>9

Extends(y, s) == Len(s) <= Len(y) /\ \A j \in 1..Len(s) : y[j] = s[j]

\* h is the end of s.
EndOf(h, s) == Len(h) <= Len(s) /\ \A j \in 1..Len(h) : h[j] = s[Len(s) - Len(h) + j]

\* However the stream s goes on, its reading is gave, which was handed out, and then
\* what is read, in mode b, from where its end h starts.
ReadSoFar(s, h, b, gave) ==
  \A y \in Seq(Chars) : Extends(y, s) =>
    \A f : Reading(y, f) => f[1][FALSE] = Cat(gave, f[Len(s) - Len(h) + 1][b])

\* h begins the tag of mode b.
Begins(h, b) == Len(h) < Len(TagOf(b)) /\ \A j \in 1..Len(h) : h[j] = TagOf(b)[j]

Given == [text |-> text, thinking |-> thinking]

SplitType ==
  /\ stream \in Seq(Chars) /\ call \in {"idle", "scan", "flushed"} /\ full \in Seq(Chars)
  /\ inThinking \in BOOLEAN /\ carry \in Seq(Chars)
  /\ thinking \in Seq(Chars) /\ text \in Seq(Chars)

ScanInv == call = "scan" => EndOf(full, stream) /\ ReadSoFar(stream, full, inThinking, Given)

IdleInv ==
  call = "idle" =>
    /\ EndOf(carry, stream) /\ Begins(carry, inThinking)
    /\ ReadSoFar(stream, carry, inThinking, Given)

FlushedInv == call = "flushed" => carry = <<>> /\ Demux(stream) = Given

SplitInv == SplitType /\ ScanInv /\ IdleInv /\ FlushedInv

\* The end of a stream in a text that extends it.
LEMMA EndAt ==
  ASSUME NEW s \in Seq(Chars), NEW h \in Seq(Chars), NEW y \in Seq(Chars),
         EndOf(h, s), Extends(y, s)
  PROVE  At(h, y, Len(s) - Len(h) + 1)
<1> DEFINE p == Len(s) - Len(h) + 1
<1>0. Len(s) \in Nat /\ Len(h) \in Nat /\ Len(y) \in Nat /\ Len(h) <= Len(s) /\ Len(s) <= Len(y)
  BY DEF EndOf, Extends
<1>1. p \in Nat /\ p > 0 /\ p + Len(h) <= Len(y) + 1 BY <1>0
<1>2. \A j \in 1..Len(h) : y[p + j - 1] = h[j]
  <2> TAKE j \in 1..Len(h)
  <2>1. Len(s) - Len(h) + j \in 1..Len(s) /\ p + j - 1 = Len(s) - Len(h) + j BY <1>0
  <2>2. h[j] = s[Len(s) - Len(h) + j] BY DEF EndOf
  <2>3. y[Len(s) - Len(h) + j] = s[Len(s) - Len(h) + j] BY <2>1 DEF Extends
  <2> QED BY <2>1, <2>2, <2>3
<1> HIDE DEF p
<1>3. At(h, y, p) BY <1>1, <1>2 DEF At
<1> QED BY <1>3 DEF p

\* What was handed out and one more piece.
Added(b, s, gave) ==
  [text |-> IF b THEN gave.text ELSE gave.text \o s,
   thinking |-> IF b THEN gave.thinking \o s ELSE gave.thinking]

LEMMA CatAdded ==
  ASSUME NEW b \in BOOLEAN, NEW s \in Seq(Chars), NEW o \in Sides, NEW gave \in Sides
  PROVE  /\ Cat(gave, Put(b, s, o)) = Cat(Added(b, s, gave), o)
         /\ Cat(gave, Nothing) = gave /\ Added(b, s, gave) \in Sides
<1>1. PICK x \in Seq(Chars), z \in Seq(Chars) : gave = [text |-> x, thinking |-> z] BY DEF Sides
<1>2. PICK u \in Seq(Chars), v \in Seq(Chars) : o = [text |-> u, thinking |-> v] BY DEF Sides
<1>3. gave.text = x /\ gave.thinking = z /\ o.text = u /\ o.thinking = v BY <1>1, <1>2
<1>4. x \o s \in Seq(Chars) /\ z \o s \in Seq(Chars) BY ConcatProperties
<1>5. (x \o s) \o u = x \o (s \o u) BY ConcatAssociative
<1>6. (z \o s) \o v = z \o (s \o v) BY ConcatAssociative
<1>7. x \o <<>> = x /\ z \o <<>> = z BY ConcatEmptySeq
<1>8. Cat(gave, Nothing) = gave BY <1>1, <1>3, <1>7 DEF Cat, Nothing
<1>9. Added(b, s, gave) \in Sides BY <1>3, <1>4 DEF Added, Sides
<1>10. Cat(gave, Put(b, s, o)) = Cat(Added(b, s, gave), o)
  <2>1. CASE b = TRUE BY <1>3, <1>6, <2>1 DEF Cat, Put, Added
  <2>2. CASE b = FALSE BY <1>3, <1>5, <2>2 DEF Cat, Put, Added
  <2> QED BY <2>1, <2>2
<1> QED BY <1>8, <1>9, <1>10

\* What is read lies in Sides.
LEMMA ReadType ==
  ASSUME NEW y \in Seq(Chars), NEW f, Reading(y, f), NEW b \in BOOLEAN, NEW i \in 1..Len(y) + 1
  PROVE  f[i][b] \in Sides
<1>1. f[i] \in [BOOLEAN -> Sides] BY DEF Reading
<1> QED BY <1>1

\* Receive: the stream and its end grow by the chunk.
LEMMA MoreRead ==
  ASSUME NEW s \in Seq(Chars), NEW h \in Seq(Chars), NEW c \in Seq(Chars), NEW b, NEW gave,
         EndOf(h, s), ReadSoFar(s, h, b, gave)
  PROVE  EndOf(h \o c, s \o c) /\ ReadSoFar(s \o c, h \o c, b, gave)
<1> DEFINE u == s \o c
           v == h \o c
<1>0. Len(s) \in Nat /\ Len(h) \in Nat /\ Len(c) \in Nat /\ Len(h) <= Len(s) BY DEF EndOf
<1>1. /\ u \in Seq(Chars) /\ Len(u) = Len(s) + Len(c)
      /\ \A i \in 1..Len(s) : u[i] = s[i]
      /\ \A i \in 1..Len(c) : u[Len(s) + i] = c[i]
  BY ConcatFacts
<1>2. /\ v \in Seq(Chars) /\ Len(v) = Len(h) + Len(c)
      /\ \A i \in 1..Len(h) : v[i] = h[i]
      /\ \A i \in 1..Len(c) : v[Len(h) + i] = c[i]
  BY ConcatFacts
<1> HIDE DEF u, v
<1>3. ASSUME NEW j \in 1..Len(v) PROVE v[j] = u[Len(u) - Len(v) + j]
  <2>1. CASE j <= Len(h)
    <3>1. /\ j \in 1..Len(h) /\ Len(s) - Len(h) + j \in 1..Len(s)
          /\ Len(u) - Len(v) + j = Len(s) - Len(h) + j
      BY <1>0, <1>1, <1>2, <2>1
    <3>2. h[j] = s[Len(s) - Len(h) + j] BY <3>1 DEF EndOf
    <3> QED BY <1>1, <1>2, <3>1, <3>2
  <2>2. CASE ~(j <= Len(h))
    <3> DEFINE i == j - Len(h)
    <3>1. i \in 1..Len(c) /\ Len(h) + i = j /\ Len(u) - Len(v) + j = Len(s) + i
      BY <1>0, <1>1, <1>2, <2>2
    <3> HIDE DEF i
    <3>2. v[Len(h) + i] = c[i] /\ u[Len(s) + i] = c[i] BY <1>1, <1>2, <3>1
    <3> QED BY <3>1, <3>2
  <2> QED BY <2>1, <2>2
<1>4. EndOf(v, u) BY <1>0, <1>1, <1>2, <1>3 DEF EndOf
<1>5. ReadSoFar(u, v, b, gave)
  <2> SUFFICES ASSUME NEW y \in Seq(Chars), Extends(y, u), NEW f, Reading(y, f)
               PROVE  f[1][FALSE] = Cat(gave, f[Len(u) - Len(v) + 1][b])
    BY DEF ReadSoFar
  <2>1. Extends(y, s)
    <3>1. Len(s) <= Len(y) /\ \A j \in 1..Len(s) : j \in 1..Len(u) BY <1>0, <1>1 DEF Extends
    <3> QED BY <1>1, <3>1 DEF Extends
  <2>2. Len(u) - Len(v) + 1 = Len(s) - Len(h) + 1 BY <1>0, <1>1, <1>2
  <2> QED BY <2>1, <2>2 DEF ReadSoFar
<1> QED BY <1>4, <1>5 DEF u, v

\* The rest of an end of s, from its place n + 1 on, is an end of s.
LEMMA RestOfEnd ==
  ASSUME NEW s \in Seq(Chars), NEW h \in Seq(Chars), EndOf(h, s), NEW n \in 0..Len(h)
  PROVE  LET r == SubSeq(h, n + 1, Len(h)) IN
         /\ r \in Seq(Chars) /\ EndOf(r, s) /\ Len(s) - Len(r) + 1 = Len(s) - Len(h) + 1 + n
         /\ Len(r) = Len(h) - n /\ \A j \in 1..Len(h) - n : r[j] = h[n + j]
<1> DEFINE r == SubSeq(h, n + 1, Len(h))
<1>0. Len(s) \in Nat /\ Len(h) \in Nat /\ Len(h) <= Len(s) /\ n \in Nat /\ n <= Len(h) BY DEF EndOf
<1>1. r \in Seq(Chars) /\ Len(r) = Len(h) - n /\ \A j \in 1..Len(h) - n : r[j] = h[n + j]
  BY SubSeqFrom
<1> HIDE DEF r
<1>2. ASSUME NEW j \in 1..Len(r) PROVE r[j] = s[Len(s) - Len(r) + j]
  <2>1. n + j \in 1..Len(h) /\ Len(s) - Len(h) + (n + j) = Len(s) - Len(r) + j BY <1>0, <1>1
  <2> DEFINE i == n + j
  <2>2. i \in 1..Len(h) /\ Len(s) - Len(h) + i = Len(s) - Len(r) + j BY <1>0, <1>1
  <2>3. r[j] = h[i] BY <1>1
  <2> HIDE DEF i
  <2>4. h[i] = s[Len(s) - Len(h) + i] BY <2>2 DEF EndOf
  <2> QED BY <2>2, <2>3, <2>4
<1>3. Len(r) <= Len(s) /\ Len(s) - Len(r) + 1 = Len(s) - Len(h) + 1 + n BY <1>0, <1>1
<1>4. EndOf(r, s) BY <1>2, <1>3 DEF EndOf
<1> QED BY <1>1, <1>3, <1>4 DEF r

\* SplitAtTag: what is handed out gains what is before the first tag.
LEMMA TagRead ==
  ASSUME NEW s \in Seq(Chars), NEW h \in Seq(Chars), NEW b \in BOOLEAN, NEW gave \in Sides,
         EndOf(h, s), ReadSoFar(s, h, b, gave),
         NEW i, FirstOf(i, Found(h, TagOf(b)))
  PROVE  LET r == SubSeq(h, i + Len(TagOf(b)), Len(h)) IN
         /\ r \in Seq(Chars) /\ EndOf(r, s) /\ SubSeq(h, 1, i - 1) \in Seq(Chars)
         /\ ReadSoFar(s, r, ~b, Added(b, SubSeq(h, 1, i - 1), gave))
<1> DEFINE t == TagOf(b)
           n == i + Len(t) - 1
           r == SubSeq(h, n + 1, Len(h))
           x == SubSeq(h, 1, i - 1)
           p == Len(s) - Len(h) + 1
<1>0. Len(s) \in Nat /\ Len(h) \in Nat /\ Len(h) <= Len(s) /\ p \in Nat /\ p > 0 BY DEF EndOf
<1>1. t \in Seq(Chars) /\ Len(t) \in Nat /\ Len(t) > 0 BY TagFacts
<1> HIDE DEF t
<1>2. i \in Nat /\ i > 0 /\ i + Len(t) <= Len(h) + 1
  <2>1. i \in Found(h, t) BY DEF FirstOf, t
  <2>2. i \in Nat BY <1>0, <1>1, <2>1 DEF Found
  <2> QED BY <1>0, <1>1, <2>1, <2>2, FoundFacts
<1>3. n \in 0..Len(h) /\ n + 1 = i + Len(t) /\ p + n = p + i - 1 + Len(t) BY <1>0, <1>1, <1>2
<1> HIDE DEF n
<1>4. r \in Seq(Chars) /\ EndOf(r, s) /\ Len(s) - Len(r) + 1 = p + n /\ Len(r) = Len(h) - n
  BY <1>3, RestOfEnd
<1>5. x \in Seq(Chars)
  <2>1. 1 \in 1..Len(h) + 1 /\ i - 1 \in 1 - 1..Len(h) BY <1>0, <1>1, <1>2
  <2> QED BY <2>1, Slice
<1> HIDE DEF r, x, p
<1>6. ReadSoFar(s, r, ~b, Added(b, x, gave))
  <2> SUFFICES ASSUME NEW y \in Seq(Chars), Extends(y, s), NEW f, Reading(y, f)
               PROVE  f[1][FALSE] = Cat(Added(b, x, gave), f[Len(s) - Len(r) + 1][~b])
    BY DEF ReadSoFar
  <2>1. At(h, y, p) BY EndAt DEF p
  <2>2. f[1][FALSE] = Cat(gave, f[p][b]) BY DEF ReadSoFar, p
  <2>3. f[p][b] = Put(b, x, f[p + i - 1 + Len(t)][~b]) BY <2>1, ReadTag DEF t, x
  <2>4. p + n \in 1..Len(y) + 1 /\ Len(y) \in Nat
    <3>1. Len(s) <= Len(y) /\ Len(y) \in Nat BY DEF Extends
    <3> QED BY <1>0, <1>3, <3>1 DEF p
  <2>5. f[p + n][~b] \in Sides
    <3>1. (~b) \in BOOLEAN OBVIOUS
    <3> QED BY <2>4, <3>1, ReadType
  <2>6. f[p][b] = Put(b, x, f[p + n][~b]) BY <1>3, <2>3
  <2>7. Cat(gave, Put(b, x, f[p + n][~b])) = Cat(Added(b, x, gave), f[p + n][~b])
    BY <1>5, <2>5, CatAdded
  <2> QED BY <1>4, <2>2, <2>6, <2>7
<1>7. r = SubSeq(h, i + Len(t), Len(h)) BY <1>3 DEF r
<1> QED BY <1>4, <1>5, <1>6, <1>7 DEF t, x

\* EmitRest: what is handed out gains what cannot begin a tag.
LEMMA RestRead ==
  ASSUME NEW s \in Seq(Chars), NEW h \in Seq(Chars), NEW b \in BOOLEAN, NEW gave \in Sides,
         EndOf(h, s), ReadSoFar(s, h, b, gave), Found(h, TagOf(b)) = {}
  PROVE  LET n == Len(h) - partialSuffix(h, TagOf(b))
             r == SubSeq(h, n + 1, Len(h)) IN
         /\ r \in Seq(Chars) /\ EndOf(r, s) /\ Begins(r, b) /\ SubSeq(h, 1, n) \in Seq(Chars)
         /\ ReadSoFar(s, r, b, Added(b, SubSeq(h, 1, n), gave))
<1> DEFINE t == TagOf(b)
           m == partialSuffix(h, t)
           n == Len(h) - m
           r == SubSeq(h, n + 1, Len(h))
           x == SubSeq(h, 1, n)
           p == Len(s) - Len(h) + 1
<1>0. Len(s) \in Nat /\ Len(h) \in Nat /\ Len(h) <= Len(s) /\ p \in Nat /\ p > 0 BY DEF EndOf
<1>1. t \in Seq(Chars) /\ Len(t) \in Nat /\ Len(t) > 0 BY TagFacts
<1> HIDE DEF t
<1>2. m \in 0..Len(t) - 1 /\ m <= Len(h) /\ \A j \in 1..m : h[Len(h) - m + j] = t[j]
  BY <1>1, PartialSuffixFacts
<1> HIDE DEF m
<1>3. n \in 0..Len(h) /\ Len(h) - n = m /\ m < Len(t) /\ m \in Nat BY <1>0, <1>1, <1>2
<1>4. \A j \in 1..m : h[n + j] = t[j] BY <1>2
<1> HIDE DEF n
<1>5. r \in Seq(Chars) /\ EndOf(r, s) /\ Len(s) - Len(r) + 1 = p + n /\ Len(r) = Len(h) - n
      /\ \A j \in 1..Len(h) - n : r[j] = h[n + j]
  BY <1>3, RestOfEnd
<1>6. x \in Seq(Chars)
  <2>1. 1 \in 1..Len(h) + 1 /\ n \in 1 - 1..Len(h) BY <1>0, <1>3
  <2> QED BY <2>1, Slice
<1> HIDE DEF r, x, p
<1>7. Begins(r, b) BY <1>3, <1>4, <1>5 DEF Begins, t
<1>8. ReadSoFar(s, r, b, Added(b, x, gave))
  <2> SUFFICES ASSUME NEW y \in Seq(Chars), Extends(y, s), NEW f, Reading(y, f)
               PROVE  f[1][FALSE] = Cat(Added(b, x, gave), f[Len(s) - Len(r) + 1][b])
    BY DEF ReadSoFar
  <2>1. At(h, y, p) BY EndAt DEF p
  <2>2. f[1][FALSE] = Cat(gave, f[p][b]) BY DEF ReadSoFar, p
  <2>3. f[p][b] = Put(b, x, f[p + n][b]) BY <2>1, ReadRest DEF t, x, n, m
  <2>4. p + n \in 1..Len(y) + 1 /\ Len(y) \in Nat
    <3>1. Len(s) <= Len(y) /\ Len(y) \in Nat BY DEF Extends
    <3> QED BY <1>0, <1>3, <3>1 DEF p
  <2>5. f[p + n][b] \in Sides BY <2>4, ReadType
  <2>6. Cat(gave, Put(b, x, f[p + n][b])) = Cat(Added(b, x, gave), f[p + n][b])
    BY <1>6, <2>5, CatAdded
  <2> QED BY <1>5, <2>2, <2>3, <2>6
<1> QED BY <1>5, <1>6, <1>7, <1>8, Zenon DEF t, x, n, m, r

\* At the end of the stream what is held is text of the mode.
LEMMA AllRead ==
  ASSUME NEW s \in Seq(Chars), NEW h \in Seq(Chars), NEW b \in BOOLEAN, NEW gave \in Sides,
         EndOf(h, s), ReadSoFar(s, h, b, gave), Begins(h, b)
  PROVE  Demux(s) = Added(b, h, gave)
<1> DEFINE p == Len(s) - Len(h) + 1
<1>0. Len(s) \in Nat /\ Len(h) \in Nat /\ Len(h) <= Len(s) BY DEF EndOf
<1>1. Extends(s, s) BY <1>0 DEF Extends
<1>2. PICK f : Reading(s, f) BY ReadingExists
<1>3. Demux(s) = f[1][FALSE] BY <1>2, DemuxReads
<1>4. f[1][FALSE] = Cat(gave, f[p][b]) BY <1>1, <1>2 DEF ReadSoFar
<1>5. At(h, s, p) BY <1>1, EndAt
<1>6. p + Len(h) = Len(s) + 1 /\ Len(h) < Len(TagOf(b)) BY <1>0 DEF Begins
<1> HIDE DEF p
<1>7. f[p][b] = Put(b, h, Nothing) BY <1>2, <1>5, <1>6, ReadEnd
<1>8. <<>> \in Seq(Chars) OBVIOUS
<1>9. Nothing \in Sides BY <1>8 DEF Nothing, Sides
<1>10. Cat(gave, Put(b, h, Nothing)) = Cat(Added(b, h, gave), Nothing) /\ Added(b, h, gave) \in Sides
  BY <1>9, CatAdded
<1> DEFINE o == Added(b, h, gave)
<1> HIDE DEF o
<1>11. Cat(o, Nothing) = o
  <2>1. o \in Sides BY <1>10 DEF o
  <2> QED BY <1>9, <2>1, CatAdded
<1> QED BY <1>3, <1>4, <1>7, <1>10, <1>11 DEF o

LEMMA BeginsPrefix ==
  ASSUME NEW h \in Seq(Chars), NEW b \in BOOLEAN, Begins(h, b)
  PROVE  IsStrictPrefix(h, TagOf(b))
<1> DEFINE t == TagOf(b)
           x == SubSeq(t, 1, Len(h))
<1>0. t \in Seq(Chars) /\ Len(t) \in Nat BY TagFacts
<1>1. Len(h) \in Nat /\ Len(h) < Len(t) /\ \A j \in 1..Len(h) : h[j] = t[j] BY DEF Begins
<1> HIDE DEF t
<1>2. 1 \in 1..Len(t) + 1 /\ Len(h) \in 1 - 1..Len(t) /\ Len(h) - 1 + 1 = Len(h) BY <1>0, <1>1
<1>3. x \in Seq(Chars) /\ Len(x) = Len(h) - 1 + 1 /\ \A j \in 1..Len(h) - 1 + 1 : x[j] = t[1 + j - 1]
  BY <1>0, <1>2, Slice
<1>4. \A j \in 1..Len(h) : 1 + j - 1 = j BY <1>1
<1> HIDE DEF x
<1>5. Len(h) = Len(x) /\ \A j \in 1..Len(h) : h[j] = x[j] BY <1>1, <1>2, <1>3, <1>4
<1>6. h = x BY <1>3, <1>5, SeqEqual
<1>7. SubSeq(h, 1, Len(h)) = h BY SubSeqFull
<1>8. Len(h) <= Len(t) /\ h # t BY <1>0, <1>1
<1>9. IsPrefix(h, t) BY <1>6, <1>7, <1>8 DEF IsPrefix, x
<1>10. IsStrictPrefix(h, t) BY <1>8, <1>9 DEF IsStrictPrefix
<1> QED BY <1>10 DEF t

LEMMA SplitInitially ==
  ASSUME SplitInit
  PROVE  SplitInv
<1>0. <<>> \in Seq(Chars) /\ Len(<<>>) = 0 OBVIOUS
<1>1. SplitType BY <1>0 DEF SplitInit, SplitType
<1>2. EndOf(<<>>, <<>>) BY <1>0 DEF EndOf
<1>3. Begins(<<>>, FALSE)
  <2>1. Len(TagOf(FALSE)) \in Nat /\ Len(TagOf(FALSE)) > 0
    <3>1. FALSE \in BOOLEAN OBVIOUS
    <3> QED BY <3>1, TagFacts
  <2>2. ~\E j \in 1..Len(<<>>) : TRUE BY <1>0
  <2> QED BY <1>0, <2>1, <2>2 DEF Begins
<1>4. ReadSoFar(<<>>, <<>>, FALSE, Nothing)
  <2>0. Len(<<>>) - Len(<<>>) + 1 = 1 OBVIOUS
  <2> SUFFICES ASSUME NEW y \in Seq(Chars), NEW f, Reading(y, f)
               PROVE  f[1][FALSE] = Cat(Nothing, f[1][FALSE])
    BY <2>0, Zenon DEF ReadSoFar
  <2>1. 1 \in 1..Len(y) + 1 OBVIOUS
  <2>2. f[1][FALSE] \in Sides BY <2>1, ReadType
  <2>3. PICK x \in Seq(Chars), z \in Seq(Chars) : f[1][FALSE] = [text |-> x, thinking |-> z]
    BY <2>2 DEF Sides
  <2>4. <<>> \o x = x /\ <<>> \o z = z BY ConcatEmptySeq
  <2> QED BY <2>3, <2>4 DEF Cat, Nothing
<1>5. Given = Nothing BY DEF Given, Nothing, SplitInit
<1> QED BY <1>1, <1>2, <1>3, <1>4, <1>5 DEF SplitInv, SplitInit, ScanInv, IdleInv, FlushedInv

\* What was handed gave after Emit.
LEMMA EmitFacts ==
  ASSUME SplitType, NEW s \in Seq(Chars), Emit(s)
  PROVE  Given' = Added(inThinking, s, Given) /\ text' \in Seq(Chars) /\ thinking' \in Seq(Chars)
         /\ Given \in Sides
<1>1. text \in Seq(Chars) /\ thinking \in Seq(Chars) /\ inThinking \in BOOLEAN BY DEF SplitType
<1>2. text \o s \in Seq(Chars) /\ thinking \o s \in Seq(Chars) BY <1>1, ConcatProperties
<1>3. Given.text = text /\ Given.thinking = thinking BY DEF Given
<1>4. Given \in Sides BY <1>1 DEF Given, Sides
<1>5. CASE inThinking
  <2>1. text' = text /\ thinking' = thinking \o s BY <1>5 DEF Emit
  <2>2. Given' = [text |-> text, thinking |-> thinking \o s] BY <2>1 DEF Given
  <2>3. Added(inThinking, s, Given) = [text |-> text, thinking |-> thinking \o s]
    BY <1>3, <1>5 DEF Added
  <2> QED BY <1>1, <1>2, <1>4, <2>1, <2>2, <2>3
<1>6. CASE ~inThinking
  <2>1. text' = text \o s /\ thinking' = thinking BY <1>6 DEF Emit
  <2>2. Given' = [text |-> text \o s, thinking |-> thinking] BY <2>1 DEF Given
  <2>3. Added(inThinking, s, Given) = [text |-> text \o s, thinking |-> thinking]
    BY <1>3, <1>6 DEF Added
  <2> QED BY <1>1, <1>2, <1>4, <2>1, <2>2, <2>3
<1> QED BY <1>5, <1>6

LEMMA ReceiveKeeps ==
  ASSUME SplitInv, NEW chunk \in Seq(Chars), Receive(chunk)
  PROVE  SplitInv'
<1>1. /\ call = "idle" /\ stream' = stream \o chunk /\ full' = carry \o chunk /\ carry' = <<>>
      /\ call' = "scan" /\ inThinking' = inThinking /\ thinking' = thinking /\ text' = text
  BY DEF Receive
<1>2. SplitType /\ EndOf(carry, stream) /\ ReadSoFar(stream, carry, inThinking, Given)
  BY <1>1 DEF SplitInv, IdleInv
<1>3. stream \in Seq(Chars) /\ carry \in Seq(Chars) BY <1>2 DEF SplitType
<1>4. /\ EndOf(carry \o chunk, stream \o chunk)
      /\ ReadSoFar(stream \o chunk, carry \o chunk, inThinking, Given)
  BY <1>2, <1>3, MoreRead
<1>5. Given' = Given BY <1>1 DEF Given
<1>6. stream \o chunk \in Seq(Chars) /\ carry \o chunk \in Seq(Chars) /\ <<>> \in Seq(Chars)
  BY <1>3, ConcatProperties
<1>7. SplitType' BY <1>1, <1>2, <1>6 DEF SplitType
<1>8. EndOf(full, stream)' /\ ReadSoFar(stream', full', inThinking', Given')
  BY <1>1, <1>4, <1>5
<1>9. ScanInv' BY <1>8 DEF ScanInv
<1>10. IdleInv' /\ FlushedInv' BY <1>1 DEF IdleInv, FlushedInv
<1> QED BY <1>7, <1>9, <1>10 DEF SplitInv

LEMMA SplitAtTagKeeps ==
  ASSUME SplitInv, SplitAtTag
  PROVE  SplitInv'
<1> DEFINE b == inThinking
           F == Found(full, TagOf(b))
           i == CHOOSE j \in F : \A k \in F : j <= k
           x == SubSeq(full, 1, i - 1)
           r == SubSeq(full, i + Len(TagOf(b)), Len(full))
<1>1. /\ call = "scan" /\ F # {} /\ Emit(x) /\ full' = r
      /\ inThinking' = ~b /\ stream' = stream /\ call' = call /\ carry' = carry
  BY DEF SplitAtTag, Tag
<1>2. SplitType /\ EndOf(full, stream) /\ ReadSoFar(stream, full, b, Given)
  BY <1>1 DEF SplitInv, ScanInv
<1>3. stream \in Seq(Chars) /\ full \in Seq(Chars) /\ b \in BOOLEAN BY <1>2 DEF SplitType
<1>4. FirstOf(i, F)
  <2>1. F \subseteq Nat
    <3>1. TagOf(b) \in Seq(Chars) BY <1>3, TagFacts
    <3> QED BY <1>3, <3>1 DEF Found
  <2> HIDE DEF F
  <2>2. \E j \in F : \A k \in F : j <= k BY <1>1, <2>1, LeastOf
  <2> QED BY <2>2 DEF FirstOf
<1>5. Given \in Sides BY <1>2 DEF SplitType, Given, Sides
<1> HIDE DEF i, b
<1>6. /\ r \in Seq(Chars) /\ EndOf(r, stream) /\ x \in Seq(Chars)
      /\ ReadSoFar(stream, r, ~b, Added(b, x, Given))
  BY <1>2, <1>3, <1>4, <1>5, TagRead
<1> HIDE DEF r, x
<1>7. Given' = Added(b, x, Given) /\ text' \in Seq(Chars) /\ thinking' \in Seq(Chars)
  BY <1>1, <1>2, <1>6, EmitFacts DEF b
<1>8. SplitType'
  <2>1. (~b) \in BOOLEAN OBVIOUS
  <2> QED BY <1>1, <1>2, <1>6, <1>7, <2>1 DEF SplitType
<1>9. EndOf(full', stream') /\ ReadSoFar(stream', full', inThinking', Given') BY <1>1, <1>6, <1>7
<1>10. ScanInv' BY <1>9 DEF ScanInv
<1>11. IdleInv' /\ FlushedInv' BY <1>1 DEF IdleInv, FlushedInv
<1> QED BY <1>8, <1>10, <1>11 DEF SplitInv

LEMMA EmitRestKeeps ==
  ASSUME SplitInv, EmitRest
  PROVE  SplitInv'
<1> DEFINE b == inThinking
           n == Len(full) - partialSuffix(full, TagOf(b))
           x == SubSeq(full, 1, n)
           r == SubSeq(full, n + 1, Len(full))
<1>1. /\ call = "scan" /\ Found(full, TagOf(b)) = {} /\ Emit(x) /\ carry' = r /\ full' = <<>>
      /\ call' = "idle" /\ stream' = stream /\ inThinking' = inThinking
  BY DEF EmitRest, Tag
<1>2. SplitType /\ EndOf(full, stream) /\ ReadSoFar(stream, full, b, Given)
  BY <1>1 DEF SplitInv, ScanInv
<1>3. stream \in Seq(Chars) /\ full \in Seq(Chars) /\ b \in BOOLEAN BY <1>2 DEF SplitType
<1>4. Given \in Sides BY <1>2 DEF SplitType, Given, Sides
<1>5. /\ r \in Seq(Chars) /\ EndOf(r, stream) /\ Begins(r, b) /\ x \in Seq(Chars)
      /\ ReadSoFar(stream, r, b, Added(b, x, Given))
  BY <1>1, <1>2, <1>3, <1>4, RestRead
<1> HIDE DEF r, x
<1>6. Given' = Added(b, x, Given) /\ text' \in Seq(Chars) /\ thinking' \in Seq(Chars)
  BY <1>1, <1>2, <1>5, EmitFacts
<1>7. SplitType'
  <2>1. <<>> \in Seq(Chars) OBVIOUS
  <2> QED BY <1>1, <1>2, <1>5, <1>6, <2>1 DEF SplitType
<1>8. /\ EndOf(carry', stream') /\ Begins(carry', inThinking')
      /\ ReadSoFar(stream', carry', inThinking', Given')
  BY <1>1, <1>5, <1>6
<1>9. IdleInv' BY <1>8 DEF IdleInv
<1>10. ScanInv' /\ FlushedInv' BY <1>1 DEF ScanInv, FlushedInv
<1> QED BY <1>7, <1>9, <1>10 DEF SplitInv

LEMMA FlushKeeps ==
  ASSUME SplitInv, Flush
  PROVE  SplitInv'
<1>1. /\ call = "idle" /\ Emit(carry) /\ carry' = <<>> /\ call' = "flushed"
      /\ stream' = stream /\ full' = full /\ inThinking' = inThinking
  BY DEF Flush
<1>2. SplitType /\ EndOf(carry, stream) /\ Begins(carry, inThinking)
      /\ ReadSoFar(stream, carry, inThinking, Given)
  BY <1>1 DEF SplitInv, IdleInv
<1>3. stream \in Seq(Chars) /\ carry \in Seq(Chars) /\ inThinking \in BOOLEAN BY <1>2 DEF SplitType
<1>4. /\ Given' = Added(inThinking, carry, Given) /\ text' \in Seq(Chars) /\ thinking' \in Seq(Chars)
      /\ Given \in Sides
  BY <1>1, <1>2, <1>3, EmitFacts
<1>5. Demux(stream) = Added(inThinking, carry, Given) BY <1>2, <1>3, <1>4, AllRead
<1>6. SplitType'
  <2>1. <<>> \in Seq(Chars) OBVIOUS
  <2> QED BY <1>1, <1>2, <1>4, <2>1 DEF SplitType
<1>7. Demux(stream') = Given' BY <1>1, <1>4, <1>5
<1>8. FlushedInv' BY <1>1, <1>7 DEF FlushedInv
<1>9. ScanInv' /\ IdleInv' BY <1>1 DEF ScanInv, IdleInv
<1> QED BY <1>6, <1>8, <1>9 DEF SplitInv

LEMMA SplitStep ==
  ASSUME SplitInv, [SplitNext]_splitVars
  PROVE  SplitInv'
<1>1. ASSUME NEW n \in 1..MaxChunk, NEW chunk \in [1..n -> Chars], Receive(chunk) PROVE SplitInv'
  <2>1. n \in Nat BY ChunksAssumption
  <2>2. chunk \in Seq(Chars) BY <2>1
  <2> QED BY <1>1, <2>2, ReceiveKeeps
<1>2. CASE SplitAtTag BY <1>2, SplitAtTagKeeps
<1>3. CASE EmitRest BY <1>3, EmitRestKeeps
<1>4. CASE Flush BY <1>4, FlushKeeps
<1>5. CASE UNCHANGED splitVars
  <2>1. /\ stream' = stream /\ call' = call /\ full' = full /\ inThinking' = inThinking
        /\ carry' = carry /\ thinking' = thinking /\ text' = text
    BY <1>5 DEF splitVars
  <2>2. Given' = Given BY <2>1 DEF Given
  <2>3. SplitType' BY <2>1 DEF SplitInv, SplitType
  <2>4. ScanInv' BY <2>1, <2>2 DEF SplitInv, ScanInv
  <2>5. IdleInv' BY <2>1, <2>2 DEF SplitInv, IdleInv
  <2>6. FlushedInv' BY <2>1, <2>2 DEF SplitInv, FlushedInv
  <2> QED BY <2>3, <2>4, <2>5, <2>6 DEF SplitInv
<1> QED BY <1>1, <1>2, <1>3, <1>4, <1>5 DEF SplitNext

LEMMA SplitInvRight ==
  ASSUME SplitInv
  PROVE  SplitRight
<1>1. /\ SplitType /\ stream \in Seq(Chars) /\ carry \in Seq(Chars) /\ inThinking \in BOOLEAN
      /\ text \in Seq(Chars) /\ thinking \in Seq(Chars)
  BY DEF SplitInv, SplitType
<1>2. Given.text = text /\ Given.thinking = thinking /\ Given \in Sides BY <1>1 DEF Given, Sides
<1>3. Added(inThinking, carry, Given) =
        [text |-> IF inThinking THEN text ELSE text \o carry,
         thinking |-> IF inThinking THEN thinking \o carry ELSE thinking]
  BY <1>2 DEF Added
<1>4. CASE call = "scan" BY <1>4 DEF SplitRight
<1>5. CASE call = "idle"
  <2>1. EndOf(carry, stream) /\ Begins(carry, inThinking)
        /\ ReadSoFar(stream, carry, inThinking, Given)
    BY <1>5 DEF SplitInv, IdleInv
  <2>2. Demux(stream) = Added(inThinking, carry, Given) BY <1>1, <1>2, <2>1, AllRead
  <2>3. IsStrictPrefix(carry, Tag) BY <1>1, <2>1, BeginsPrefix DEF Tag
  <2> QED BY <1>3, <2>2, <2>3 DEF SplitRight
<1>6. CASE call = "flushed"
  <2>1. carry = <<>> /\ Demux(stream) = Given BY <1>6 DEF SplitInv, FlushedInv
  <2>2. text \o <<>> = text /\ thinking \o <<>> = thinking BY <1>1, ConcatEmptySeq
  <2>3. Added(inThinking, carry, Given) = Given BY <1>3, <2>1, <2>2 DEF Given
  <2>4. Begins(<<>>, inThinking)
    <3>1. Len(<<>>) = 0 /\ Len(TagOf(inThinking)) > 0 BY <1>1, TagFacts
    <3> QED BY <3>1 DEF Begins
  <2>5. IsStrictPrefix(carry, Tag) BY <1>1, <2>1, <2>4, BeginsPrefix DEF Tag
  <2> QED BY <1>3, <2>1, <2>3, <2>5 DEF SplitRight
<1> QED BY <1>1, <1>4, <1>5, <1>6 DEF SplitType

\* However a stream is cut into chunks, ProcessChunk and Flush hand gave what the uncut
\* stream reads as, less an end that may still become the awaited tag.
THEOREM SplitRightAlways == SplitSpec => []SplitRight
<1>1. SplitInit => SplitInv BY SplitInitially
<1>2. SplitInv /\ [SplitNext]_splitVars => SplitInv' BY SplitStep
<1>3. SplitInv => SplitRight BY SplitInvRight
<1> QED BY <1>1, <1>2, <1>3, PTL DEF SplitSpec
===============================================================================
