------------------------- MODULE LongTermMemory_proofs -------------------------
(***************************************************************************)
(* A session with memories is never left without any.  The transaction of  *)
(* a pass starts with a replacement that is not empty, and commits when    *)
(* all of it is inserted, so a commit leaves at least one row.  A commit   *)
(* is of the whole replacement, and a memory it removes was listed, raced  *)
(* the listing, or lay beyond its limit.                                   *)
(***************************************************************************)
EXTENDS LongTermMemory, FiniteSetTheorems, WellFoundedInduction, TLAPS

\* What the argument needs of the types.
RowsTyped ==
  /\ db \in [Sessions -> [Keys -> Int]]
  /\ writes \in Nat
  /\ inserted \subseteq Keys /\ repl \in Seq(Keys)

\* The replacement is not empty before it is inserted.
ReplacementPending ==
  /\ pc = "delete" => repl # <<>>
  /\ pc = "insert" => repl # <<>> \/ inserted # {}

PassInv == RowsTyped /\ ReplacementPending

\* The lists of keys are sequences, and not empty.
LEMMA KeyListsAreSeqs ==
  ASSUME NEW n \in Nat, NEW ks \in KeyLists(n)
  PROVE  ks \in Seq(Keys) /\ ks # <<>>
<1>1. PICK i \in 1..n : ks \in [1..i -> Keys]
  BY DEF KeyLists
<1> QED BY <1>1

\* The initial rows.
LEMMA InitPass == Init => PassInv
<1> SUFFICES ASSUME Init PROVE PassInv
  OBVIOUS
<1>1. {NoRow} \cup Keys \subseteq Int
  BY CountsAssumption DEF NoRow, Keys
<1>2. db \in [Sessions -> [Keys -> Int]]
  BY <1>1 DEF Init
<1>3. writes \in Nat /\ inserted \subseteq Keys /\ repl \in Seq(Keys)
  BY CountsAssumption DEF Init
<1> QED BY <1>2, <1>3 DEF Init, PassInv, RowsTyped, ReplacementPending

\* A step that moves to the next session or ends the pass has no transaction.
LEMMA PassMovesOn ==
  ASSUME NextSession \/ EndPass
  PROVE  repl' \in Seq(Keys) /\ inserted' \subseteq Keys /\ pc' \in {"idle", "list"}
<1>1. repl' = <<>> /\ inserted' = {}
  BY DEF NextSession, EndPass
<1>2. pc' = "idle" \/ pc' = "list"
  <2>1. CASE EndPass
    BY <2>1 DEF EndPass
  <2>2. CASE NextSession
    BY <2>2, Zenon DEF NextSession
  <2> QED BY <2>1, <2>2
<1> QED BY <1>1, <1>2

\* The rows after a commit are well typed.
LEMMA CommittedTyped ==
  ASSUME PassInv, session \in Sessions
  PROVE  Committed \in [Keys -> Int]
<1>1. db[session] \in [Keys -> Int]
  BY DEF PassInv, RowsTyped
<1> QED BY <1>1 DEF Committed, Dreamed, NoRow

\* Every step keeps the invariant.
LEMMA NextPass == PassInv /\ [Next]_vars => PassInv'
<1> SUFFICES ASSUME PassInv, [Next]_vars PROVE PassInv'
  OBVIOUS
<1> USE DEF PassInv, RowsTyped, ReplacementPending
<1>1. CASE StartPass
  BY <1>1 DEF StartPass
<1>2. CASE TooFewRows \/ NothingToReplace \/ DuplicateKey \/ CallFails \/ Crash
  <2>1. NextSession \/ EndPass
    BY <1>2 DEF TooFewRows, NothingToReplace, DuplicateKey, CallFails, Crash
  <2>2. db' = db /\ writes' = writes
    BY <1>2 DEF TooFewRows, NothingToReplace, DuplicateKey, CallFails, Crash
  <2> QED BY <2>1, <2>2, PassMovesOn
<1>3. CASE List
  BY <1>3 DEF List
<1>4. CASE ModelReplies
  <2>1. repl' \in KeyLists(MaxRowsOutput) /\ MaxRowsOutput \in Nat
    BY <1>4, CountsAssumption DEF ModelReplies, Replacements
  <2>2. repl' \in Seq(Keys) /\ repl' # <<>>
    BY <2>1, KeyListsAreSeqs
  <2> QED BY <1>4, <2>2 DEF ModelReplies
<1>5. CASE Delete
  BY <1>5 DEF Delete
<1>6. CASE InsertRow
  BY <1>6 DEF InsertRow
<1>7. CASE Commit
  <2>1. NextSession \/ EndPass
    BY <1>7 DEF Commit
  <2>2. writes' = writes /\ db' = [db EXCEPT ![session] = Committed]
    BY <1>7 DEF Commit
  <2>3. db' \in [Sessions -> [Keys -> Int]]
    <3>1. CASE session \in Sessions
      BY <2>2, <3>1, CommittedTyped
    <3>2. CASE session \notin Sessions
      BY <2>2, <3>2
    <3> QED BY <3>1, <3>2
  <2> QED BY <2>1, <2>2, <2>3, PassMovesOn
<1>8. ASSUME NEW w \in Writers, ToolWrite(w) \/ Extract(w) \/ SkipItem(w) \/ WriteFails(w)
      PROVE PassInv'
  BY <1>8 DEF ToolWrite, Extract, SkipItem, WriteFails, pass
<1>9. ASSUME NEW w \in Writers, WriteScoped(w) PROVE PassInv'
  <2> DEFINE s == job[w].session
             k == Head(job[w].keys)
  <2>1. db' = [db EXCEPT ![s][k] = writes + 1] /\ writes' = writes + 1
    BY <1>9 DEF WriteScoped
  <2>2. pc' = pc /\ repl' = repl /\ inserted' = inserted
    BY <1>9 DEF WriteScoped
  <2> HIDE DEF s, k
  <2>3. db' \in [Sessions -> [Keys -> Int]]
    <3>1. CASE s \in Sessions
      <4>1. db[s] \in [Keys -> Int]
        BY <3>1
      <4>2. writes + 1 \in Int
        OBVIOUS
      <4> DEFINE r == db[s]
                 n == writes + 1
      <4> HIDE DEF r, n
      <4>3. [r EXCEPT ![k] = n] \in [Keys -> Int]
        BY <4>1, <4>2 DEF r, n
      <4> QED BY <2>1, <3>1, <4>3 DEF r, n
    <3>2. CASE s \notin Sessions
      BY <2>1, <3>2
    <3> QED BY <3>1, <3>2
  <2> QED BY <2>1, <2>2, <2>3
<1>10. CASE UNCHANGED vars
  BY <1>10 DEF vars, pass
<1> QED
  BY <1>1, <1>2, <1>3, <1>4, <1>5, <1>6, <1>7, <1>8, <1>9, <1>10
  DEF Next, PassStep, WriterStep

\* The replacement of a pass and the rows keep their shape.
THEOREM PassInvariant == Spec => []PassInv
BY InitPass, NextPass, PTL DEF Spec

\* No step empties a session.
LEMMA StepKeepsRows ==
  ASSUME PassInv, Next, NEW s \in Sessions, Rows(db[s]) # {}
  PROVE  Rows(db'[s]) # {}
<1>1. CASE db' = db
  BY <1>1
<1>2. CASE Commit
  <2>1. repl = <<>> /\ pc = "insert" /\ db' = [db EXCEPT ![session] = Committed]
    BY <1>2 DEF Commit
  <2>2. CASE s # session
    BY <2>1, <2>2 DEF PassInv, RowsTyped
  <2>3. CASE s = session
    <3>1. PICK k \in Keys : k \in inserted
      BY <2>1 DEF PassInv, RowsTyped, ReplacementPending
    <3>2. Committed[k] = Dreamed
      BY <3>1 DEF Committed
    <3>3. db'[s] = Committed
      BY <2>1, <2>3 DEF PassInv, RowsTyped
    <3>4. k \in Rows(db'[s])
      BY <3>1, <3>2, <3>3 DEF Rows, Dreamed, NoRow
    <3> QED BY <3>4
  <2> QED BY <2>2, <2>3
<1>3. ASSUME NEW w \in Writers, WriteScoped(w) PROVE Rows(db'[s]) # {}
  <2> DEFINE t == job[w].session
             j == Head(job[w].keys)
  <2>1. db' = [db EXCEPT ![t][j] = writes + 1]
    BY <1>3 DEF WriteScoped
  <2> HIDE DEF t, j
  <2>2. PICK k \in Keys : db[s][k] # NoRow
    BY DEF Rows
  <2>3. db[s] \in [Keys -> Int] /\ writes \in Nat
    BY DEF PassInv, RowsTyped
  <2>4. db'[s][k] = db[s][k] \/ db'[s][k] = writes + 1
    BY <2>1, <2>2, <2>3 DEF PassInv, RowsTyped
  <2>5. k \in Rows(db'[s])
    BY <2>2, <2>3, <2>4 DEF Rows, NoRow
  <2> QED BY <2>5
<1>4. CASE StartPass \/ Crash \/ TooFewRows \/ List \/ ModelReplies \/ NothingToReplace
           \/ Delete \/ InsertRow \/ DuplicateKey \/ CallFails
  <2>1. db' = db
    BY <1>4 DEF StartPass, Crash, TooFewRows, List, ModelReplies, NothingToReplace,
                Delete, InsertRow, DuplicateKey, CallFails
  <2> QED BY <1>1, <2>1
<1>5. ASSUME NEW w \in Writers, ToolWrite(w) \/ Extract(w) \/ SkipItem(w) \/ WriteFails(w)
      PROVE Rows(db'[s]) # {}
  <2>1. db' = db
    BY <1>5 DEF ToolWrite, Extract, SkipItem, WriteFails
  <2> QED BY <1>1, <2>1
<1> QED BY <1>2, <1>3, <1>4, <1>5 DEF Next, PassStep, WriterStep

\* A session that has memories keeps some, whatever the model answers, wherever
\* a pass fails and whoever writes meanwhile (consolidateOneSession,
\* ReplaceSessionMemories).
THEOREM NeverEmptiedAlways == Spec => NeverEmptied
<1> DEFINE A == \A s \in Sessions : Rows(db[s]) # {} => Rows(db'[s]) # {}
<1>1. PassInv /\ [Next]_vars => [A]_vars
  BY StepKeepsRows
<1> HIDE DEF A
<1>2. Spec => [][A]_vars
  BY <1>1, PassInvariant, PTL DEF Spec
<1> QED BY <1>2 DEF NeverEmptied, A
-------------------------------------------------------------------------------
(***************************************************************************)
(* What a step may do to the rows of a session: nothing, one write, or the *)
(* commit of a pass.                                                       *)
(***************************************************************************)
LEMMA StepWrites ==
  ASSUME PassInv, Next
  PROVE  \/ db' = db
         \/ \E s \in Sessions, k \in Keys : db' = [db EXCEPT ![s] = [db[s] EXCEPT ![k] = writes']]
                                          /\ writes' = writes + 1
         \/ Commit /\ session \in Sessions /\ db'[session] = Committed
            /\ \A s \in Sessions \ {session} : db'[s] = db[s]
<1>0. db \in [Sessions -> [Keys -> Int]] BY DEF PassInv, RowsTyped
<1>1. CASE StartPass \/ Crash \/ TooFewRows \/ List \/ ModelReplies \/ NothingToReplace
           \/ Delete \/ InsertRow \/ DuplicateKey \/ CallFails
  BY <1>1 DEF StartPass, Crash, TooFewRows, List, ModelReplies, NothingToReplace,
              Delete, InsertRow, DuplicateKey, CallFails
<1>2. ASSUME NEW w \in Writers, ToolWrite(w) \/ Extract(w) \/ SkipItem(w) \/ WriteFails(w)
      PROVE db' = db
  BY <1>2 DEF ToolWrite, Extract, SkipItem, WriteFails
<1>3. CASE Commit
  <2>1. db' = [db EXCEPT ![session] = Committed] BY <1>3 DEF Commit
  <2>2. CASE session \in Sessions BY <1>0, <1>3, <2>1, <2>2
  <2>3. CASE session \notin Sessions
    <3>1. db' = db BY <1>0, <2>1, <2>3
    <3> QED BY <3>1
  <2> QED BY <2>2, <2>3
<1>4. ASSUME NEW w \in Writers, WriteScoped(w)
      PROVE  \/ db' = db
             \/ \E s \in Sessions, k \in Keys :
                  db' = [db EXCEPT ![s] = [db[s] EXCEPT ![k] = writes']] /\ writes' = writes + 1
  <2> DEFINE s == job[w].session
             k == Head(job[w].keys)
  <2>1. db' = [db EXCEPT ![s] = [db[s] EXCEPT ![k] = writes']] /\ writes' = writes + 1
    BY <1>4 DEF WriteScoped
  <2> HIDE DEF s, k
  <2>2. CASE s \in Sessions /\ k \in Keys BY <2>1, <2>2
  <2>3. CASE s \notin Sessions BY <1>0, <2>1, <2>3
  <2>4. CASE s \in Sessions /\ k \notin Keys
    <3> DEFINE f == db[s]
               v == writes'
    <3>1. f \in [Keys -> Int] BY <1>0, <2>4
    <3>2. db' = [db EXCEPT ![s] = [f EXCEPT ![k] = v]] BY <2>1
    <3>3. f = db[s] OBVIOUS
    <3> HIDE DEF f, v
    <3>4. [f EXCEPT ![k] = v] = f BY <2>4, <3>1
    <3>5. db' = [db EXCEPT ![s] = db[s]] BY <3>2, <3>3, <3>4
    <3> QED BY <1>0, <3>5
  <2> QED BY <2>2, <2>3, <2>4
<1> QED BY <1>1, <1>2, <1>3, <1>4 DEF Next, PassStep, WriterStep

\* No step leaves a part of a replacement behind: rows change by one write, or
\* all at once by a commit whose replacement has been inserted to the end
\* (ReplaceSessionMemories, memory_store.go 202-226).
THEOREM AllOrNothingAlways == Spec => AllOrNothing
<1> DEFINE A == \A s \in Sessions :
                  db'[s] # db[s] =>
                    \/ \E k \in Keys : db'[s] = [db[s] EXCEPT ![k] = writes']
                    \/ /\ repl = <<>>
                       /\ \A k \in Keys :
                            db'[s][k] = Dreamed
                              <=> k \in inserted \/ (db[s][k] = Dreamed /\ k \notin deleted)
<1>1. ASSUME PassInv, Next PROVE A
  <2>0. db \in [Sessions -> [Keys -> Int]] BY <1>1 DEF PassInv, RowsTyped
  <2>1. CASE db' = db BY <2>1
  <2>2. ASSUME NEW s \in Sessions, NEW k \in Keys,
               db' = [db EXCEPT ![s] = [db[s] EXCEPT ![k] = writes']]
        PROVE  A
    BY <2>0, <2>2
  <2>3. CASE Commit /\ session \in Sessions /\ db'[session] = Committed
             /\ \A s \in Sessions \ {session} : db'[s] = db[s]
    <3>1. repl = <<>> BY <2>3 DEF Commit
    <3>2. ASSUME NEW k \in Keys
          PROVE  Committed[k] = Dreamed
                   <=> k \in inserted \/ (db[session][k] = Dreamed /\ k \notin deleted)
      BY DEF Committed, Dreamed, NoRow
    <3> QED BY <2>3, <3>1, <3>2
  <2> QED BY <1>1, <2>1, <2>2, <2>3, StepWrites
<1>2. PassInv /\ [Next]_vars => [A]_vars BY <1>1
<1> HIDE DEF A
<1>3. Spec => [][A]_vars BY <1>2, PassInvariant, PTL DEF Spec
<1> QED BY <1>3 DEF AllOrNothing, A
-------------------------------------------------------------------------------
(***************************************************************************)
(* Which memories a pass may lose.  First the listing: what it leaves out  *)
(* lies beyond the LIMIT, and then the listing is full.                    *)
(***************************************************************************)
LEMMA LeastNat ==
  ASSUME NEW T, T \subseteq Nat, T # {}
  PROVE  \E x \in T : \A y \in T : x <= y
<1> DEFINE Less == OpToRel(<, Nat)
<1>1. \A x, y \in Nat : y < x => <<y, x>> \in Less BY DEF OpToRel
<1>2. IsWellFoundedOn(Less, Nat) BY NatLessThanWellFounded
<1> HIDE DEF Less
<1>3. PICK x \in T : \A y \in T : ~(<<y, x>> \in Less) BY <1>2, WFMin
<1>4. ASSUME NEW y \in T PROVE x <= y
  <2>1. x \in Nat /\ y \in Nat OBVIOUS
  <2>2. ~(y < x) BY <1>1, <1>3, <2>1
  <2> QED BY <2>1, <2>2
<1> QED BY <1>4

LEMMA GreatestNat ==
  ASSUME NEW n \in Nat, NEW T, T \subseteq 1..n, T # {}
  PROVE  \E x \in T : \A y \in T : y <= x
<1> DEFINE U == {i \in Nat : n - i \in T}
<1>1. \A y \in T : n - y \in U /\ n - (n - y) = y OBVIOUS
<1>2. U \subseteq Nat /\ U # {} BY <1>1
<1>3. PICK i \in U : \A j \in U : i <= j BY <1>2, LeastNat
<1>4. n - i \in T /\ i \in Nat OBVIOUS
<1>5. ASSUME NEW y \in T PROVE y <= n - i
  <2>1. i <= n - y /\ y \in Nat BY <1>1, <1>3
  <2> QED BY <1>4, <2>1
<1> QED BY <1>4, <1>5

LEMMA KeySetsFinite ==
  ASSUME NEW T, T \subseteq Keys
  PROVE  IsFiniteSet(T) /\ Cardinality(T) \in Nat
<1>1. NumKeys \in Int /\ 1 \in Int BY CountsAssumption
<1>2. IsFiniteSet(Keys) BY <1>1, FS_Interval DEF Keys
<1> QED BY <1>2, FS_Subset, FS_CardinalityType

\* The first M members of a set of keys: M of them if one is left out, and all
\* before the ones left out.
LEMMA FirstOnes ==
  ASSUME NEW R, R \subseteq Keys, NEW M \in Nat, NEW k \in R,
         Cardinality({j \in R : j <= k}) > M
  PROVE  LET S == {i \in R : Cardinality({j \in R : j <= i}) <= M}
         IN Cardinality(S) = M /\ \A i \in S : i < k
<1> DEFINE Upto(i) == {j \in R : j <= i}
           S == {i \in R : Cardinality(Upto(i)) <= M}
<1>0. Keys \subseteq Nat /\ Keys = 1..NumKeys /\ NumKeys \in Nat BY CountsAssumption DEF Keys
<1>a. \A i, j : j \in Upto(i) <=> j \in R /\ j <= i OBVIOUS
<1>b. \A i : i \in S <=> i \in R /\ Cardinality(Upto(i)) <= M OBVIOUS
<1>c. Cardinality(Upto(k)) > M OBVIOUS
<1>d. S = {i \in R : Cardinality({j \in R : j <= i}) <= M} OBVIOUS
<1> HIDE DEF S, Upto
<1>1. \A i : /\ IsFiniteSet(Upto(i)) /\ Cardinality(Upto(i)) \in Nat
             /\ IsFiniteSet(S) /\ Cardinality(S) \in Nat
  <2>1. S \subseteq Keys /\ \A i : Upto(i) \subseteq Keys BY <1>a, <1>b
  <2> QED BY <2>1, KeySetsFinite
<1>2. ASSUME NEW i \in S, NEW j \in R, Cardinality(Upto(j)) > M PROVE i < j
  <2>0. i \in Nat /\ j \in Nat BY <1>0, <1>b
  <2> SUFFICES ASSUME j <= i PROVE FALSE BY <2>0
  <2>1. ASSUME NEW z \in Upto(j) PROVE z \in Upto(i)
    <3>1. z \in R /\ z <= j /\ z \in Nat BY <1>0, <1>a
    <3>2. z <= i BY <2>0, <3>1
    <3> QED BY <1>a, <3>1, <3>2
  <2>2. Upto(j) \subseteq Upto(i) BY <2>1
  <2>3. Cardinality(Upto(i)) <= M BY <1>b
  <2>4. Cardinality(Upto(j)) <= Cardinality(Upto(i)) BY <1>1, <2>2, FS_Subset
  <2>5. Cardinality(Upto(i)) \in Nat /\ Cardinality(Upto(j)) \in Nat BY <1>1
  <2> QED BY <1>2, <2>3, <2>4, <2>5
\* The first one left out comes right after S.
<1>3. PICK y \in R \ S : \A z \in R \ S : y <= z
  <2>1. Cardinality(Upto(k)) \in Nat BY <1>1
  <2>2. k \in R \ S BY <1>b, <1>c, <2>1
  <2>3. R \ S \subseteq Nat BY <1>0
  <2> QED BY <2>2, <2>3, LeastNat
<1>4. Cardinality(Upto(y)) > M
  <2>1. Cardinality(Upto(y)) \in Nat BY <1>1
  <2> QED BY <1>b, <2>1
<1>5. Upto(y) = S \cup {y}
  <2>0. y \in Nat BY <1>0
  <2>1. ASSUME NEW j \in Upto(y), j # y PROVE j \in S
    <3>1. j \in R /\ j <= y /\ j \in Nat BY <1>0, <1>a
    <3>2. ~(y <= j) BY <2>0, <2>1, <3>1
    <3> QED BY <1>3, <3>1, <3>2
  <2>2. ASSUME NEW i \in S PROVE i \in Upto(y)
    <3>1. i < y /\ i \in R /\ i \in Nat BY <1>0, <1>2, <1>4, <1>b
    <3>2. i <= y BY <2>0, <3>1
    <3> QED BY <1>a, <3>1, <3>2
  <2>3. y \in Upto(y) BY <1>a, <2>0
  <2> QED BY <2>1, <2>2, <2>3
<1>6. Cardinality(S) >= M
  <2>1. y \notin S OBVIOUS
  <2>2. Cardinality(S \cup {y}) = Cardinality(S) + 1 BY <1>1, <2>1, FS_AddElement
  <2> QED BY <1>1, <1>4, <1>5, <2>2
\* The last one kept has all of S up to it.
<1>7. Cardinality(S) <= M
  <2>1. CASE S = {}
    <3>1. Cardinality(S) = 0 BY <2>1, FS_EmptySet
    <3> QED BY <3>1
  <2>2. CASE S # {}
    <3>1. S \subseteq 1..NumKeys BY <1>0, <1>b
    <3>2. PICK x \in S : \A i \in S : i <= x BY <1>0, <2>2, <3>1, GreatestNat
    <3>3. S \subseteq Upto(x) BY <1>a, <1>b, <3>2
    <3>4. Cardinality(Upto(x)) <= M BY <1>b
    <3>5. Cardinality(S) <= Cardinality(Upto(x)) BY <1>1, <3>3, FS_Subset
    <3>6. Cardinality(Upto(x)) \in Nat BY <1>1
    <3> QED BY <1>1, <3>4, <3>5, <3>6
  <2> QED BY <2>1, <2>2
<1>8. Cardinality(S) = M BY <1>1, <1>6, <1>7
<1>9. \A i \in S : i < k BY <1>2, <1>c
<1> QED BY <1>8, <1>9, <1>d

\* A key the pass need not have seen although its row goes.
Beyond(rows, k) == Cardinality(Rows(rows)) = MaxRowsLoad /\ \A j \in Rows(rows) : j < k

LEMMA ListedOrBeyond ==
  ASSUME PassInv, session \in Sessions, NEW k \in Rows(db[session])
  PROVE  LET rows == ListAllForSession(session)
         IN rows \in [Keys -> Int] /\ (rows[k] = db[session][k] \/ Beyond(rows, k))
<1> DEFINE R == Rows(db[session])
           S == {i \in R : Cardinality({j \in R : j <= i}) <= MaxRowsLoad}
           rows == ListAllForSession(session)
<1>1. db[session] \in [Keys -> Int] BY DEF PassInv, RowsTyped
<1>2. R \subseteq Keys /\ MaxRowsLoad \in Nat BY CountsAssumption DEF Rows
<1>3. rows \in [Keys -> Int] BY <1>1 DEF ListAllForSession, NoRow
<1>4. \A i \in Keys : rows[i] = IF Cardinality({j \in R : j <= i}) <= MaxRowsLoad
                               THEN db[session][i] ELSE NoRow
  BY DEF ListAllForSession
<1>5. ASSUME Cardinality({j \in R : j <= k}) > MaxRowsLoad PROVE Beyond(rows, k)
  <2>1. Cardinality(S) = MaxRowsLoad /\ \A i \in S : i < k
    <3> HIDE DEF R
    <3> QED BY <1>2, <1>5, FirstOnes DEF R
  <2>2. Rows(rows) = S
    <3>1. \A i \in Keys : i \in R <=> db[session][i] # NoRow BY DEF Rows
    <3> HIDE DEF R, rows
    <3> QED BY <1>2, <1>4, <3>1 DEF Rows
  <2> HIDE DEF S, rows
  <2> QED BY <2>1, <2>2 DEF Beyond
<1>6. Cardinality({j \in R : j <= k}) \in Nat
  <2>1. {j \in R : j <= k} \subseteq Keys BY <1>2
  <2> QED BY <2>1, KeySetsFinite
<1>7. ASSUME Cardinality({j \in R : j <= k}) <= MaxRowsLoad PROVE rows[k] = db[session][k]
  <2>1. k \in Keys BY <1>2
  <2> HIDE DEF rows, R
  <2> QED BY <1>4, <1>7, <2>1
<1> HIDE DEF R, rows
<1>8. Beyond(rows, k) \/ rows[k] = db[session][k] BY <1>2, <1>5, <1>6, <1>7
<1> QED BY <1>3, <1>8 DEF rows

(***************************************************************************)
(* The invariant of a pass: until the DELETE every row of the session was  *)
(* listed, written since or beyond the LIMIT; after it this is so of the   *)
(* deleted rows, which are locked, and an inserted key that was not        *)
(* deleted had no row and cannot get one.                                  *)
(***************************************************************************)
Explained(k) == seen[k] = db[session][k] \/ k \in raced \/ Beyond(seen, k)

LossInv ==
  /\ pc # "insert" => inserted = {}
  /\ session \in Sessions /\ pc \in {"model", "delete"} =>
       \A k \in Rows(db[session]) : Explained(k)
  /\ session \in Sessions /\ pc = "insert" =>
       /\ \A k \in deleted : k \in Keys /\ Explained(k)
       /\ \A k \in inserted \ deleted : db[session][k] = NoRow

LEMMA NextLoss == PassInv /\ LossInv /\ [Next]_vars => LossInv'
<1> SUFFICES ASSUME PassInv, LossInv, [Next]_vars PROVE LossInv'
  OBVIOUS
<1>0. db \in [Sessions -> [Keys -> Int]] /\ writes \in Nat /\ inserted \subseteq Keys
      /\ repl \in Seq(Keys)
  BY DEF PassInv, RowsTyped
<1>1. CASE StartPass BY <1>1, Zenon DEF StartPass, LossInv
<1>2. CASE TooFewRows \/ NothingToReplace \/ DuplicateKey \/ CallFails \/ Crash \/ Commit
  <2>1. NextSession \/ EndPass
    BY <1>2 DEF TooFewRows, NothingToReplace, DuplicateKey, CallFails, Crash, Commit
  <2>2. inserted' = {} BY <2>1 DEF NextSession, EndPass
  <2>3. pc' \in {"idle", "list"} BY <2>1, PassMovesOn
  <2> QED BY <2>2, <2>3 DEF LossInv
<1>3. CASE List
  <2>1. /\ pc = "list" /\ seen' = ListAllForSession(session) /\ pc' = "model"
        /\ UNCHANGED <<db, session, raced, inserted>>
    BY <1>3 DEF List
  <2>2. ASSUME session \in Sessions, NEW k \in Rows(db[session])
        PROVE  seen'[k] = db[session][k] \/ Beyond(seen', k)
    BY <2>1, <2>2, ListedOrBeyond
  <2>3. session \in Sessions => \A k \in Rows(db'[session']) : Explained(k)'
    BY <2>1, <2>2 DEF Explained, Beyond
  <2> QED BY <2>1, <2>3 DEF LossInv
<1>4. CASE ModelReplies
  BY <1>4 DEF ModelReplies, LossInv, Explained, Beyond
<1>5. CASE Delete
  <2>1. /\ pc = "delete" /\ pc' = "insert" /\ deleted' = Rows(db[session])
        /\ UNCHANGED <<db, session, seen, raced, inserted>>
    BY <1>5 DEF Delete
  <2> QED BY <2>1 DEF LossInv, Explained, Beyond, Rows
<1>6. CASE InsertRow
  <2>1. /\ pc = "insert" /\ pc' = "insert" /\ inserted' = inserted \cup {Head(repl)}
        /\ UNCHANGED <<db, session, seen, raced, deleted>> /\ ~Duplicate(Head(repl))
    BY <1>6 DEF InsertRow
  <2>2. Head(repl) \notin deleted => db[session][Head(repl)] = NoRow BY <2>1 DEF Duplicate
  <2> QED BY <2>1, <2>2 DEF LossInv, Explained, Beyond
<1>7. ASSUME NEW w \in Writers, ToolWrite(w) \/ Extract(w) \/ SkipItem(w) \/ WriteFails(w)
      PROVE LossInv'
  <2>1. UNCHANGED <<db, pc, session, seen, raced, deleted, inserted>>
    BY <1>7 DEF ToolWrite, Extract, SkipItem, WriteFails, pass
  <2> QED BY <2>1 DEF LossInv, Explained, Beyond
<1>8. ASSUME NEW w \in Writers, WriteScoped(w) PROVE LossInv'
  <2> DEFINE s == job[w].session
             k == Head(job[w].keys)
  <2>1. /\ db' = [db EXCEPT ![s] = [db[s] EXCEPT ![k] = writes + 1]] /\ ~Locked(s, k)
        /\ raced' = IF s = session /\ pc \in {"model", "delete"} THEN raced \cup {k} ELSE raced
        /\ UNCHANGED <<pc, session, seen, deleted, inserted>>
    BY <1>8 DEF WriteScoped
  <2> HIDE DEF s, k
  <2>2. ASSUME session \in Sessions, NEW q \in Keys
        PROVE  db'[session][q] = IF s = session /\ q = k THEN writes + 1 ELSE db[session][q]
    BY <1>0, <2>1, <2>2
  <2>3. ASSUME session \in Sessions, NEW q \in Keys, ~(s = session /\ q = k), Explained(q)
        PROVE  Explained(q)'
    BY <2>1, <2>2, <2>3 DEF Explained, Beyond
  <2>4. ASSUME session \in Sessions, pc \in {"model", "delete"}, NEW q \in Rows(db'[session])
        PROVE  Explained(q)'
    <3>1. q \in Keys BY DEF Rows
    <3>2. CASE s = session /\ q = k BY <2>1, <2>4, <3>2 DEF Explained
    <3>3. CASE ~(s = session /\ q = k)
      <4>1. q \in Rows(db[session]) BY <2>2, <2>4, <3>1, <3>3 DEF Rows
      <4>2. Explained(q) BY <2>4, <4>1 DEF LossInv
      <4> QED BY <2>3, <2>4, <3>1, <3>3, <4>2
    <3> QED BY <3>2, <3>3
  <2>5. ASSUME session \in Sessions, pc = "insert"
        PROVE  /\ \A q \in deleted : q \in Keys /\ Explained(q)'
               /\ \A q \in inserted \ deleted : db'[session][q] = NoRow
    <3>1. \A q \in deleted \cup inserted : ~(s = session /\ q = k) BY <2>1 DEF Locked
    <3>2. \A q \in deleted : q \in Keys /\ Explained(q) BY <2>5 DEF LossInv
    <3>3. \A q \in inserted \ deleted : db[session][q] = NoRow BY <2>5 DEF LossInv
    <3>4. \A q \in deleted : q \in Keys /\ Explained(q)' BY <2>3, <2>5, <3>1, <3>2
    <3>5. \A q \in inserted \ deleted : db'[session][q] = NoRow BY <1>0, <2>2, <2>5, <3>1, <3>3
    <3> QED BY <3>4, <3>5
  <2> QED BY <2>1, <2>4, <2>5 DEF LossInv
<1>9. CASE UNCHANGED vars BY <1>9 DEF vars, pass, LossInv, Explained, Beyond
<1> QED BY <1>1, <1>2, <1>3, <1>4, <1>5, <1>6, <1>7, <1>8, <1>9 DEF Next, PassStep, WriterStep

\* A memory that goes was listed for the model, or was written between the
\* listing and the DELETE, or lay beyond a full listing; a write that meets the
\* open transaction survives it (consolidateOneSession, dream.go 108-167, and
\* ReplaceSessionMemories).
THEOREM LossExplainedAlways == Spec => LossExplained
<1> DEFINE A == \A s \in Sessions, k \in Keys :
                  db[s][k] > 0 /\ db'[s][k] \in {NoRow, Dreamed} =>
                    /\ s = session
                    /\ \/ seen[k] = db[s][k]
                       \/ k \in raced
                       \/ Cardinality(Rows(seen)) = MaxRowsLoad /\ \A j \in Rows(seen) : j < k
<1>1. ASSUME PassInv, LossInv, Next PROVE A
  <2>0. db \in [Sessions -> [Keys -> Int]] /\ writes \in Nat BY <1>1 DEF PassInv, RowsTyped
  <2>1. CASE db' = db
    <3>1. \A s \in Sessions, k \in Keys : db[s][k] \in Int BY <2>0
    <3> QED BY <2>1, <3>1 DEF NoRow, Dreamed
  <2>2. ASSUME NEW t \in Sessions, NEW j \in Keys, writes' = writes + 1,
               db' = [db EXCEPT ![t] = [db[t] EXCEPT ![j] = writes']]
        PROVE  A
    <3>1. ASSUME NEW s \in Sessions, NEW k \in Keys, db[s][k] > 0
          PROVE  db'[s][k] \notin {NoRow, Dreamed}
      <4>1. db'[s][k] = db[s][k] \/ db'[s][k] = writes + 1 BY <2>0, <2>2
      <4>2. db[s][k] \in Int BY <2>0
      <4> QED BY <2>0, <3>1, <4>1, <4>2 DEF NoRow, Dreamed
    <3> QED BY <3>1
  <2>3. CASE Commit /\ session \in Sessions /\ db'[session] = Committed
             /\ \A s \in Sessions \ {session} : db'[s] = db[s]
    <3> SUFFICES ASSUME NEW s \in Sessions, NEW k \in Keys, db[s][k] > 0,
                        db'[s][k] \in {NoRow, Dreamed}
                 PROVE  s = session /\ Explained(k)
      BY DEF Explained, Beyond
    <3>0. db[s][k] \in Int BY <2>0
    <3>1. db'[s][k] # db[s][k] BY <3>0 DEF NoRow, Dreamed
    <3>2. s = session BY <2>3, <3>1
    <3>3. k \in inserted \/ k \in deleted BY <2>3, <3>1, <3>2 DEF Committed
    <3>4. pc = "insert" BY <2>3 DEF Commit
    <3>5. k \in deleted BY <1>1, <2>3, <3>0, <3>2, <3>3, <3>4 DEF LossInv, NoRow
    <3> QED BY <1>1, <2>3, <3>2, <3>4, <3>5 DEF LossInv
  <2> QED BY <1>1, <2>1, <2>2, <2>3, StepWrites
<1>2. PassInv /\ LossInv /\ [Next]_vars => [A]_vars BY <1>1
<1>3. Init => LossInv BY DEF Init, LossInv
<1> HIDE DEF A
<1>4. Spec => [][A]_vars BY <1>2, <1>3, NextLoss, PassInvariant, PTL DEF Spec
<1> QED BY <1>4 DEF LossExplained, A
===============================================================================
