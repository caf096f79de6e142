--------------------------- MODULE StreamChat_proofs ---------------------------
(***************************************************************************)
(* Proofs, for any number of calls, fragments and pieces of text, that a   *)
(* streamed reply is put together right: whole when all of it came, and    *)
(* never with anything the provider has not sent.                          *)
(***************************************************************************)
EXTENDS StreamChat, FiniteSetTheorems, SequenceTheorems, WellFoundedInduction, TLAPS

\* What has come of call i.
Come(i) == [id |-> i, name |-> plan[i].named, args |-> Fragments(i, sent[i] - 1)]

Started == {i \in Calls : sent[i] > 0}

(***************************************************************************)
(* The inductive invariant: the accumulator of an index holds just what    *)
(* was sent of its call, whatever came in between, and what is returned    *)
(* was collected from those.                                               *)
(***************************************************************************)
StreamInv ==
  /\ plan \in Seq(PlannedCall) /\ first \in {0, 1}
  /\ sent \in [Calls -> Nat] /\ \A i \in Calls : sent[i] <= plan[i].frags + 1
  /\ DOMAIN accums = {Index(i) : i \in Started}
  /\ \A i \in Started : accums[Index(i)] = Come(i)
  /\ outcome # "ok" => reply = NoReply
  /\ outcome = "ok" => stage = "done" /\ reply.calls = Collected

LEMMA InitStream == StreamInit => StreamInv
<1> SUFFICES ASSUME StreamInit PROVE StreamInv OBVIOUS
<1>1. PICK n \in 0..MaxCalls : plan \in [1..n -> PlannedCall] BY DEF StreamInit
<1>2. n \in Nat BY StreamAssumption
<1>3. plan \in Seq(PlannedCall) /\ Calls = 1..n BY <1>1, <1>2 DEF Calls
<1>4. \A i \in Calls : plan[i].frags \in Nat BY <1>1, <1>3, StreamAssumption DEF PlannedCall
<1>5. sent \in [Calls -> Nat] /\ \A i \in Calls : sent[i] = 0 BY DEF StreamInit
<1>6. Started = {} BY <1>5 DEF Started
<1>7. DOMAIN accums = {} BY DEF StreamInit
<1>8. first \in {0, 1} /\ outcome = "none" /\ reply = NoReply BY DEF StreamInit
<1> QED BY <1>3, <1>4, <1>5, <1>6, <1>7, <1>8 DEF StreamInv

LEMMA OneElement ==
  ASSUME NEW S, NEW s \in Seq(S), NEW k \in 1..Len(s)
  PROVE  SubSeq(s, k, k) = <<s[k]>>
<1> DEFINE x == SubSeq(s, k, k)
<1>1. s[k] \in S /\ k \in Int BY Len(s) \in Nat
<1>2. x \in Seq(S) /\ Len(x) = 1 /\ x[1] = s[k] BY <1>1
<1>3. <<s[k]>> \in Seq(S) /\ Len(<<s[k]>>) = 1 /\ <<s[k]>>[1] = s[k] BY <1>1
<1> HIDE DEF x
<1>4. \A i \in 1..Len(x) : x[i] = <<s[k]>>[i] BY <1>2, <1>3
<1>5. x = <<s[k]>> BY <1>2, <1>3, <1>4, SeqEqual
<1> QED BY <1>5 DEF x

LEMMA FragmentsGrow ==
  ASSUME NEW i, NEW n \in Nat
  PROVE  /\ Fragments(i, n) \in Seq({i} \X Nat) /\ Len(Fragments(i, n)) = n
         /\ \A k \in 1..n : Fragments(i, n)[k] = <<i, k>>
         /\ Fragments(i, n) \o <<<<i, n + 1>>>> = Fragments(i, n + 1)
<1> DEFINE S == {i} \X Nat
<1>1. ASSUME NEW m \in Nat
      PROVE  /\ Fragments(i, m) \in Seq(S) /\ Len(Fragments(i, m)) = m
             /\ \A k \in 1..m : Fragments(i, m)[k] = <<i, k>>
  <2>1. Fragments(i, m) \in [1..m -> S] BY DEF Fragments
  <2>2. \A k \in 1..m : Fragments(i, m)[k] = <<i, k>> BY DEF Fragments
  <2> HIDE DEF S
  <2> QED BY <2>1, <2>2
<1>2. <<i, n + 1>> \in S OBVIOUS
<1> DEFINE a == Fragments(i, n)
           e == <<i, n + 1>>
           b == Fragments(i, n + 1)
           x == a \o <<e>>
<1>3. a \in Seq(S) /\ Len(a) = n /\ \A k \in 1..n : a[k] = <<i, k>> BY <1>1
<1>4. b \in Seq(S) /\ Len(b) = n + 1 /\ \A k \in 1..n + 1 : b[k] = <<i, k>>
  <2>1. n + 1 \in Nat OBVIOUS
  <2> QED BY <1>1, <2>1
<1>5. e = <<i, n + 1>> OBVIOUS
<1> HIDE DEF a, b, e, S
<1>6. x \in Seq(S) /\ Len(x) = n + 1 /\ x[n + 1] = e /\ \A k \in 1..n : x[k] = a[k]
  <2>1. a \in Seq(S) /\ e \in S /\ Len(a) = n BY <1>2, <1>3, <1>5
  <2> QED BY <2>1
<1> HIDE DEF x
<1>7. ASSUME NEW k \in 1..Len(x) PROVE x[k] = b[k]
  <2>1. k \in 1..n + 1 /\ (k \in 1..n \/ k = n + 1) BY <1>6
  <2>2. b[k] = <<i, k>> BY <1>4, <2>1
  <2>3. CASE k \in 1..n BY <1>3, <1>6, <2>2, <2>3
  <2>4. CASE k = n + 1 BY <1>5, <1>6, <2>2, <2>4
  <2> QED BY <2>1, <2>3, <2>4
<1>8. x = b BY <1>4, <1>6, <1>7, SeqEqual
<1> QED BY <1>3, <1>8 DEF x, a, b, e, S

\* A chunk of a call changes the accumulator of its own index, to what has come.
LEMMA ChunkComes ==
  ASSUME StreamInv, NEW i \in 1..MaxCalls, NEW frags \in {0, 1}, NEW repeat \in BOOLEAN,
         CallChunk(i, frags, repeat)
  PROVE  StreamInv'
<1> DEFINE head == sent[i] = 0
           from == IF head THEN 1 ELSE sent[i]
           whole == Fragments(i, plan[i].frags)
           args == SubSeq(whole, from, from + frags - 1)
           id == IF head \/ repeat THEN i ELSE 0
           named == (head \/ repeat) /\ plan[i].named
           new == Added(Accum(Index(i)), id, named, args)
<1>1. /\ stage = "read" /\ i \in Calls
      /\ from + frags - 1 <= plan[i].frags /\ (head \/ frags = 1)
      /\ sent' = [sent EXCEPT ![i] = from + frags]
      /\ accums' = [x \in DOMAIN accums \cup {Index(i)} |-> IF x = Index(i) THEN new ELSE accums[x]]
      /\ UNCHANGED <<plan, first, stage, pieces, usage, outcome, reply>>
  BY DEF CallChunk
<1>2. /\ plan \in Seq(PlannedCall) /\ first \in {0, 1}
      /\ sent \in [Calls -> Nat] /\ \A j \in Calls : sent[j] <= plan[j].frags + 1
      /\ DOMAIN accums = {Index(j) : j \in Started}
      /\ \A j \in Started : accums[Index(j)] = Come(j)
      /\ outcome # "ok" => reply = NoReply
      /\ outcome = "ok" => stage = "done"
  BY DEF StreamInv
<1>3. Calls = 1..Len(plan) /\ Len(plan) \in Nat /\ i \in Nat /\ i > 0 BY <1>1, <1>2 DEF Calls
<1>4. plan[i].frags \in Nat /\ plan[i].named \in BOOLEAN
  <2>1. plan[i] \in PlannedCall BY <1>1, <1>2, <1>3
  <2> QED BY <2>1, StreamAssumption DEF PlannedCall
<1>5. sent[i] \in Nat /\ from \in Nat /\ from > 0 BY <1>1, <1>2
<1>6. \A j, k \in Calls : Index(j) = Index(k) => j = k BY <1>2, <1>3 DEF Index
<1>7. new = [id |-> i, name |-> plan[i].named, args |-> Fragments(i, from + frags - 1)]
  <2>1. args = IF frags = 0 THEN <<>> ELSE <<<<i, from>>>>
    <3>1. CASE frags = 0 BY <1>4, <1>5, <3>1, FragmentsGrow
    <3>2. CASE frags = 1
      <4>1. from \in 1..plan[i].frags BY <1>1, <1>4, <1>5, <3>2
      <4>2. whole[from] = <<i, from>> BY <4>1 DEF Fragments
      <4>3. whole \in Seq({i} \X Nat) /\ Len(whole) = plan[i].frags BY <1>4, FragmentsGrow
      <4> HIDE DEF whole, from
      <4>4. from + frags - 1 = from BY <1>5, <3>2
      <4>5. SubSeq(whole, from, from) = <<whole[from]>> BY <4>1, <4>3, OneElement
      <4> QED BY <3>2, <4>2, <4>4, <4>5
    <3> QED BY <3>1, <3>2
  <2>2. CASE sent[i] = 0
    <3>1. Index(i) \notin DOMAIN accums
      <4>1. i \notin Started BY <2>2 DEF Started
      <4> QED BY <1>1, <1>2, <1>6, <4>1 DEF Started
    <3>2. Accum(Index(i)) = [id |-> 0, name |-> FALSE, args |-> <<>>] BY <3>1 DEF Accum, NewAccum
    <3>3. new = [id |-> i, name |-> plan[i].named, args |-> <<>> \o args]
      <4> HIDE DEF args
      <4>1. id = i /\ i # 0 BY <1>3, <2>2
      <4>2. (FALSE \/ named) = plan[i].named BY <1>4, <2>2, Zenon
      <4> HIDE DEF id, named
      <4> QED BY <3>2, <4>1, <4>2 DEF Added
    <3>4. <<>> \o args = Fragments(i, from + frags - 1)
      <4>0. from = 1 BY <2>2
      <4>1. CASE frags = 0 BY <2>1, <4>0, <4>1 DEF Fragments
      <4>2. CASE frags = 1
        <5>1. Fragments(i, 0) = <<>> BY DEF Fragments
        <5>2. 0 \in Nat /\ 0 + 1 = 1 /\ from + frags - 1 = 1 BY <4>0, <4>2
        <5>3. Fragments(i, 0) \o <<<<i, 0 + 1>>>> = Fragments(i, 0 + 1) BY <5>2, FragmentsGrow
        <5>4. args = <<<<i, 1>>>> BY <2>1, <4>0, <4>2
        <5> HIDE DEF args
        <5> QED BY <5>1, <5>2, <5>3, <5>4, Zenon
      <4> QED BY <4>1, <4>2
    <3> QED BY <3>3, <3>4
  <2>3. CASE sent[i] # 0
    <3>1. i \in Started BY <1>1, <1>5, <2>3 DEF Started
    <3>2. Accum(Index(i)) = Come(i) BY <1>2, <3>1 DEF Accum
    <3>3. frags = 1 /\ from = sent[i] /\ from + frags - 1 = from /\ from - 1 \in Nat /\ from - 1 + 1 = from
      BY <1>1, <1>5, <2>3
    <3>4. Come(i).args \o args = Fragments(i, from)
      <4>1. Fragments(i, from - 1) \o <<<<i, from - 1 + 1>>>> = Fragments(i, from - 1 + 1)
        BY <3>3, FragmentsGrow
      <4>2. Come(i).args = Fragments(i, from - 1) BY <3>3 DEF Come
      <4>3. args = <<<<i, from>>>> BY <2>1, <3>3
      <4> HIDE DEF args, from
      <4> QED BY <3>3, <4>1, <4>2, <4>3, Zenon
    <3>5. new = [id |-> i, name |-> plan[i].named, args |-> Come(i).args \o args]
      <4> HIDE DEF args
      <4>1. (IF id # 0 THEN id ELSE Come(i).id) = i BY <1>3 DEF Come
      <4>2. (Come(i).name \/ named) = plan[i].named BY <1>4, Zenon DEF Come
      <4> HIDE DEF id, named
      <4> QED BY <3>2, <4>1, <4>2 DEF Added
    <3> QED BY <3>3, <3>4, <3>5
  <2> QED BY <2>2, <2>3
<1> HIDE DEF new
<1>8. sent' \in [Calls -> Nat] /\ sent'[i] = from + frags /\ from + frags > 0
      /\ \A j \in Calls : j # i => sent'[j] = sent[j]
  BY <1>1, <1>2, <1>5
<1>9. \A j \in Calls : sent'[j] <= plan[j].frags + 1
  <2>1. from + frags <= plan[i].frags + 1 BY <1>1, <1>4, <1>5
  <2> QED BY <1>2, <1>8, <2>1
<1> HIDE DEF from
<1>10. Calls' = Calls /\ (\A j : Index(j)' = Index(j)) BY <1>1 DEF Calls, Index
<1>11. Started' = Started \cup {i} BY <1>1, <1>8, <1>10 DEF Started
<1>12. DOMAIN accums' = {Index(j)' : j \in Started'}
  BY <1>1, <1>2, <1>10, <1>11
<1>13. ASSUME NEW j \in Started' PROVE accums'[Index(j)'] = Come(j)'
  <2>1. CASE j = i
    <3>1. accums'[Index(i)] = new BY <1>1
    <3>2. Come(i)' = [id |-> i, name |-> plan[i].named, args |-> Fragments(i, from + frags - 1)]
      <4>1. sent'[i] = from + frags /\ plan' = plan BY <1>1, <1>8
      <4>2. Come(i)' = [id |-> i, name |-> plan'[i].named, args |-> Fragments(i, sent'[i] - 1)]
        BY Zenon DEF Come, Fragments
      <4>3. Fragments(i, sent'[i] - 1) = Fragments(i, from + frags - 1)
        <5>1. sent'[i] - 1 = from + frags - 1 BY <1>5, <4>1
        <5> QED BY <5>1, Zenon
      <4>4. plan'[i].named = plan[i].named BY <4>1
      <4> QED BY <4>2, <4>3, <4>4, Zenon
    <3> QED BY <1>7, <1>10, <2>1, <3>1, <3>2
  <2>2. CASE j # i
    <3>1. j \in Started /\ j \in Calls BY <1>11, <2>2 DEF Started
    <3>2. Index(j) \in DOMAIN accums /\ Index(j) # Index(i) BY <1>1, <1>2, <1>6, <2>2, <3>1
    <3>3. accums'[Index(j)] = Come(j) BY <1>1, <1>2, <3>1, <3>2
    <3>4. Come(j)' = Come(j) BY <1>1, <1>8, <2>2, <3>1 DEF Come
    <3> QED BY <1>10, <3>3, <3>4
  <2> QED BY <2>1, <2>2
<1> QED BY <1>1, <1>2, <1>8, <1>9, <1>10, <1>12, <1>13 DEF StreamInv

LEMMA NextStream == StreamInv /\ [StreamNext]_streamVars => StreamInv'
<1> SUFFICES ASSUME StreamInv, [StreamNext]_streamVars PROVE StreamInv' OBVIOUS
<1> USE DEF StreamInv, Started, Come, Calls, Index
<1>1. CASE RequestFails BY <1>1 DEF RequestFails
<1>2. CASE RequestAnswered BY <1>2 DEF RequestAnswered
<1>3. CASE TextChunk BY <1>3 DEF TextChunk
<1>4. CASE UsageChunk BY <1>4 DEF UsageChunk
<1>5. ASSUME NEW i \in 1..MaxCalls, NEW frags \in {0, 1}, NEW repeat \in BOOLEAN,
             CallChunk(i, frags, repeat)
      PROVE  StreamInv'
  BY <1>5, ChunkComes DEF StreamInv
<1>6. CASE StreamEnds BY <1>6 DEF StreamEnds, Collected
<1>7. CASE ReadFails BY <1>7 DEF ReadFails
<1>8. CASE UNCHANGED streamVars BY <1>8 DEF streamVars, Collected
<1> QED BY <1>1, <1>2, <1>3, <1>4, <1>5, <1>6, <1>7, <1>8 DEF StreamNext

LEMMA StreamInvariant == StreamSpec => []StreamInv
BY InitStream, NextStream, PTL DEF StreamSpec
-------------------------------------------------------------------------------
\* A non-empty set of naturals has a least element.
LEMMA LeastOf ==
  ASSUME NEW T, T \subseteq Nat, T # {}
  PROVE  \E x \in T : \A y \in T : x <= y
<1> DEFINE Less == OpToRel(<, Nat)
<1>1. \A x, y \in Nat : y < x => <<y, x>> \in Less BY DEF OpToRel
<1>2. IsWellFoundedOn(Less, Nat) BY NatLessThanWellFounded
<1> HIDE DEF Less
<1>3. PICK x \in T : \A y \in T : ~(<<y, x>> \in Less) BY <1>2, WFMin
<1>4. ASSUME NEW y \in T PROVE x <= y
  <2>1. x \in Nat /\ y \in Nat OBVIOUS
  <2>2. ~(y < x) BY <1>1, <1>3, <2>1
  <2> QED BY <2>1, <2>2
<1> QED BY <1>4

\* The loop of StreamChat over the indexes: what a round makes of the calls
\* collected so far.
Round(a, n, s) == IF n - 1 \in DOMAIN a /\ a[n - 1].name THEN Append(s, a[n - 1]) ELSE s

Accums(a) == {a[x] : x \in DOMAIN a}

\* The recursive function in Collected has a value for every number of rounds.
LEMMA RoundsUpTo ==
  ASSUME NEW a, NEW n \in Nat
  PROVE  \E f \in [0..n -> Seq(Accums(a))] :
           f[0] = <<>> /\ \A i \in 1..n : f[i] = Round(a, i, f[i - 1])
<1> DEFINE P(k, f) == /\ f \in [0..k -> Seq(Accums(a))] /\ f[0] = <<>>
                      /\ \A i \in 1..k : f[i] = Round(a, i, f[i - 1])
           Bad == {k \in Nat : ~\E f : P(k, f)}
<1>0. ASSUME NEW s \in Seq(Accums(a)), NEW k PROVE Round(a, k, s) \in Seq(Accums(a))
  <2>1. k - 1 \in DOMAIN a => a[k - 1] \in Accums(a) BY DEF Accums
  <2> QED BY <2>1 DEF Round
<1>1. ASSUME Bad # {} PROVE FALSE
  <2>1. Bad \subseteq Nat OBVIOUS
  <2>2. PICK k \in Bad : \A l \in Bad : k <= l
    <3> HIDE DEF Bad
    <3> QED BY <1>1, <2>1, LeastOf
  <2>3. k \in Nat /\ ~\E f : P(k, f) OBVIOUS
  <2>4. k # 0
    <3>1. P(0, [i \in 0..0 |-> <<>>]) OBVIOUS
    <3> QED BY <2>3, <3>1
  <2>5. k - 1 \in Nat /\ ~(k <= k - 1) BY <2>3, <2>4
  <2>6. k - 1 \notin Bad BY <2>2, <2>5
  <2>7. PICK f : P(k - 1, f) BY <2>5, <2>6
  <2> DEFINE last == Round(a, k, f[k - 1])
             g == [i \in 0..k |-> IF i = k THEN last ELSE f[i]]
  <2>8. last \in Seq(Accums(a)) BY <1>0, <2>5, <2>7
  <2>9. f \in [0..k - 1 -> Seq(Accums(a))] /\ f[0] = <<>>
        /\ \A i \in 1..k - 1 : f[i] = Round(a, i, f[i - 1])
    BY <2>7
  <2>a. last = Round(a, k, f[k - 1]) OBVIOUS
  <2> HIDE DEF last
  <2>10. g \in [0..k -> Seq(Accums(a))] BY <2>3, <2>4, <2>8, <2>9
  <2>11. g[0] = <<>> /\ g[k] = last /\ \A i \in 0..k - 1 : g[i] = f[i] BY <2>3, <2>4, <2>9
  <2> HIDE DEF g
  <2>12. ASSUME NEW i \in 1..k PROVE g[i] = Round(a, i, g[i - 1])
    <3>1. i - 1 \in 0..k - 1 /\ (i = k \/ (i \in 0..k - 1 /\ i \in 1..k - 1)) BY <2>3, <2>4
    <3>2. CASE i = k BY <2>11, <2>a, <3>1, <3>2
    <3>3. CASE i \in 1..k - 1 /\ i \in 0..k - 1 BY <2>9, <2>11, <3>1, <3>3
    <3> QED BY <3>1, <3>2, <3>3
  <2>13. P(k, g) BY <2>10, <2>11, <2>12
  <2> QED BY <2>3, <2>13
<1>2. n \notin Bad BY <1>1
<1> QED BY <1>2

LEMMA CollectedRounds ==
  ASSUME IsFiniteSet(DOMAIN accums)
  PROVE  LET n == Cardinality(DOMAIN accums)
         IN /\ n \in Nat
            /\ \E f : /\ f[0] = <<>> /\ \A i \in 1..n : f[i] = Round(accums, i, f[i - 1])
                      /\ Collected = f[n]
<1> DEFINE n == Cardinality(DOMAIN accums)
           Rec(f) == f = [i \in 0..n |-> IF i = 0 THEN <<>>
                                         ELSE IF i - 1 \in DOMAIN accums /\ accums[i - 1].name
                                              THEN Append(f[i - 1], accums[i - 1])
                                         ELSE f[i - 1]]
<1>1. Collected = (CHOOSE f : Rec(f))[n] BY Zenon DEF Collected
<1>2. n \in Nat BY FS_CardinalityType
<1> HIDE DEF n
<1>3. PICK g \in [0..n -> Seq(Accums(accums))] :
        g[0] = <<>> /\ \A i \in 1..n : g[i] = Round(accums, i, g[i - 1])
  BY <1>2, RoundsUpTo
<1>4. Rec(g)
  <2>1. \A i \in 0..n : i = 0 \/ i \in 1..n BY <1>2
  <2> QED BY <1>3, <2>1 DEF Round
<1> DEFINE f == CHOOSE f : Rec(f)
<1>5. Rec(f)
  <2> HIDE DEF Rec
  <2> QED BY <1>4
<1> HIDE DEF f
<1>6. f[0] = <<>>
  <2>1. 0 \in 0..n BY <1>2
  <2> QED BY <1>5, <2>1
<1>7. ASSUME NEW i \in 1..n PROVE f[i] = Round(accums, i, f[i - 1])
  <2>1. i \in 0..n /\ i # 0 BY <1>2
  <2> QED BY <1>5, <2>1 DEF Round
<1> QED BY <1>1, <1>2, <1>6, <1>7 DEF f, n

\* What the loop collects, when the ids rise with the indexes: the named calls
\* below the number of accumulators, each once and in that order.
LEMMA CollectedFacts ==
  ASSUME IsFiniteSet(DOMAIN accums), DOMAIN accums \subseteq Nat,
         \A x \in DOMAIN accums : accums[x].id \in Nat,
         \A x, y \in DOMAIN accums : x < y => accums[x].id < accums[y].id
  PROVE  LET n == Cardinality(DOMAIN accums)
             c == Collected
         IN /\ n \in Nat /\ c \in Seq(Accums(accums))
            /\ \A k \in 1..Len(c) : \E x \in DOMAIN accums : x < n /\ accums[x].name /\ c[k] = accums[x]
            /\ \A x \in DOMAIN accums : x < n /\ accums[x].name => \E k \in 1..Len(c) : c[k] = accums[x]
            /\ \A k \in 2..Len(c) : c[k - 1].id < c[k].id
<1> DEFINE n == Cardinality(DOMAIN accums)
           Good(m, c) ==
             /\ c \in Seq(Accums(accums))
             /\ \A k \in 1..Len(c) : \E x \in DOMAIN accums : x < m /\ accums[x].name /\ c[k] = accums[x]
             /\ \A x \in DOMAIN accums : x < m /\ accums[x].name => \E k \in 1..Len(c) : c[k] = accums[x]
             /\ \A k \in 2..Len(c) : c[k - 1].id < c[k].id
<1>1. n \in Nat /\ \E f : /\ f[0] = <<>> /\ \A i \in 1..n : f[i] = Round(accums, i, f[i - 1])
                          /\ Collected = f[n]
  BY CollectedRounds
<1> HIDE DEF n
<1>2. PICK f : f[0] = <<>> /\ (\A i \in 1..n : f[i] = Round(accums, i, f[i - 1])) /\ Collected = f[n]
  BY <1>1
<1>3. Good(0, f[0])
  <2>1. <<>> \in Seq(Accums(accums)) /\ Len(<<>>) = 0 OBVIOUS
  <2>2. \A x \in DOMAIN accums : ~(x < 0) OBVIOUS
  <2> QED BY <1>2, <2>1, <2>2
<1>4. ASSUME NEW i \in 1..n, Good(i - 1, f[i - 1]) PROVE Good(i, f[i])
  <2> DEFINE s == f[i - 1]
             t == f[i]
  <2>0. i \in Nat /\ i - 1 \in Nat BY <1>1
  <2>1. t = Round(accums, i, s) BY <1>2
  <2>2. /\ s \in Seq(Accums(accums)) /\ Len(s) \in Nat
        /\ \A k \in 1..Len(s) : \E x \in DOMAIN accums : x < i - 1 /\ accums[x].name /\ s[k] = accums[x]
        /\ \A x \in DOMAIN accums : x < i - 1 /\ accums[x].name => \E k \in 1..Len(s) : s[k] = accums[x]
        /\ \A k \in 2..Len(s) : s[k - 1].id < s[k].id
    BY <1>4
  <2> HIDE DEF s, t, Good
  <2>3. \A x \in DOMAIN accums : (x < i - 1 => x < i) /\ (x < i => x < i - 1 \/ x = i - 1) BY <2>0
  <2>4. CASE i - 1 \in DOMAIN accums /\ accums[i - 1].name
    <3> DEFINE e == accums[i - 1]
    <3>1. e \in Accums(accums) BY <2>4 DEF Accums
    <3>2. t = Append(s, e) BY <2>1, <2>4 DEF Round
    <3> HIDE DEF e
    <3>3. /\ t \in Seq(Accums(accums)) /\ Len(t) = Len(s) + 1 /\ t[Len(s) + 1] = e
          /\ \A k \in 1..Len(s) : t[k] = s[k]
      BY <2>2, <3>1, <3>2
    <3>4. ASSUME NEW k \in 1..Len(t)
          PROVE  \E x \in DOMAIN accums : x < i /\ accums[x].name /\ t[k] = accums[x]
      <4>1. k \in 1..Len(s) \/ k = Len(s) + 1 BY <2>2, <3>3
      <4>2. CASE k \in 1..Len(s) BY <2>2, <2>3, <3>3, <4>2
      <4>3. CASE k = Len(s) + 1
        <5>1. i - 1 < i BY <2>0
        <5> QED BY <2>4, <3>3, <4>3, <5>1 DEF e
      <4> QED BY <4>1, <4>2, <4>3
    <3>5. ASSUME NEW x \in DOMAIN accums, x < i, accums[x].name
          PROVE  \E k \in 1..Len(t) : t[k] = accums[x]
      <4>1. Len(s) + 1 \in 1..Len(t) /\ 1..Len(s) \subseteq 1..Len(t) BY <2>2, <3>3
      <4>2. CASE x < i - 1
        <5>1. PICK k \in 1..Len(s) : s[k] = accums[x] BY <2>2, <3>5, <4>2
        <5> QED BY <3>3, <4>1, <5>1
      <4>3. CASE x = i - 1 BY <3>3, <4>1, <4>3 DEF e
      <4> QED BY <2>3, <3>5, <4>2, <4>3
    <3>6. ASSUME NEW k \in 2..Len(t) PROVE t[k - 1].id < t[k].id
      <4>1. k - 1 \in 1..Len(s) /\ (k \in 2..Len(s) \/ k = Len(s) + 1) /\ (k \in 2..Len(s) => k \in 1..Len(s))
        BY <2>2, <3>3
      <4>2. CASE k \in 2..Len(s) BY <2>2, <3>3, <4>1, <4>2
      <4>3. CASE k = Len(s) + 1
        <5>1. PICK x \in DOMAIN accums : x < i - 1 /\ s[k - 1] = accums[x] BY <2>2, <4>1
        <5>2. accums[x].id < e.id BY <2>4, <5>1 DEF e
        <5> QED BY <3>3, <4>1, <4>3, <5>1, <5>2
      <4> QED BY <4>1, <4>2, <4>3
    <3>7. Good(i, t) BY <3>3, <3>4, <3>5, <3>6 DEF Good
    <3> QED BY <3>7 DEF t
  <2>5. CASE ~(i - 1 \in DOMAIN accums /\ accums[i - 1].name)
    <3>1. t = s BY <2>1, <2>5 DEF Round
    <3>2. Good(i, s) BY <2>2, <2>3, <2>5 DEF Good
    <3> QED BY <3>1, <3>2 DEF t
  <2> QED BY <2>4, <2>5
<1> HIDE DEF Good
<1>5. Good(n, f[n])
  <2> DEFINE Bad == {i \in 0..n : ~Good(i, f[i])}
  <2>1. ASSUME Bad # {} PROVE FALSE
    <3>1. Bad \subseteq Nat BY <1>1
    <3>2. PICK i \in Bad : \A j \in Bad : i <= j
      <4> HIDE DEF Bad
      <4> QED BY <2>1, <3>1, LeastOf
    <3>3. i # 0 BY <1>3
    <3>4. i \in 1..n /\ i - 1 \in 0..n /\ ~(i <= i - 1) BY <1>1, <3>3
    <3>5. i - 1 \notin Bad BY <3>2, <3>4
    <3>6. Good(i - 1, f[i - 1]) BY <3>4, <3>5
    <3>7. Good(i, f[i]) BY <1>4, <3>4, <3>6
    <3> QED BY <3>7
  <2> QED BY <1>1, <2>1
<1>6. Good(n, Collected) BY <1>2, <1>5
<1> QED BY <1>1, <1>6 DEF Good, n

\* The accumulators are those of the calls that were started.
LEMMA AccumsFacts ==
  ASSUME StreamInv
  PROVE  /\ IsFiniteSet(DOMAIN accums) /\ DOMAIN accums \subseteq Nat
         /\ \A x \in DOMAIN accums : \E i \in Started : x = Index(i) /\ accums[x] = Come(i)
         /\ \A x \in DOMAIN accums : accums[x].id \in Nat
         /\ \A x, y \in DOMAIN accums : x < y => accums[x].id < accums[y].id
         /\ Started \subseteq Calls /\ Calls = 1..Len(plan) /\ Len(plan) \in Nat
         /\ \A i \in Calls : plan[i].frags \in Nat /\ plan[i].named \in BOOLEAN
<1>1. /\ plan \in Seq(PlannedCall) /\ first \in {0, 1}
      /\ DOMAIN accums = {Index(i) : i \in Started}
      /\ \A i \in Started : accums[Index(i)] = Come(i)
  BY DEF StreamInv
<1>2. Calls = 1..Len(plan) /\ Len(plan) \in Nat /\ Started \subseteq Calls BY <1>1 DEF Calls, Started
<1>3. \A i \in Calls : plan[i].frags \in Nat /\ plan[i].named \in BOOLEAN
  <2>1. \A i \in Calls : plan[i] \in PlannedCall BY <1>1, <1>2
  <2> QED BY <2>1, StreamAssumption DEF PlannedCall
<1>4. \A i \in Started : Index(i) \in 0..Len(plan) /\ i \in Nat BY <1>1, <1>2 DEF Index
<1>5. DOMAIN accums \subseteq 0..Len(plan) BY <1>1, <1>4
<1>6. IsFiniteSet(DOMAIN accums)
  <2>1. IsFiniteSet(0..Len(plan)) BY <1>2, FS_Interval
  <2> QED BY <1>5, <2>1, FS_Subset
<1>7. \A x \in DOMAIN accums : \E i \in Started : x = Index(i) /\ accums[x] = Come(i) BY <1>1
<1>8. \A i \in Started : Come(i).id = i BY DEF Come
<1>9. \A x \in DOMAIN accums : accums[x].id \in Nat BY <1>4, <1>7, <1>8
<1>10. \A i, j \in Started : Index(i) < Index(j) => i < j BY <1>1, <1>4 DEF Index
<1>11. \A x, y \in DOMAIN accums : x < y => accums[x].id < accums[y].id BY <1>7, <1>8, <1>10
<1>12. DOMAIN accums \subseteq Nat BY <1>2, <1>5
<1> QED BY <1>2, <1>3, <1>6, <1>7, <1>9, <1>11, <1>12

\* However the chunks interleave and wherever the stream ends, what is returned
\* is a beginning of what the provider sent of each call, in order, and nothing
\* is returned with an error (StreamChat's loop and its returns).
THEOREM PartialReplyAlways == StreamSpec => []PartialReply
<1>1. ASSUME StreamInv PROVE PartialReply
  <2>1. CASE outcome # "ok" BY <1>1, <2>1 DEF StreamInv, PartialReply
  <2>2. CASE outcome = "ok"
    <3> DEFINE c == Collected
    <3>1. reply.calls = c BY <1>1, <2>2 DEF StreamInv
    <3>2. /\ c \in Seq(Accums(accums))
          /\ \A k \in 1..Len(c) : \E x \in DOMAIN accums : accums[x].name /\ c[k] = accums[x]
          /\ \A k \in 2..Len(c) : c[k - 1].id < c[k].id
      BY <1>1, AccumsFacts, CollectedFacts
    <3> HIDE DEF c
    <3>3. DOMAIN c = 1..Len(c) BY <3>2
    <3>4. ASSUME NEW k \in DOMAIN c
          PROVE  c[k].id \in Calls /\ c[k].name /\ c[k].args = Fragments(c[k].id, sent[c[k].id] - 1)
      <4>1. PICK x \in DOMAIN accums : accums[x].name /\ c[k] = accums[x] BY <3>2, <3>3
      <4>2. PICK i \in Started : accums[x] = Come(i) BY <1>1, AccumsFacts
      <4>3. i \in Calls BY DEF Started
      <4>4. Come(i).id = i /\ Come(i).args = Fragments(i, sent[i] - 1) BY DEF Come
      <4> QED BY <4>1, <4>2, <4>3, <4>4
    <3> QED BY <2>2, <3>1, <3>2, <3>3, <3>4 DEF PartialReply
  <2> QED BY <2>1, <2>2
<1> QED BY <1>1, StreamInvariant, PTL

\* A reply that came to its end is returned whole, but for nameless calls and
\* the last one of a provider that counts from 1 (StreamChat's loop over the
\* accumulators).
THEOREM WholeReplyAlways == StreamSpec => []WholeReply
<1>1. ASSUME StreamInv PROVE WholeReply
  <2> SUFFICES ASSUME outcome = "ok", AllSent
               PROVE  /\ {reply.calls[k] : k \in DOMAIN reply.calls} =
                           {[id |-> i, name |-> TRUE, args |-> Fragments(i, plan[i].frags)] :
                              i \in {j \in Calls : plan[j].named /\ Index(j) < Len(plan)}}
                      /\ \A k \in 2..Len(reply.calls) : reply.calls[k - 1].id < reply.calls[k].id
    BY DEF WholeReply
  <2> DEFINE c == Collected
             n == Cardinality(DOMAIN accums)
             Full(i) == [id |-> i, name |-> TRUE, args |-> Fragments(i, plan[i].frags)]
             Due == {j \in Calls : plan[j].named /\ Index(j) < Len(plan)}
  <2>1. reply.calls = c BY <1>1 DEF StreamInv
  <2>2. /\ c \in Seq(Accums(accums))
        /\ \A k \in 1..Len(c) : \E x \in DOMAIN accums : x < n /\ accums[x].name /\ c[k] = accums[x]
        /\ \A x \in DOMAIN accums : x < n /\ accums[x].name => \E k \in 1..Len(c) : c[k] = accums[x]
        /\ \A k \in 2..Len(c) : c[k - 1].id < c[k].id
    BY <1>1, AccumsFacts, CollectedFacts
  <2>3. /\ Calls = 1..Len(plan) /\ Len(plan) \in Nat
        /\ \A i \in Calls : plan[i].frags \in Nat /\ plan[i].named \in BOOLEAN
        /\ \A x \in DOMAIN accums : \E i \in Started : x = Index(i) /\ accums[x] = Come(i)
    BY <1>1, AccumsFacts
  <2>4. \A i \in Calls : sent[i] = plan[i].frags + 1 BY DEF AllSent
  <2>5. Started = Calls BY <2>3, <2>4 DEF Started
  <2>6. DOMAIN accums = {Index(i) : i \in Calls} /\ first \in {0, 1} BY <1>1, <2>5 DEF StreamInv
  <2>7. n = Len(plan)
    <3>1. DOMAIN accums = first..first + Len(plan) - 1
      <4>1. \A i \in Calls : Index(i) \in first..first + Len(plan) - 1 BY <2>3, <2>6 DEF Index
      <4>2. ASSUME NEW x \in first..first + Len(plan) - 1 PROVE \E i \in Calls : x = Index(i)
        <5>1. x - first + 1 \in Calls /\ x = first + (x - first + 1) - 1 BY <2>3, <2>6
        <5> QED BY <5>1 DEF Index
      <4> QED BY <2>6, <4>1, <4>2
    <3>2. Cardinality(first..first + Len(plan) - 1) = Len(plan)
      <4> DEFINE b == first + Len(plan) - 1
      <4>1. first \in Int /\ b \in Int BY <2>3, <2>6
      <4>2. (IF first > b THEN 0 ELSE b - first + 1) = Len(plan) BY <2>3, <2>6
      <4> HIDE DEF b
      <4>3. Cardinality(first..b) = Len(plan) BY <4>1, <4>2, FS_Interval
      <4> QED BY <4>3 DEF b
    <3> QED BY <3>1, <3>2
  <2> HIDE DEF c, n
  <2>8. ASSUME NEW i \in Calls, plan[i].named PROVE Come(i) = Full(i)
    <3>1. sent[i] - 1 = plan[i].frags BY <2>3, <2>4
    <3>2. plan[i].named = TRUE BY <2>3, <2>8, Zenon
    <3>3. Come(i) = [id |-> i, name |-> plan[i].named, args |-> Fragments(i, sent[i] - 1)] BY DEF Come
    <3> QED BY <3>1, <3>2, <3>3, Zenon
  <2> HIDE DEF Full
  <2>9. DOMAIN c = 1..Len(c) BY <2>2
  <2>10. ASSUME NEW k \in DOMAIN c PROVE \E i \in Due : c[k] = Full(i)
    <3>1. PICK x \in DOMAIN accums : x < n /\ accums[x].name /\ c[k] = accums[x] BY <2>2, <2>9
    <3>2. PICK i \in Calls : x = Index(i) /\ accums[x] = Come(i) BY <2>3, <2>5
    <3>3. plan[i].named BY <3>1, <3>2 DEF Come
    <3> QED BY <2>7, <2>8, <3>1, <3>2, <3>3
  <2>11. ASSUME NEW i \in Due PROVE \E k \in DOMAIN c : c[k] = Full(i)
    <3>1. i \in Calls /\ plan[i].named /\ Index(i) < n BY <2>7
    <3>2. Index(i) \in DOMAIN accums /\ accums[Index(i)] = Come(i) BY <1>1, <2>5, <2>6, <3>1 DEF StreamInv
    <3>3. Come(i).name BY <3>1 DEF Come
    <3>4. \E k \in 1..Len(c) : c[k] = accums[Index(i)] BY <2>2, <3>1, <3>2, <3>3
    <3> QED BY <2>8, <2>9, <3>1, <3>2, <3>4
  <2>12. {c[k] : k \in DOMAIN c} = {Full(i) : i \in Due} BY <2>10, <2>11
  <2> QED BY <2>1, <2>2, <2>12 DEF Full
<1> QED BY <1>1, StreamInvariant, PTL
===============================================================================
