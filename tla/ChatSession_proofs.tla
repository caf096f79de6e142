-------------------------- MODULE ChatSession_proofs --------------------------
(***************************************************************************)
(* Proofs, for any number of handlers, sessions and messages, either store *)
(* and every fault, that ChatStream is type correct and that a session     *)
(* always holds the most recent messages pushed to it, within its bound,   *)
(* and of the loops' messages only those of answered turns.                *)
(* Over the in-memory store tool rounds stay whole.  Where turns of one    *)
(* session exclude each other and nothing fails, each answers its own      *)
(* message and the conversation is stored in order.                        *)
(***************************************************************************)
EXTENDS ChatSession, TLAPS

\* A busy handler has a turn number.
TurnInv == \A h \in Handlers : Busy(h) => turn[h] \in Turns

LEMMA TrimFacts ==
  ASSUME NEW S, NEW s \in Seq(S)
  PROVE  /\ Trim(s) \in Seq(S)
         /\ Len(Trim(s)) <= Len(s)
         /\ \A i \in 1..Len(Trim(s)) : Trim(s)[i] = s[Len(s) - Len(Trim(s)) + i]
         /\ Len(Trim(s)) = Len(s) \/ (MaxMessages > 0 /\ Len(Trim(s)) = MaxMessages)
<1>1. CASE MaxMessages <= 0 \/ Len(s) <= MaxMessages
  BY <1>1 DEF Trim
<1>2. CASE ~(MaxMessages <= 0 \/ Len(s) <= MaxMessages)
  <2>1. MaxMessages \in Nat /\ MaxMessages > 0 /\ MaxMessages < Len(s)
    BY <1>2, MaxMessagesAssumption
  <2>2. Trim(s) = SubSeq(s, Len(s) - MaxMessages + 1, Len(s))
    BY <1>2 DEF Trim
  <2> QED BY <2>1, <2>2
<1> QED BY <1>1, <1>2

LEMMA DeltasType == ASSUME NEW t \in Turns PROVE Deltas(t) \subseteq Seq(Msg)
<1>1. \A r \in Roles : [turn |-> t, role |-> r] \in Msg BY DEF Msg
<1> QED BY <1>1 DEF Deltas, Roles

LEMMA UserMsgType == ASSUME NEW t \in Turns PROVE UserMsg(t) \in Msg
BY DEF UserMsg, Msg, Roles

LEMMA InitTyped == Init => TypeOK /\ TurnInv
<1> SUFFICES ASSUME Init PROVE TypeOK /\ TurnInv
    OBVIOUS
<1>1. pg \in BOOLEAN
  <2>1. pg \in PGAtStart BY DEF Init
  <2> QED BY <2>1, Zenon DEF PGAtStart
<1> QED BY <1>1, MaxSentAssumption DEF Init, TypeOK, TurnInv, Busy, Turns

\* The store is chosen when the process starts, and no step changes it.
LEMMA SameBackend == [Next]_vars => backend' = backend
BY DEF Next, HandlerStep, Receive, MemoryAppend, RedisPush, RedisTrim, RedisDrop, Get, GetFails,
       Prepare, LoopFails, LoopSucceeds, Reconnect, Expire, Restart, vars

\* What Return and Continue leave behind.
ReturnPost ==
  /\ pc' \in [Handlers -> {"idle", "append", "get", "prepare", "loop", "save", "closed"}]
  /\ outcome' \in [Turns -> {"none", "ok", "err", "panic", "lost"}]
  /\ delta' \in [Handlers -> Seq(Msg)] /\ full' \in [Handlers -> Seq(Msg)]
  /\ \A g \in Handlers : Busy(g)' => Busy(g)

LEMMA TurnKept ==
  TurnInv /\ UNCHANGED turn /\ (\A g \in Handlers : Busy(g)' => Busy(g)) => TurnInv'
BY DEF TurnInv

LEMMA ReturnTyped ==
  ASSUME TypeOK, NEW h \in Handlers, NEW how \in {"ok", "err", "panic"},
         NEW place \in {"idle", "closed"}, Return(h, how, place)
  PROVE  ReturnPost
<1>1. pc' = [pc EXCEPT ![h] = place] BY DEF Return
<1>2. \A g \in Handlers : Busy(g)' => Busy(g) BY <1>1 DEF TypeOK, Busy
<1>3. outcome' \in [Turns -> {"none", "ok", "err", "panic", "lost"}]
  BY DEF Return, TypeOK
<1>4. delta' \in [Handlers -> Seq(Msg)] /\ full' \in [Handlers -> Seq(Msg)]
  BY DEF Return, TypeOK
<1>5. pc' \in [Handlers -> {"idle", "append", "get", "prepare", "loop", "save", "closed"}]
  BY <1>1 DEF TypeOK
<1> QED BY <1>2, <1>3, <1>4, <1>5 DEF ReturnPost

LEMMA ContinueTyped ==
  ASSUME TypeOK, NEW h \in Handlers, Continue(h)
  PROVE  ReturnPost
<1>1. CASE pc[h] = "append" /\ pc' = [pc EXCEPT ![h] = "get"]
           /\ UNCHANGED <<outcome, full, delta>>
  BY <1>1 DEF ReturnPost, TypeOK, Busy
<1>2. CASE Return(h, "ok", "idle")
  BY <1>2, ReturnTyped
<1> QED BY <1>1, <1>2 DEF Continue

\* Types, one action at a time.
LEMMA NextTyped == TypeOK /\ TurnInv /\ [Next]_vars => TypeOK' /\ TurnInv'
<1> SUFFICES ASSUME TypeOK, TurnInv, [Next]_vars PROVE TypeOK' /\ TurnInv'
    OBVIOUS
<1> USE MaxSentAssumption
<1>1. ASSUME NEW h \in Handlers, NEW k \in Keys, Receive(h, k) PROVE TypeOK' /\ TurnInv'
  <2>1. sent + 1 \in Turns BY <1>1 DEF Receive, Turns, TypeOK
  <2>2. <<UserMsg(sent + 1)>> \in Seq(Msg) BY <2>1, UserMsgType
  <2> QED BY <1>1, <2>1, <2>2 DEF Receive, TypeOK, TurnInv, Busy, Turns
<1>2. ASSUME NEW h \in Handlers, MemoryAppend(h) PROVE TypeOK' /\ TurnInv'
  <2>1. Continue(h) /\ UNCHANGED <<key, turn, sent, pg, backend>> BY <1>2 DEF MemoryAppend
  <2>2. key[h] \in Keys /\ stm[key[h]] \in Seq(Msg) /\ queue[h] \in Seq(Msg)
        /\ log[key[h]] \in Seq(Msg)
    BY DEF TypeOK
  <2>3. stm[key[h]] \o queue[h] \in Seq(Msg) /\ log[key[h]] \o queue[h] \in Seq(Msg)
    BY <2>2
  <2>4. Trim(stm[key[h]] \o queue[h]) \in Seq(Msg) BY <2>3, TrimFacts
  <2>5. /\ stm' \in [Keys -> Seq(Msg)] /\ log' \in [Keys -> Seq(Msg)]
        /\ queue' \in [Handlers -> Seq(Msg)]
    BY <1>2, <2>3, <2>4 DEF MemoryAppend, TypeOK
  <2> QED BY <2>1, <2>5, ContinueTyped, TurnKept DEF TypeOK, ReturnPost
<1>3. ASSUME NEW h \in Handlers, RedisPush(h) PROVE TypeOK' /\ TurnInv'
  BY <1>3 DEF RedisPush, TypeOK, TurnInv, Busy
<1>4. ASSUME NEW h \in Handlers, RedisTrim(h) PROVE TypeOK' /\ TurnInv'
  <2>1. Continue(h) /\ UNCHANGED <<log, key, turn, queue, sent, pg, backend>>
    BY <1>4 DEF RedisTrim
  <2>2. Trim(stm[key[h]]) \in Seq(Msg) BY TrimFacts DEF TypeOK
  <2>3. stm' \in [Keys -> Seq(Msg)] BY <1>4, <2>2 DEF RedisTrim, TypeOK
  <2> QED BY <2>1, <2>3, ContinueTyped, TurnKept DEF TypeOK, ReturnPost
<1>5. ASSUME NEW h \in Handlers, RedisDrop(h) PROVE TypeOK' /\ TurnInv'
  <2>1. Continue(h) /\ UNCHANGED <<stm, log, key, turn, sent, pg, backend>> BY <1>5 DEF RedisDrop
  <2>2. queue' \in [Handlers -> Seq(Msg)] BY <1>5 DEF RedisDrop, TypeOK
  <2> QED BY <2>1, <2>2, ContinueTyped, TurnKept DEF TypeOK, ReturnPost
<1>6. ASSUME NEW h \in Handlers, Get(h) PROVE TypeOK' /\ TurnInv'
  <2>1. CASE stm[key[h]] = <<>>
    <3>1. Return(h, "err", "idle") /\ UNCHANGED <<stm, log, key, turn, queue, sent, pg, backend>>
      BY <1>6, <2>1 DEF Get
    <3> QED BY <3>1, ReturnTyped, TurnKept DEF TypeOK, ReturnPost
  <2>2. CASE stm[key[h]] # <<>>
    <3>1. /\ pc[h] = "get" /\ pc' = [pc EXCEPT ![h] = "prepare"]
          /\ full' = [full EXCEPT ![h] = stm[key[h]]]
          /\ UNCHANGED <<stm, log, key, turn, queue, sent, outcome, delta, pg, backend>>
      BY <1>6, <2>2 DEF Get
    <3>2. stm[key[h]] \in Seq(Msg) BY DEF TypeOK
    <3>3. full' \in [Handlers -> Seq(Msg)] BY <3>1, <3>2 DEF TypeOK
    <3>4. TurnInv' BY <3>1 DEF TypeOK, TurnInv, Busy
    <3> QED BY <3>1, <3>3, <3>4 DEF TypeOK
  <2> QED BY <2>1, <2>2
<1>7. ASSUME NEW h \in Handlers, GetFails(h) PROVE TypeOK' /\ TurnInv'
  <2>1. Return(h, "err", "idle") /\ UNCHANGED <<stm, log, key, turn, queue, sent, pg, backend>>
    BY <1>7 DEF GetFails
  <2> QED BY <2>1, ReturnTyped, TurnKept DEF TypeOK, ReturnPost
<1>8. ASSUME NEW h \in Handlers, Prepare(h) PROVE TypeOK' /\ TurnInv'
  <2>0. UNCHANGED <<stm, log, key, turn, queue, sent, pg, backend>> BY <1>8 DEF Prepare, SelectForTurnFails
  <2>1. CASE Return(h, "panic", "closed")
    BY <2>0, <2>1, ReturnTyped, TurnKept DEF TypeOK, ReturnPost
  <2>2. CASE Return(h, "err", "idle")
    BY <2>0, <2>2, ReturnTyped, TurnKept DEF TypeOK, ReturnPost
  <2>3. CASE pc' = [pc EXCEPT ![h] = "loop"] /\ UNCHANGED <<outcome, delta, full>>
    BY <1>8, <2>0, <2>3 DEF Prepare, SelectForTurnFails, TypeOK, TurnInv, Busy
  <2> QED BY <1>8, <2>1, <2>2, <2>3 DEF Prepare, SelectForTurnFails
<1>9. ASSUME NEW h \in Handlers, LoopFails(h) PROVE TypeOK' /\ TurnInv'
  <2>1. Return(h, "err", "idle") /\ UNCHANGED <<stm, log, key, turn, queue, sent, pg, backend>>
    BY <1>9 DEF LoopFails
  <2> QED BY <2>1, ReturnTyped, TurnKept DEF TypeOK, ReturnPost
<1>10. ASSUME NEW h \in Handlers, LoopSucceeds(h) PROVE TypeOK' /\ TurnInv'
  <2>1. Deltas(turn[h]) \subseteq Seq(Msg)
    BY <1>10, DeltasType DEF LoopSucceeds, TurnInv, Busy
  <2> QED BY <1>10, <2>1 DEF LoopSucceeds, TypeOK, TurnInv, Busy
<1>11. ASSUME NEW h \in Handlers, Reconnect(h) PROVE TypeOK' /\ TurnInv'
  BY <1>11 DEF Reconnect, TypeOK, TurnInv, Busy
<1>12. ASSUME NEW k \in Keys, Expire(k) PROVE TypeOK' /\ TurnInv'
  BY <1>12 DEF Expire, TypeOK, TurnInv, Busy
<1>13. CASE Restart
  <2>1. /\ pc' = [h \in Handlers |-> "idle"] /\ UNCHANGED <<key, turn, sent>>
        /\ pg' \in BOOLEAN /\ backend' = backend /\ queue' = [h \in Handlers |-> <<>>]
        /\ delta' = [h \in Handlers |-> <<>>] /\ full' = [h \in Handlers |-> <<>>]
    BY <1>13 DEF Restart, PGAtStart
  <2>2. outcome' \in [Turns -> {"none", "ok", "err", "panic", "lost"}]
    <3> DEFINE gone(t) == \E h \in Handlers : Busy(h) /\ turn[h] = t
    <3>1. outcome' = [t \in Turns |-> IF gone(t) THEN "lost" ELSE outcome[t]]
      BY <1>13 DEF Restart
    <3> HIDE DEF gone
    <3> QED BY <3>1 DEF TypeOK
  <2>3. stm' \in [Keys -> Seq(Msg)] /\ log' \in [Keys -> Seq(Msg)]
    <3>1. \/ stm' = [k \in Keys |-> <<>>] /\ log' = [k \in Keys |-> <<>>]
          \/ stm' = stm /\ log' = log
      BY <1>13 DEF Restart
    <3>2. [k \in Keys |-> <<>>] \in [Keys -> Seq(Msg)] OBVIOUS
    <3> QED BY <3>1, <3>2 DEF TypeOK
  <2>4. TurnInv' BY <2>1 DEF TurnInv, Busy
  <2> QED BY <2>1, <2>2, <2>3, <2>4 DEF TypeOK
<1>14. CASE UNCHANGED vars
  BY <1>14 DEF vars, TypeOK, TurnInv, Busy
<1> QED BY <1>1, <1>2, <1>3, <1>4, <1>5, <1>6, <1>7, <1>8, <1>9, <1>10, <1>11,
          <1>12, <1>13, <1>14 DEF Next, HandlerStep

\* ChatStream and the store are type correct under every interleaving.
THEOREM TypeCorrect == Spec => [](TypeOK /\ TurnInv)
BY InitTyped, NextTyped, PTL DEF Spec
-------------------------------------------------------------------------------
(***************************************************************************)
(* StoredIsRecent is inductive given the types: every action pushes the    *)
(* same messages to stm and log, trims stm only, or empties both.          *)
(***************************************************************************)
Recent(a, b) ==
  /\ IsEndOf(a, b)
  /\ Len(a) >= Len(b) \/ (MaxMessages > 0 /\ Len(a) >= MaxMessages)

LEMMA RecentPush ==
  ASSUME NEW a \in Seq(Msg), NEW b \in Seq(Msg), NEW c \in Seq(Msg), Recent(a, b)
  PROVE  Recent(a \o c, b \o c)
<1> DEFINE x == a \o c
           y == b \o c
<1>1. /\ x \in Seq(Msg) /\ Len(x) = Len(a) + Len(c)
      /\ \A i \in 1..Len(a) : x[i] = a[i]
      /\ \A i \in 1..Len(c) : x[Len(a) + i] = c[i]
  OBVIOUS
<1>2. /\ y \in Seq(Msg) /\ Len(y) = Len(b) + Len(c)
      /\ \A i \in 1..Len(b) : y[i] = b[i]
      /\ \A i \in 1..Len(c) : y[Len(b) + i] = c[i]
  OBVIOUS
<1> HIDE DEF x, y
<1>3. Len(a) \in Nat /\ Len(b) \in Nat /\ Len(c) \in Nat /\ Len(a) <= Len(b)
  BY DEF Recent, IsEndOf
<1>4. ASSUME NEW i \in 1..Len(x) PROVE x[i] = y[Len(y) - Len(x) + i]
  <2>1. CASE i \in 1..Len(a)
    <3>1. Len(b) - Len(a) + i \in 1..Len(b) BY <1>3, <2>1
    <3>2. a[i] = b[Len(b) - Len(a) + i] BY <2>1 DEF Recent, IsEndOf
    <3>3. Len(y) - Len(x) + i = Len(b) - Len(a) + i BY <1>1, <1>2, <1>3
    <3> QED BY <1>1, <1>2, <2>1, <3>1, <3>2, <3>3
  <2>2. CASE i \notin 1..Len(a)
    <3>1. PICK j \in 1..Len(c) : i = Len(a) + j
      <4>1. i - Len(a) \in 1..Len(c) /\ i = Len(a) + (i - Len(a)) BY <1>1, <1>3, <2>2
      <4> QED BY <4>1
    <3>2. Len(y) - Len(x) + i = Len(b) + j BY <1>1, <1>2, <1>3, <3>1
    <3> QED BY <1>1, <1>2, <3>1, <3>2
  <2> QED BY <2>1, <2>2
<1>5. Len(x) <= Len(y) BY <1>1, <1>2, <1>3
<1>6. Len(x) >= Len(y) \/ (MaxMessages > 0 /\ Len(x) >= MaxMessages)
  BY <1>1, <1>2, <1>3, MaxMessagesAssumption DEF Recent
<1>7. Recent(x, y) BY <1>4, <1>5, <1>6 DEF Recent, IsEndOf
<1> QED BY <1>7 DEF x, y

LEMMA RecentTrim ==
  ASSUME NEW a \in Seq(Msg), NEW b \in Seq(Msg), Recent(a, b)
  PROVE  Recent(Trim(a), b)
<1> DEFINE x == Trim(a)
<1>1. /\ x \in Seq(Msg) /\ Len(x) <= Len(a)
      /\ \A i \in 1..Len(x) : x[i] = a[Len(a) - Len(x) + i]
      /\ Len(x) = Len(a) \/ (MaxMessages > 0 /\ Len(x) = MaxMessages)
  BY TrimFacts
<1> HIDE DEF x
<1>2. Len(a) \in Nat /\ Len(b) \in Nat /\ Len(x) \in Nat /\ Len(a) <= Len(b)
  BY <1>1 DEF Recent, IsEndOf
<1>3. ASSUME NEW i \in 1..Len(x) PROVE x[i] = b[Len(b) - Len(x) + i]
  <2>1. PICK j \in 1..Len(a) : j = Len(a) - Len(x) + i
    <3>1. Len(a) - Len(x) + i \in 1..Len(a) BY <1>1, <1>2
    <3> QED BY <3>1
  <2>2. a[j] = b[Len(b) - Len(a) + j] BY DEF Recent, IsEndOf
  <2>3. Len(b) - Len(a) + j = Len(b) - Len(x) + i BY <1>2, <2>1
  <2> QED BY <1>1, <2>1, <2>2, <2>3
<1>4. Recent(x, b)
  BY <1>1, <1>2, <1>3, MaxMessagesAssumption DEF Recent, IsEndOf
<1> QED BY <1>4 DEF x

LEMMA RecentEmpty == Recent(<<>>, <<>>)
BY DEF Recent, IsEndOf

LEMMA NextRecent ==
  TypeOK /\ StoredIsRecent /\ [Next]_vars => StoredIsRecent'
<1> SUFFICES ASSUME TypeOK, \A k \in Keys : Recent(stm[k], log[k]), [Next]_vars
             PROVE  \A k \in Keys : Recent(stm'[k], log'[k])
    BY DEF StoredIsRecent, Recent
<1>0. /\ stm \in [Keys -> Seq(Msg)] /\ log \in [Keys -> Seq(Msg)]
      /\ queue \in [Handlers -> Seq(Msg)] /\ key \in [Handlers -> Keys]
  BY DEF TypeOK
<1>1. CASE UNCHANGED <<stm, log>> BY <1>1
<1>2. ASSUME NEW h \in Handlers, MemoryAppend(h)
      PROVE  \A k \in Keys : Recent(stm'[k], log'[k])
  <2>0. key[h] \in Keys /\ stm[key[h]] \in Seq(Msg) /\ log[key[h]] \in Seq(Msg)
        /\ queue[h] \in Seq(Msg)
    BY <1>0
  <2>1. Recent(stm[key[h]] \o queue[h], log[key[h]] \o queue[h])
    BY <2>0, RecentPush
  <2>2. stm[key[h]] \o queue[h] \in Seq(Msg) /\ log[key[h]] \o queue[h] \in Seq(Msg)
    BY <2>0
  <2>3. Recent(Trim(stm[key[h]] \o queue[h]), log[key[h]] \o queue[h])
    BY <2>1, <2>2, RecentTrim
  <2> QED BY <1>0, <1>2, <2>3 DEF MemoryAppend
<1>3. ASSUME NEW h \in Handlers, RedisPush(h)
      PROVE  \A k \in Keys : Recent(stm'[k], log'[k])
  <2>1. Head(queue[h]) \in Msg BY <1>0, <1>3 DEF RedisPush
  <2>2. \A s \in Seq(Msg) : Append(s, Head(queue[h])) = s \o <<Head(queue[h])>>
    BY <2>1
  <2>0. key[h] \in Keys /\ stm[key[h]] \in Seq(Msg) /\ log[key[h]] \in Seq(Msg)
        /\ <<Head(queue[h])>> \in Seq(Msg)
    BY <1>0, <2>1
  <2>3. Recent(stm[key[h]] \o <<Head(queue[h])>>, log[key[h]] \o <<Head(queue[h])>>)
    BY <2>0, RecentPush
  <2> QED BY <1>0, <1>3, <2>2, <2>3 DEF RedisPush
<1>4. ASSUME NEW h \in Handlers, RedisTrim(h)
      PROVE  \A k \in Keys : Recent(stm'[k], log'[k])
  <2>1. Recent(Trim(stm[key[h]]), log[key[h]]) BY <1>0, RecentTrim
  <2> QED BY <1>0, <1>4, <2>1 DEF RedisTrim
<1>5. ASSUME NEW k \in Keys, Expire(k)
      PROVE  \A q \in Keys : Recent(stm'[q], log'[q])
  BY <1>0, <1>5, RecentEmpty DEF Expire
<1>6. CASE Restart
  BY <1>6, RecentEmpty DEF Restart
<1> QED BY <1>1, <1>2, <1>3, <1>4, <1>5, <1>6
        DEF Next, HandlerStep, Receive, RedisDrop, Get, GetFails, Prepare,
            LoopFails, LoopSucceeds, Reconnect, vars

\* Whatever handlers interleave and whatever fails, the store never loses a
\* recent message while it keeps an older one, and never trims below
\* MaxMessages (session.Store Append, appendRedis, trimLocked).
THEOREM StoredIsRecentAlways == Spec => []StoredIsRecent
<1>1. Init => StoredIsRecent
  BY DEF Init, StoredIsRecent, IsEndOf
<1> QED BY <1>1, TypeCorrect, NextRecent, PTL DEF Spec
-------------------------------------------------------------------------------
(***************************************************************************)
(* Only an answered turn stores what its loop produced.  A turn that       *)
(* returns an error marks its own number: for nothing stored to carry that *)
(* mark, the number must be the turn's own and not marked before.          *)
(***************************************************************************)
TurnsApart ==
  /\ \A h \in Handlers : Busy(h) => turn[h] <= sent /\ outcome[turn[h]] = "none"
  /\ \A g, h \in Handlers : Busy(g) /\ Busy(h) /\ turn[g] = turn[h] => g = h
  /\ \A t \in Turns : t > sent => outcome[t] = "none"

QueueOfTurn ==
  \A h \in Handlers : \A i \in 1..Len(queue[h]) :
    /\ pc[h] = "append" => queue[h][i].role = "user"
    /\ pc[h] = "save" => queue[h][i].turn = turn[h]

\* Message m of session k may be there.
Accounted(k, m) ==
  m.role # "user" =>
    \/ outcome[m.turn] \in {"ok", "lost"}
    \/ \E h \in Handlers : pc[h] = "save" /\ key[h] = k /\ turn[h] = m.turn

StoredInv == TurnsApart /\ QueueOfTurn /\ OnlyAnsweredStored

LEMMA OnlyAnsweredIs ==
  OnlyAnsweredStored <=> \A k \in Keys : \A i \in 1..Len(log[k]) : Accounted(k, log[k][i])
BY DEF OnlyAnsweredStored, Accounted

\* A handler that returns leaves the messages of all turns accounted for,
\* unless it returns an error after it came to store its own.
LEMMA ReturnAccounts ==
  ASSUME TypeOK, TurnInv, TurnsApart, NEW h \in Handlers, Busy(h),
         NEW how \in {"ok", "err", "panic"}, NEW place \in {"idle", "closed"},
         Return(h, how, place), UNCHANGED <<key, turn>>,
         pc[h] = "save" => how = "ok",
         NEW k \in Keys, NEW m \in Msg, Accounted(k, m)
  PROVE  Accounted(k, m)'
<1>1. /\ pc' = [pc EXCEPT ![h] = place] /\ outcome' = [outcome EXCEPT ![turn[h]] = how]
      /\ turn[h] \in Turns /\ m.turn \in Turns
  BY DEF Return, TurnInv, Msg
<1>2. /\ outcome'[turn[h]] = how
      /\ \A t \in Turns : t # turn[h] => outcome'[t] = outcome[t]
      /\ \A g \in Handlers : g # h => pc'[g] = pc[g]
  BY <1>1 DEF TypeOK
<1>3. CASE m.role = "user" BY <1>3 DEF Accounted
<1>4. CASE outcome[m.turn] \in {"ok", "lost"}
  <2>1. m.turn # turn[h] BY <1>4 DEF TurnsApart
  <2> QED BY <1>1, <1>2, <1>4, <2>1 DEF Accounted
<1>5. ASSUME NEW g \in Handlers, pc[g] = "save", key[g] = k, turn[g] = m.turn
      PROVE  Accounted(k, m)'
  <2>1. CASE g = h BY <1>2, <1>5, <2>1 DEF Accounted
  <2>2. CASE g # h
    <3>1. pc'[g] = "save" /\ key'[g] = k /\ turn'[g] = m.turn BY <1>2, <1>5, <2>2
    <3> QED BY <3>1 DEF Accounted
  <2> QED BY <2>1, <2>2
<1> QED BY <1>3, <1>4, <1>5 DEF Accounted

\* An Append ends, and ChatStream goes on or returns.
LEMMA ContinueAccounts ==
  ASSUME TypeOK, TurnInv, TurnsApart, NEW h \in Handlers, Continue(h), UNCHANGED <<key, turn>>,
         NEW k \in Keys, NEW m \in Msg, Accounted(k, m)
  PROVE  Accounted(k, m)'
<1>1. CASE pc[h] = "append" /\ pc' = [pc EXCEPT ![h] = "get"] /\ UNCHANGED <<outcome, full, delta>>
  <2>1. \A g \in Handlers : pc[g] = "save" => pc'[g] = "save" BY <1>1 DEF TypeOK
  <2> QED BY <1>1, <2>1 DEF Accounted
<1>2. CASE pc[h] = "save" /\ Return(h, "ok", "idle")
  <2>1. Busy(h) BY <1>2 DEF Busy
  <2> QED BY <1>2, <2>1, ReturnAccounts
<1> QED BY <1>1, <1>2 DEF Continue

\* The numbers of the running turns stay apart when no turn begins, and a turn
\* that returns marks its own number only.
LEMMA ReturnApart ==
  ASSUME TypeOK, TurnInv, TurnsApart, NEW h \in Handlers, Busy(h), UNCHANGED <<turn, sent>>,
         NEW how, NEW place \in {"idle", "closed"}, Return(h, how, place)
  PROVE  TurnsApart'
<1>1. /\ pc' = [pc EXCEPT ![h] = place] /\ outcome' = [outcome EXCEPT ![turn[h]] = how]
      /\ turn[h] \in Turns /\ turn[h] <= sent /\ sent \in Nat
  BY MaxSentAssumption DEF Return, TurnInv, TurnsApart, TypeOK
<1>2. \A t \in Turns : t # turn[h] => outcome'[t] = outcome[t] BY <1>1 DEF TypeOK
<1>3. \A g \in Handlers : Busy(g)' => g # h /\ Busy(g) BY <1>1 DEF TypeOK, Busy
<1>4. ASSUME NEW g \in Handlers, Busy(g)' PROVE turn'[g] <= sent' /\ outcome'[turn'[g]] = "none"
  <2>1. g # h /\ Busy(g) /\ turn[g] \in Turns /\ turn[g] # turn[h]
    BY <1>3, <1>4 DEF TurnsApart, TurnInv
  <2> QED BY <1>2, <2>1 DEF TurnsApart
<1>5. \A g, f \in Handlers : Busy(g)' /\ Busy(f)' /\ turn'[g] = turn'[f] => g = f
  BY <1>3 DEF TurnsApart
<1>6. ASSUME NEW t \in Turns, t > sent' PROVE outcome'[t] = "none"
  <2>1. t # turn[h] BY <1>1, <1>6 DEF Turns
  <2> QED BY <1>2, <1>6, <2>1 DEF TurnsApart
<1> QED BY <1>4, <1>5, <1>6 DEF TurnsApart

LEMMA MoveApart ==
  ASSUME TurnsApart, UNCHANGED <<turn, sent, outcome>>, \A g \in Handlers : Busy(g)' => Busy(g)
  PROVE  TurnsApart'
BY DEF TurnsApart

LEMMA ContinueApart ==
  ASSUME TypeOK, TurnInv, TurnsApart, NEW h \in Handlers, Continue(h), UNCHANGED <<turn, sent>>
  PROVE  TurnsApart'
<1>1. CASE pc[h] = "append" /\ pc' = [pc EXCEPT ![h] = "get"] /\ UNCHANGED outcome
  <2>1. \A g \in Handlers : Busy(g)' => Busy(g) BY <1>1 DEF TypeOK, Busy
  <2> QED BY <1>1, <2>1, MoveApart
<1>2. CASE pc[h] = "save" /\ Return(h, "ok", "idle")
  <2>1. Busy(h) BY <1>2 DEF Busy
  <2> QED BY <1>2, <2>1, ReturnApart
<1> QED BY <1>1, <1>2 DEF Continue

\* A step that stores nothing.
LEMMA QuietStored ==
  ASSUME TypeOK, OnlyAnsweredStored, UNCHANGED log,
         \A k \in Keys : \A m \in Msg : Accounted(k, m) => Accounted(k, m)'
  PROVE  OnlyAnsweredStored'
<1>1. ASSUME NEW k \in Keys, NEW i \in 1..Len(log[k]), NEW m \in Msg, m = log[k][i]
      PROVE  Accounted(k, m)'
  <2>1. Accounted(k, m) BY <1>1, OnlyAnsweredIs
  <2> QED BY <2>1
<1>2. \A k \in Keys : \A i \in 1..Len(log[k]) : log[k][i] \in Msg BY DEF TypeOK
<1> QED BY <1>1, <1>2 DEF OnlyAnsweredStored, Accounted

\* A step of handler h that adds c to its session.
LEMMA PushStored ==
  ASSUME TypeOK, OnlyAnsweredStored, NEW q \in Keys, NEW c \in Seq(Msg),
         log' = [log EXCEPT ![q] = @ \o c],
         \A k \in Keys : \A m \in Msg : Accounted(k, m) => Accounted(k, m)',
         \A i \in 1..Len(c) : Accounted(q, c[i])'
  PROVE  OnlyAnsweredStored'
<1>1. log[q] \in Seq(Msg) /\ log'[q] = log[q] \o c
      /\ \A k \in Keys : k # q => log'[k] = log[k]
  BY DEF TypeOK
<1>2. \A k \in Keys : \A i \in 1..Len(log[k]) : log[k][i] \in Msg /\ Accounted(k, log[k][i])
  BY OnlyAnsweredIs DEF TypeOK
<1>3. ASSUME NEW k \in Keys, NEW i \in 1..Len(log'[k]), NEW m, m = log'[k][i]
      PROVE  Accounted(k, m)'
  <2>1. CASE k # q
    <3>1. i \in 1..Len(log[k]) /\ m = log[k][i] BY <1>1, <1>3, <2>1
    <3>2. m \in Msg /\ Accounted(k, m) BY <1>2, <3>1
    <3> QED BY <3>2
  <2>2. CASE k = q /\ i <= Len(log[q])
    <3>1. i \in 1..Len(log[k]) /\ m = log[k][i] BY <1>1, <1>3, <2>2
    <3>2. m \in Msg /\ Accounted(k, m) BY <1>2, <3>1
    <3> QED BY <3>2
  <2>3. CASE k = q /\ i > Len(log[q])
    <3>1. i - Len(log[q]) \in 1..Len(c) /\ m = c[i - Len(log[q])] BY <1>1, <1>3, <2>3
    <3> QED BY <2>3, <3>1
  <2>4. Len(log[q]) \in Nat /\ i \in Int BY <1>1, <1>3
  <2> QED BY <2>1, <2>2, <2>3, <2>4
<1>4. \A k \in Keys : \A i \in 1..Len(log'[k]) : \A m : m = log'[k][i] => Accounted(k, m)'
  BY <1>3
<1>5. ASSUME NEW k \in Keys, NEW i \in 1..Len(log'[k])
      PROVE  log'[k][i].role # "user" =>
               \/ outcome'[log'[k][i].turn] \in {"ok", "lost"}
               \/ \E h \in Handlers : pc'[h] = "save" /\ key'[h] = k /\ turn'[h] = log'[k][i].turn
  <2>1. PICK m : m = log'[k][i] OBVIOUS
  <2>2. Accounted(k, m)' BY <1>4, <2>1
  <2>3. m.role # "user" =>
          \/ outcome'[m.turn] \in {"ok", "lost"}
          \/ \E h \in Handlers : pc'[h] = "save" /\ key'[h] = k /\ turn'[h] = m.turn
    BY <2>2 DEF Accounted
  <2> QED BY <2>1, <2>3, Zenon
<1> QED BY <1>5, Zenon DEF OnlyAnsweredStored

LEMMA NextStored ==
  TypeOK /\ TurnInv /\ StoredInv /\ [Next]_vars => StoredInv'
<1> SUFFICES ASSUME TypeOK, TurnInv, StoredInv, [Next]_vars PROVE StoredInv'
    OBVIOUS
<1>0. /\ TurnsApart /\ QueueOfTurn /\ OnlyAnsweredStored
      /\ log \in [Keys -> Seq(Msg)] /\ queue \in [Handlers -> Seq(Msg)] /\ key \in [Handlers -> Keys]
      /\ pc \in [Handlers -> {"idle", "append", "get", "prepare", "loop", "save", "closed"}]
      /\ turn \in [Handlers -> 0..MaxSent] /\ sent \in 0..MaxSent /\ sent \in Nat
      /\ outcome \in [Turns -> {"none", "ok", "err", "panic", "lost"}]
  BY MaxSentAssumption DEF StoredInv, TypeOK
\* Steps of a handler outside an Append that end its turn.
<1>1. ASSUME NEW h \in Handlers, pc[h] \in {"get", "prepare", "loop"},
             NEW how \in {"err", "panic"}, NEW place \in {"idle", "closed"},
             Return(h, how, place), UNCHANGED <<log, key, turn, queue, sent>>
      PROVE  StoredInv'
  <2>1. Busy(h) BY <1>1 DEF Busy
  <2>2. TurnsApart' BY <1>0, <1>1, <2>1, ReturnApart
  <2>3. \A k \in Keys : \A m \in Msg : Accounted(k, m) => Accounted(k, m)'
    BY <1>0, <1>1, <2>1, ReturnAccounts
  <2>4. OnlyAnsweredStored' BY <1>0, <1>1, <2>3, QuietStored
  <2>5. pc' = [pc EXCEPT ![h] = place] BY <1>1 DEF Return
  <2>6. QueueOfTurn' BY <1>0, <1>1, <2>5 DEF QueueOfTurn
  <2> QED BY <2>2, <2>4, <2>6 DEF StoredInv
\* Steps of a handler that go on to another place of ChatStream.
<1>2. ASSUME NEW h \in Handlers, NEW place \in {"idle", "prepare", "loop"}, pc[h] # "save",
             Busy(h) \/ place = "idle",
             pc' = [pc EXCEPT ![h] = place], UNCHANGED <<log, key, turn, queue, sent, outcome>>
      PROVE  StoredInv'
  <2>1. \A g \in Handlers : Busy(g)' => Busy(g) BY <1>0, <1>2 DEF Busy
  <2>2. TurnsApart' BY <1>0, <1>2, <2>1, MoveApart
  <2>3. \A g \in Handlers : pc[g] = "save" => pc'[g] = "save" BY <1>0, <1>2
  <2>4. \A k \in Keys : \A m \in Msg : Accounted(k, m) => Accounted(k, m)'
    BY <1>2, <2>3 DEF Accounted
  <2>5. OnlyAnsweredStored' BY <1>0, <1>2, <2>4, QuietStored
  <2>6. QueueOfTurn' BY <1>0, <1>2 DEF QueueOfTurn
  <2> QED BY <2>2, <2>5, <2>6 DEF StoredInv
\* What the queue of an Append holds is accounted for once its handler moves on.
<1>3. ASSUME NEW h \in Handlers, Appending(h), NEW q \in Keys, q = key[h],
             NEW m \in Msg, NEW i \in 1..Len(queue[h]), m = queue[h][i], UNCHANGED <<key, turn>>
      PROVE  Accounted(q, m)
  BY <1>0, <1>3 DEF Accounted, QueueOfTurn, Appending
<1>4. ASSUME NEW h \in Handlers, Appending(h), Continue(h), UNCHANGED <<key, turn, sent>>,
             queue' = [queue EXCEPT ![h] = <<>>]
      PROVE  /\ TurnsApart' /\ QueueOfTurn'
             /\ \A k \in Keys : \A m \in Msg : Accounted(k, m) => Accounted(k, m)'
  <2>1. TurnsApart' BY <1>0, <1>4, ContinueApart
  <2>2. \A k \in Keys : \A m \in Msg : Accounted(k, m) => Accounted(k, m)'
    BY <1>0, <1>4, ContinueAccounts
  <2>3. \A g \in Handlers : g # h => pc'[g] = pc[g] /\ queue'[g] = queue[g]
    BY <1>0, <1>4 DEF Continue, Return
  <2>4. queue'[h] = <<>> BY <1>0, <1>4
  <2>5. QueueOfTurn' BY <1>0, <1>4, <2>3, <2>4 DEF QueueOfTurn
  <2> QED BY <2>1, <2>2, <2>5
<1>5. ASSUME NEW h \in Handlers, NEW k \in Keys, Receive(h, k) PROVE StoredInv'
  <2>1. /\ pc' = [pc EXCEPT ![h] = "append"] /\ key' = [key EXCEPT ![h] = k] /\ pc[h] = "idle"
        /\ turn' = [turn EXCEPT ![h] = sent + 1] /\ sent' = sent + 1 /\ UNCHANGED <<log, outcome>>
        /\ queue' = [queue EXCEPT ![h] = <<UserMsg(sent + 1)>>] /\ sent < MaxSent
    BY <1>5 DEF Receive
  <2>2. sent + 1 \in Turns BY <1>0, <2>1, MaxSentAssumption DEF Turns
  <2>3. \A g \in Handlers : g # h => /\ pc'[g] = pc[g] /\ key'[g] = key[g] /\ turn'[g] = turn[g]
                                     /\ queue'[g] = queue[g]
    BY <1>0, <2>1
  <2>4. /\ pc'[h] = "append" /\ turn'[h] = sent + 1 /\ queue'[h] = <<UserMsg(sent + 1)>>
    BY <1>0, <2>1
  <2>5. \A g \in Handlers : g # h /\ Busy(g)' => Busy(g) /\ turn[g] <= sent /\ turn[g] \in Nat
    BY <1>0, <2>3, MaxSentAssumption DEF Busy, TurnsApart
  <2>6. TurnsApart'
    <3>1. \A g \in Handlers : Busy(g)' => turn'[g] <= sent' /\ outcome'[turn'[g]] = "none"
      BY <1>0, <2>1, <2>2, <2>3, <2>4, <2>5 DEF TurnsApart
    <3>2. ASSUME NEW g \in Handlers, NEW f \in Handlers, Busy(g)', Busy(f)', turn'[g] = turn'[f]
          PROVE  g = f
      <4>1. CASE g # h /\ f # h
        <5>1. Busy(g) /\ Busy(f) BY <2>5, <3>2, <4>1
        <5>2. turn[g] = turn[f] BY <2>3, <3>2, <4>1
        <5> QED BY <1>0, <5>1, <5>2 DEF TurnsApart
      <4>2. CASE g = h /\ f # h
        <5>1. turn[f] <= sent /\ turn[f] \in Nat BY <2>5, <3>2, <4>2
        <5>2. turn[f] = sent + 1 BY <2>3, <2>4, <3>2, <4>2
        <5> QED BY <1>0, <5>1, <5>2
      <4>3. CASE g # h /\ f = h
        <5>1. turn[g] <= sent /\ turn[g] \in Nat BY <2>5, <3>2, <4>3
        <5>2. turn[g] = sent + 1 BY <2>3, <2>4, <3>2, <4>3
        <5> QED BY <1>0, <5>1, <5>2
      <4> QED BY <4>1, <4>2, <4>3
    <3>3. \A t \in Turns : t > sent' => outcome'[t] = "none"
      BY <1>0, <2>1 DEF TurnsApart, Turns
    <3> QED BY <3>1, <3>2, <3>3 DEF TurnsApart
  <2>7. QueueOfTurn'
    <3>1. Len(queue'[h]) = 1 /\ queue'[h][1].role = "user" BY <2>4 DEF UserMsg
    <3>2. \A i \in 1..Len(queue'[h]) : queue'[h][i].role = "user" BY <3>1
    <3>3. ASSUME NEW g \in Handlers, NEW i \in 1..Len(queue'[g])
          PROVE  /\ pc'[g] = "append" => queue'[g][i].role = "user"
                 /\ pc'[g] = "save" => queue'[g][i].turn = turn'[g]
      <4>1. CASE g = h BY <2>4, <3>2, <4>1
      <4>2. CASE g # h
        <5>1. i \in 1..Len(queue[g]) BY <2>3, <4>2
        <5> QED BY <1>0, <2>3, <4>2, <5>1 DEF QueueOfTurn
      <4> QED BY <4>1, <4>2
    <3> QED BY <3>3 DEF QueueOfTurn
  <2>8. \A g \in Handlers : pc[g] = "save" => pc'[g] = "save" /\ key'[g] = key[g] /\ turn'[g] = turn[g]
    BY <2>1, <2>3
  <2>9. \A q \in Keys : \A m \in Msg : Accounted(q, m) => Accounted(q, m)'
    BY <2>1, <2>8 DEF Accounted
  <2>10. OnlyAnsweredStored' BY <1>0, <2>1, <2>9, QuietStored
  <2> QED BY <2>6, <2>7, <2>10 DEF StoredInv
<1>6. ASSUME NEW h \in Handlers, MemoryAppend(h) PROVE StoredInv'
  <2>1. /\ Appending(h) /\ Continue(h) /\ UNCHANGED <<key, turn, sent>>
        /\ queue' = [queue EXCEPT ![h] = <<>>]
        /\ log' = [log EXCEPT ![key[h]] = @ \o queue[h]]
    BY <1>6 DEF MemoryAppend
  <2>2. PICK q \in Keys, c \in Seq(Msg) : q = key[h] /\ c = queue[h] BY <1>0
  <2>3. \A k \in Keys : \A m \in Msg : Accounted(k, m) => Accounted(k, m)' BY <1>4, <2>1
  <2>4. ASSUME NEW i \in 1..Len(c) PROVE Accounted(q, c[i])'
    <3>1. c[i] \in Msg /\ i \in 1..Len(queue[h]) BY <2>2
    <3>2. Accounted(q, c[i]) BY <1>3, <2>1, <2>2, <3>1
    <3> QED BY <2>3, <3>1, <3>2
  <2>5. log' = [log EXCEPT ![q] = @ \o c] BY <2>1, <2>2
  <2>6. OnlyAnsweredStored' BY <1>0, <2>3, <2>4, <2>5, PushStored
  <2> QED BY <1>4, <2>1, <2>6 DEF StoredInv
<1>7. ASSUME NEW h \in Handlers, RedisPush(h) PROVE StoredInv'
  <2>1. /\ Appending(h) /\ UNCHANGED <<pc, key, turn, sent, outcome>> /\ queue[h] # <<>>
        /\ queue' = [queue EXCEPT ![h] = Tail(@)]
        /\ log' = [log EXCEPT ![key[h]] = Append(@, Head(queue[h]))]
    BY <1>7 DEF RedisPush
  <2>2. PICK q \in Keys, m \in Msg : q = key[h] /\ m = queue[h][1]
    BY <1>0, <2>1
  <2>3. \A k \in Keys : \A x \in Msg : Accounted(k, x) => Accounted(k, x)'
    BY <2>1 DEF Accounted
  <2>4. 1 \in 1..Len(queue[h]) /\ Head(queue[h]) = m BY <1>0, <2>1, <2>2
  <2>5. Accounted(q, m)' BY <1>3, <2>1, <2>2, <2>3, <2>4
  <2>6. <<m>> \in Seq(Msg) /\ \A i \in 1..Len(<<m>>) : Accounted(q, <<m>>[i])'
    <3>1. Len(<<m>>) = 1 /\ <<m>>[1] = m OBVIOUS
    <3> QED BY <2>5, <3>1
  <2>7. log' = [log EXCEPT ![q] = @ \o <<m>>]
    <3>1. log[q] \in Seq(Msg) BY <1>0
    <3>2. Append(log[q], m) = log[q] \o <<m>> BY <3>1
    <3> QED BY <2>1, <2>2, <2>4, <3>2
  <2>8. OnlyAnsweredStored' BY <1>0, <2>3, <2>6, <2>7, PushStored
  <2>9. TurnsApart' BY <1>0, <2>1 DEF TurnsApart, Busy
  <2>10. QueueOfTurn'
    <3>1. \A g \in Handlers : g # h => queue'[g] = queue[g] BY <1>0, <2>1
    <3>2. queue'[h] = Tail(queue[h]) /\ queue[h] \in Seq(Msg) BY <1>0, <2>1
    <3>3. \A i \in 1..Len(queue'[h]) : i + 1 \in 1..Len(queue[h]) /\ queue'[h][i] = queue[h][i + 1]
      <4>1. PICK c \in Seq(Msg) : c = queue[h] /\ c # <<>> BY <2>1, <3>2
      <4>2. \A i \in 1..Len(Tail(c)) : i + 1 \in 1..Len(c) /\ Tail(c)[i] = c[i + 1] BY <4>1
      <4> QED BY <3>2, <4>1, <4>2
    <3>4. ASSUME NEW g \in Handlers, NEW i \in 1..Len(queue'[g])
          PROVE  /\ pc'[g] = "append" => queue'[g][i].role = "user"
                 /\ pc'[g] = "save" => queue'[g][i].turn = turn'[g]
      <4>1. PICK j \in 1..Len(queue[g]) : queue'[g][i] = queue[g][j]
        <5>1. CASE g = h
          <6>1. i + 1 \in 1..Len(queue[g]) /\ queue'[g][i] = queue[g][i + 1] BY <3>3, <5>1
          <6> QED BY <6>1
        <5>2. CASE g # h BY <3>1, <5>2
        <5> QED BY <5>1, <5>2
      <4> QED BY <1>0, <2>1, <4>1 DEF QueueOfTurn
    <3> QED BY <3>4 DEF QueueOfTurn
  <2> QED BY <2>8, <2>9, <2>10 DEF StoredInv
<1>8. ASSUME NEW h \in Handlers, RedisTrim(h) \/ RedisDrop(h) PROVE StoredInv'
  <2>1. /\ Appending(h) /\ Continue(h) /\ UNCHANGED <<log, key, turn, sent>>
        /\ queue' = [queue EXCEPT ![h] = <<>>]
    BY <1>0, <1>8 DEF RedisTrim, RedisDrop
  <2>2. OnlyAnsweredStored' BY <1>0, <1>4, <2>1, QuietStored
  <2> QED BY <1>4, <2>1, <2>2 DEF StoredInv
<1>9. ASSUME NEW h \in Handlers, Get(h) \/ GetFails(h) \/ Prepare(h) \/ LoopFails(h) PROVE StoredInv'
  <2>1. UNCHANGED <<log, key, turn, queue, sent>> /\ pc[h] \in {"get", "prepare", "loop"}
    BY <1>9 DEF Get, GetFails, Prepare, LoopFails
  <2>2. \/ Return(h, "err", "idle") \/ Return(h, "panic", "closed")
        \/ \E place \in {"prepare", "loop"} : pc' = [pc EXCEPT ![h] = place] /\ UNCHANGED outcome
    BY <1>9 DEF Get, GetFails, Prepare, SelectForTurnFails, LoopFails
  <2>3. Busy(h) /\ pc[h] # "save" BY <2>1 DEF Busy
  <2>4. CASE Return(h, "err", "idle") BY <1>1, <2>1, <2>4
  <2>5. CASE Return(h, "panic", "closed") BY <1>1, <2>1, <2>5
  <2>6. CASE \E place \in {"prepare", "loop"} : pc' = [pc EXCEPT ![h] = place] /\ UNCHANGED outcome
    BY <1>2, <2>1, <2>3, <2>6
  <2> QED BY <2>2, <2>4, <2>5, <2>6
<1>10. ASSUME NEW h \in Handlers, LoopSucceeds(h) PROVE StoredInv'
  <2>1. PICK d \in Deltas(turn[h]) : queue' = [queue EXCEPT ![h] = d] BY <1>10 DEF LoopSucceeds
  <2>2. /\ pc[h] = "loop" /\ pc' = [pc EXCEPT ![h] = "save"]
        /\ UNCHANGED <<log, key, turn, sent, outcome>>
    BY <1>10 DEF LoopSucceeds
  <2>3. \A i \in 1..Len(d) : d[i].turn = turn[h] BY DEF Deltas
  <2>4. \A g \in Handlers : Busy(g)' => Busy(g) BY <1>0, <2>2 DEF Busy
  <2>5. TurnsApart' BY <1>0, <2>2, <2>4, MoveApart
  <2>6. pc'[h] = "save" /\ queue'[h] = d
        /\ \A g \in Handlers : g # h => pc'[g] = pc[g] /\ queue'[g] = queue[g]
    BY <1>0, <2>1, <2>2
  <2>7. QueueOfTurn' BY <1>0, <2>2, <2>3, <2>6 DEF QueueOfTurn
  <2>8. \A g \in Handlers : pc[g] = "save" => pc'[g] = "save" BY <2>2, <2>6
  <2>9. \A k \in Keys : \A m \in Msg : Accounted(k, m) => Accounted(k, m)'
    BY <2>2, <2>8 DEF Accounted
  <2>10. OnlyAnsweredStored' BY <1>0, <2>2, <2>9, QuietStored
  <2> QED BY <2>5, <2>7, <2>10 DEF StoredInv
<1>11. ASSUME NEW h \in Handlers, Reconnect(h) PROVE StoredInv'
  BY <1>2, <1>11 DEF Reconnect
<1>12. ASSUME NEW k \in Keys, Expire(k) PROVE StoredInv'
  <2>1. log' = [log EXCEPT ![k] = <<>>] /\ UNCHANGED <<pc, key, turn, queue, sent, outcome>>
    BY <1>12 DEF Expire
  <2>2. TurnsApart' /\ QueueOfTurn' BY <1>0, <2>1 DEF TurnsApart, QueueOfTurn, Busy
  <2>3. \A q \in Keys : log'[q] = <<>> \/ log'[q] = log[q] BY <1>0, <2>1
  <2>4. OnlyAnsweredStored' BY <1>0, <2>1, <2>3 DEF OnlyAnsweredStored
  <2> QED BY <2>2, <2>4 DEF StoredInv
<1>13. CASE Restart
  <2>1. /\ \A h \in Handlers : pc'[h] = "idle" /\ ~Busy(h)'
        /\ queue' = [h \in Handlers |-> <<>>] /\ UNCHANGED <<key, turn, sent>>
    BY <1>13 DEF Restart, Busy
  <2> DEFINE gone(t) == \E h \in Handlers : Busy(h) /\ turn[h] = t
  <2>2. outcome' = [t \in Turns |-> IF gone(t) THEN "lost" ELSE outcome[t]]
    BY <1>13 DEF Restart
  <2>3. \A t \in Turns : t > sent => ~gone(t) BY <1>0 DEF TurnsApart, Turns
  <2>4. \A h \in Handlers : pc[h] = "save" => gone(turn[h]) BY DEF Busy
  <2> HIDE DEF gone
  <2>5. TurnsApart' BY <1>0, <2>1, <2>2, <2>3 DEF TurnsApart
  <2>6. QueueOfTurn' BY <2>1 DEF QueueOfTurn
  <2>7. ASSUME NEW k \in Keys, NEW m \in Msg, Accounted(k, m) PROVE Accounted(k, m)'
    <3>1. m.turn \in Turns BY DEF Msg
    <3>2. outcome'[m.turn] = IF gone(m.turn) THEN "lost" ELSE outcome[m.turn] BY <2>2, <3>1
    <3>3. m.role = "user" \/ outcome[m.turn] \in {"ok", "lost"} \/ gone(m.turn)
      BY <2>4, <2>7 DEF Accounted
    <3> QED BY <3>2, <3>3 DEF Accounted
  <2>8. CASE UNCHANGED log BY <1>0, <2>5, <2>6, <2>7, <2>8, QuietStored DEF StoredInv
  <2>9. CASE log' = [k \in Keys |-> <<>>]
    <3>1. OnlyAnsweredStored' BY <2>9 DEF OnlyAnsweredStored
    <3> QED BY <2>5, <2>6, <3>1 DEF StoredInv
  <2> QED BY <1>13, <2>8, <2>9 DEF Restart
<1>14. CASE UNCHANGED vars
  BY <1>14 DEF vars, StoredInv, TurnsApart, QueueOfTurn, OnlyAnsweredStored, Busy
<1> QED BY <1>5, <1>6, <1>7, <1>8, <1>9, <1>10, <1>11, <1>12, <1>13, <1>14
        DEF Next, HandlerStep

\* Whatever fails, panics, interleaves or restarts, a turn that returned an
\* error has stored nothing its loop produced (ChatStream's early returns).
THEOREM OnlyAnsweredStoredAlways == Spec => []OnlyAnsweredStored
<1>1. Init => StoredInv
  BY DEF Init, StoredInv, TurnsApart, QueueOfTurn, OnlyAnsweredStored, Busy
<1>2. StoredInv => OnlyAnsweredStored BY DEF StoredInv
<1> QED BY <1>1, <1>2, TypeCorrect, NextStored, PTL DEF Spec
-------------------------------------------------------------------------------
LEMMA TrimBound ==
  ASSUME NEW S, NEW s \in Seq(S), MaxMessages > 0
  PROVE  Len(Trim(s)) \in Nat /\ Len(Trim(s)) <= MaxMessages
<1>1. CASE Len(s) <= MaxMessages BY <1>1, MaxMessagesAssumption DEF Trim
<1>2. CASE ~(Len(s) <= MaxMessages)
  <2>1. MaxMessages \in Nat /\ MaxMessages < Len(s) BY <1>2, MaxMessagesAssumption
  <2>2. Trim(s) = SubSeq(s, Len(s) - MaxMessages + 1, Len(s)) BY <1>2, MaxMessagesAssumption DEF Trim
  <2> QED BY <2>1, <2>2
<1> QED BY <1>1, <1>2

\* Nobody appends to session k.
Settled(k) == \A h \in Handlers : Appending(h) => key[h] # k

\* Where Redis does not fail, an appender leaves only by its trim.
LEMMA NextBounded == TypeOK /\ StoreBounded /\ [Next]_vars => StoreBounded'
<1> SUFFICES ASSUME TypeOK, [Next]_vars, MaxMessages > 0, backend = "memory" \/ ~(Faults \/ Restarts),
                    \A k \in Keys : Settled(k) => Len(stm[k]) <= MaxMessages
             PROVE  \A k \in Keys : Settled(k)' => Len(stm'[k]) <= MaxMessages
  BY SameBackend DEF StoreBounded, Settled, Appending
<1>0. stm \in [Keys -> Seq(Msg)] /\ key \in [Handlers -> Keys] /\ queue \in [Handlers -> Seq(Msg)]
  BY DEF TypeOK
<1>1. ASSUME UNCHANGED <<stm, key>>, \A h \in Handlers : Appending(h) => Appending(h)'
      PROVE  \A k \in Keys : Settled(k)' => Len(stm'[k]) <= MaxMessages
  BY <1>1 DEF Settled
<1>2. ASSUME NEW h \in Handlers, NEW s \in Seq(Msg), UNCHANGED key,
             stm' = [stm EXCEPT ![key[h]] = Trim(s)],
             \A g \in Handlers \ {h} : pc'[g] = pc[g]
      PROVE  \A k \in Keys : Settled(k)' => Len(stm'[k]) <= MaxMessages
  <2>1. Len(Trim(s)) <= MaxMessages BY TrimBound
  <2>2. ASSUME NEW k \in Keys, k # key[h], Settled(k)' PROVE Settled(k)
    BY <1>2, <2>2 DEF Settled, Appending
  <2> QED BY <1>0, <1>2, <2>1, <2>2
<1>3. ASSUME NEW h \in Handlers, Continue(h) PROVE \A g \in Handlers \ {h} : pc'[g] = pc[g]
  BY <1>3 DEF Continue, Return, TypeOK
<1>4. ASSUME NEW h \in Handlers, NEW k \in Keys, Receive(h, k)
      PROVE  \A q \in Keys : Settled(q)' => Len(stm'[q]) <= MaxMessages
  BY <1>4 DEF Receive, Settled, Appending, TypeOK
<1>5. ASSUME NEW h \in Handlers, MemoryAppend(h)
      PROVE  \A k \in Keys : Settled(k)' => Len(stm'[k]) <= MaxMessages
  <2>1. stm[key[h]] \o queue[h] \in Seq(Msg) BY <1>0
  <2> QED BY <1>2, <1>3, <1>5, <2>1 DEF MemoryAppend
<1>6. ASSUME NEW h \in Handlers, RedisTrim(h)
      PROVE  \A k \in Keys : Settled(k)' => Len(stm'[k]) <= MaxMessages
  <2>1. stm[key[h]] \in Seq(Msg) BY <1>0
  <2> QED BY <1>2, <1>3, <1>6, <2>1 DEF RedisTrim
<1>7. ASSUME NEW h \in Handlers, RedisPush(h)
      PROVE  \A k \in Keys : Settled(k)' => Len(stm'[k]) <= MaxMessages
  BY <1>0, <1>7 DEF RedisPush, Settled, Appending
<1>8. ASSUME NEW h \in Handlers, Get(h) \/ GetFails(h) \/ Prepare(h) \/ LoopFails(h) \/ LoopSucceeds(h)
                                 \/ Reconnect(h)
      PROVE  \A k \in Keys : Settled(k)' => Len(stm'[k]) <= MaxMessages
  <2>1. UNCHANGED <<stm, key>>
    BY <1>8 DEF Get, GetFails, Prepare, LoopFails, LoopSucceeds, Reconnect
  <2>2. pc[h] \in {"get", "prepare", "loop", "closed"} /\ \A g \in Handlers \ {h} : pc'[g] = pc[g]
    BY <1>8 DEF Get, GetFails, Prepare, SelectForTurnFails, LoopFails, LoopSucceeds, Reconnect,
                Return, TypeOK
  <2>3. \A g \in Handlers : Appending(g) => Appending(g)' BY <2>2 DEF Appending
  <2> QED BY <1>1, <2>1, <2>3
<1>9. ASSUME NEW h \in Handlers PROVE ~RedisDrop(h) BY DEF RedisDrop
<1>10. ASSUME NEW k \in Keys PROVE ~Expire(k) BY DEF Expire
<1>11. CASE Restart
  <2>1. stm' = [k \in Keys |-> <<>>] BY <1>11 DEF Restart
  <2> QED BY <2>1, MaxMessagesAssumption
<1>12. CASE UNCHANGED vars BY <1>1, <1>12 DEF vars, Appending
<1> QED BY <1>4, <1>5, <1>6, <1>7, <1>8, <1>9, <1>10, <1>11, <1>12 DEF Next, HandlerStep

\* A session nobody appends to is within the bound, in memory always and in
\* Redis as long as no pipeline fails (store.go 23-25, 80-92, 138-141).
THEOREM StoreBoundedAlways == Spec => []StoreBounded
<1>1. Init => StoreBounded BY MaxMessagesAssumption DEF Init, StoreBounded
<1> QED BY <1>1, TypeCorrect, NextBounded, PTL DEF Spec
-------------------------------------------------------------------------------
\* A list of messages in which every call is directly followed by its result.
Whole(s) ==
  \A i \in 1..Len(s) :
    /\ s[i].role = "tool" => i > 1 /\ s[i - 1] = [turn |-> s[i].turn, role |-> "call"]
    /\ s[i].role = "call" => i < Len(s) /\ s[i + 1].role = "tool"

LEMMA WholeConcat ==
  ASSUME NEW a \in Seq(Msg), NEW b \in Seq(Msg), Whole(a), Whole(b)
  PROVE  Whole(a \o b)
<1> DEFINE x == a \o b
<1>1. /\ x \in Seq(Msg) /\ Len(x) = Len(a) + Len(b)
      /\ \A i \in 1..Len(a) : x[i] = a[i]
      /\ \A i \in 1..Len(b) : x[Len(a) + i] = b[i]
  OBVIOUS
<1>2. Len(a) \in Nat /\ Len(b) \in Nat OBVIOUS
<1> HIDE DEF x
<1>3. ASSUME NEW i \in 1..Len(x)
      PROVE  /\ x[i].role = "tool" => i > 1 /\ x[i - 1] = [turn |-> x[i].turn, role |-> "call"]
             /\ x[i].role = "call" => i < Len(x) /\ x[i + 1].role = "tool"
  <2>1. CASE i \in 1..Len(a)
    <3>1. x[i] = a[i] BY <1>1, <2>1
    <3>2. i > 1 => i - 1 \in 1..Len(a) /\ x[i - 1] = a[i - 1]
      <4>1. i > 1 => i - 1 \in 1..Len(a) BY <1>2, <2>1
      <4> QED BY <1>1, <4>1
    <3>3. i < Len(a) => i + 1 \in 1..Len(a) /\ x[i + 1] = a[i + 1] BY <1>1, <1>2, <2>1
    <3> QED BY <1>1, <1>2, <2>1, <3>1, <3>2, <3>3 DEF Whole
  <2>2. CASE i \notin 1..Len(a)
    <3>1. PICK j \in 1..Len(b) : i = Len(a) + j
      <4>1. i - Len(a) \in 1..Len(b) /\ i = Len(a) + (i - Len(a)) BY <1>1, <1>2, <2>2
      <4> QED BY <4>1
    <3>2. x[i] = b[j] BY <1>1, <3>1
    <3>3. j > 1 => j - 1 \in 1..Len(b) /\ x[i - 1] = b[j - 1]
      <4> SUFFICES ASSUME j > 1 PROVE j - 1 \in 1..Len(b) /\ x[i - 1] = b[j - 1]
        OBVIOUS
      <4>1. j - 1 \in 1..Len(b) /\ i - 1 = Len(a) + (j - 1) BY <1>2, <3>1
      <4> QED BY <1>1, <4>1
    <3>4. j < Len(b) => j + 1 \in 1..Len(b) /\ x[i + 1] = b[j + 1]
      <4> SUFFICES ASSUME j < Len(b) PROVE j + 1 \in 1..Len(b) /\ x[i + 1] = b[j + 1]
        OBVIOUS
      <4>1. j + 1 \in 1..Len(b) /\ i + 1 = Len(a) + (j + 1) BY <1>2, <3>1
      <4> QED BY <1>1, <4>1
    <3>5. j > 1 => i > 1 BY <1>2, <3>1
    <3>6. j < Len(b) => i < Len(x) BY <1>1, <1>2, <3>1
    <3> QED BY <3>2, <3>3, <3>4, <3>5, <3>6 DEF Whole
  <2> QED BY <2>1, <2>2
<1>4. Whole(x) BY <1>3 DEF Whole
<1> QED BY <1>4 DEF x

LEMMA TurnsWhole ==
  ASSUME NEW t \in Turns
  PROVE  Whole(<<UserMsg(t)>>) /\ \A d \in Deltas(t) : Whole(d)
<1>1. Whole(<<UserMsg(t)>>) BY DEF Whole, UserMsg
<1>2. Whole(<<[turn |-> t, role |-> "reply"]>>) BY DEF Whole
<1>3. Whole(<<[turn |-> t, role |-> "call"], [turn |-> t, role |-> "tool"],
              [turn |-> t, role |-> "reply"]>>)
  <2> DEFINE d == <<[turn |-> t, role |-> "call"], [turn |-> t, role |-> "tool"],
                    [turn |-> t, role |-> "reply"]>>
  <2>1. /\ Len(d) = 3 /\ d[1] = [turn |-> t, role |-> "call"]
        /\ d[2] = [turn |-> t, role |-> "tool"] /\ d[3] = [turn |-> t, role |-> "reply"]
    OBVIOUS
  <2> HIDE DEF d
  <2>2. \A i \in 1..Len(d) : i = 1 \/ i = 2 \/ i = 3 BY <2>1
  <2>3. Whole(d) BY <2>1, <2>2 DEF Whole
  <2> QED BY <2>3 DEF d
<1> QED BY <1>1, <1>2, <1>3 DEF Deltas

LEMMA NothingWhole == Whole(<<>>)
BY DEF Whole

\* What is stored, and what is about to be, consists of whole rounds.
WholeInv == (\A k \in Keys : Whole(log[k])) /\ (\A h \in Handlers : Whole(queue[h]))

MemoryInv == backend = "memory" => WholeInv

\* The in-memory store takes the messages of a turn in one critical section.
LEMMA NextWhole ==
  TypeOK /\ TurnInv /\ MemoryInv /\ [Next]_vars => MemoryInv'
<1> SUFFICES ASSUME backend = "memory", TypeOK, TurnInv, WholeInv, [Next]_vars PROVE WholeInv'
  BY SameBackend DEF MemoryInv
<1>0. /\ log \in [Keys -> Seq(Msg)] /\ queue \in [Handlers -> Seq(Msg)]
      /\ key \in [Handlers -> Keys]
  BY DEF TypeOK
<1>1. CASE UNCHANGED <<log, queue>> BY <1>1 DEF WholeInv
<1>2. ASSUME NEW h \in Handlers, NEW q, Whole(q), UNCHANGED log, queue' = [queue EXCEPT ![h] = q]
      PROVE  WholeInv'
  BY <1>0, <1>2 DEF WholeInv
<1>3. ASSUME NEW h \in Handlers, NEW k \in Keys, Receive(h, k) PROVE WholeInv'
  <2>1. sent + 1 \in Turns BY <1>3, MaxSentAssumption DEF Receive, Turns, TypeOK
  <2> QED BY <1>2, <1>3, <2>1, TurnsWhole DEF Receive
<1>4. ASSUME NEW h \in Handlers, LoopSucceeds(h) PROVE WholeInv'
  <2>1. turn[h] \in Turns BY <1>4 DEF LoopSucceeds, TurnInv, Busy
  <2>2. PICK d \in Deltas(turn[h]) : queue' = [queue EXCEPT ![h] = d] BY <1>4 DEF LoopSucceeds
  <2>3. Whole(d) BY <2>1, <2>2, TurnsWhole
  <2> QED BY <1>2, <1>4, <2>2, <2>3 DEF LoopSucceeds
<1>5. ASSUME NEW h \in Handlers, MemoryAppend(h) PROVE WholeInv'
  <2>1. log[key[h]] \in Seq(Msg) /\ queue[h] \in Seq(Msg) /\ key[h] \in Keys BY <1>0
  <2>2. Whole(log[key[h]] \o queue[h]) BY <2>1, WholeConcat DEF WholeInv
  <2> QED BY <1>0, <1>5, <2>1, <2>2, NothingWhole DEF MemoryAppend, WholeInv
<1>6. CASE Restart BY <1>6, NothingWhole DEF Restart, WholeInv
<1>7. ASSUME NEW h \in Handlers PROVE ~RedisPush(h) /\ ~RedisTrim(h) /\ ~RedisDrop(h) /\ ~GetFails(h)
  BY DEF RedisPush, RedisTrim, RedisDrop, GetFails
<1>8. ASSUME NEW k \in Keys PROVE ~Expire(k) BY DEF Expire
<1>9. ASSUME NEW h \in Handlers, Get(h) \/ Prepare(h) \/ LoopFails(h) \/ Reconnect(h) PROVE WholeInv'
  BY <1>1, <1>9 DEF Get, Prepare, LoopFails, Reconnect
<1>10. CASE UNCHANGED vars BY <1>1, <1>10 DEF vars
<1> QED BY <1>3, <1>4, <1>5, <1>6, <1>7, <1>8, <1>9, <1>10 DEF Next, HandlerStep

\* In the in-memory store no message of another turn ever comes between a tool
\* call and its result (store.go 80-92), also where turns share a session.
THEOREM RoundsContiguousAlways == Spec => []RoundsContiguous
<1>1. Init => MemoryInv BY NothingWhole DEF Init, MemoryInv, WholeInv
<1>2. MemoryInv => RoundsContiguous BY DEF MemoryInv, WholeInv, Whole, RoundsContiguous
<1> QED BY <1>1, <1>2, TypeCorrect, NextWhole, PTL DEF Spec
-------------------------------------------------------------------------------
(***************************************************************************)
(* One turn of a session at a time: what the clients must see to, and what *)
(* follows from it where Redis does not fail.                              *)
(***************************************************************************)
OneOnKey == \A g, h \in Handlers : Busy(g) /\ Busy(h) /\ key[g] = key[h] => g = h

LEMMA NextOneOnKey ==
  ASSUME Exclusive
  PROVE  TypeOK /\ OneOnKey /\ [Next]_vars => OneOnKey'
<1> SUFFICES ASSUME TypeOK, OneOnKey, [Next]_vars PROVE OneOnKey'
  OBVIOUS
<1>1. ASSUME UNCHANGED key, \A g \in Handlers : Busy(g)' => Busy(g) PROVE OneOnKey'
  BY <1>1 DEF OneOnKey
<1>2. ASSUME NEW h \in Handlers, NEW k \in Keys, Receive(h, k) PROVE OneOnKey'
  <2>1. \A g \in Handlers : Busy(g) => key[g] # k BY <1>2 DEF Receive, NobodyOn
  <2>2. pc' = [pc EXCEPT ![h] = "append"] /\ key' = [key EXCEPT ![h] = k] BY <1>2 DEF Receive
  <2>3. \A g \in Handlers \ {h} : (Busy(g)' <=> Busy(g)) /\ key'[g] = key[g]
    BY <2>2 DEF Busy, TypeOK
  <2>4. key'[h] = k BY <2>2 DEF TypeOK
  <2> QED BY <2>1, <2>3, <2>4 DEF OneOnKey
<1>3. ASSUME NEW h \in Handlers, Continue(h) PROVE \A g \in Handlers : Busy(g)' => Busy(g)
  BY <1>3, ContinueTyped DEF ReturnPost
<1>4. ASSUME NEW h \in Handlers, HandlerStep(h) \/ Reconnect(h) PROVE OneOnKey'
  <2>1. UNCHANGED key
    BY <1>4 DEF HandlerStep, MemoryAppend, RedisPush, RedisTrim, RedisDrop, Get, GetFails, Prepare,
                LoopFails, LoopSucceeds, Reconnect
  <2>2. CASE MemoryAppend(h) \/ RedisTrim(h) \/ RedisDrop(h)
    BY <1>1, <1>3, <2>1, <2>2 DEF MemoryAppend, RedisTrim, RedisDrop
  <2>3. CASE RedisPush(h) BY <1>1, <2>1, <2>3 DEF RedisPush, Busy
  <2>4. CASE Get(h) \/ GetFails(h) \/ Prepare(h) \/ LoopFails(h) \/ LoopSucceeds(h) \/ Reconnect(h)
    <3>1. \A g \in Handlers : Busy(g)' => Busy(g)
      BY <2>4 DEF Get, GetFails, Prepare, SelectForTurnFails, LoopFails, LoopSucceeds, Reconnect,
                  Return, Busy, TypeOK
    <3> QED BY <1>1, <2>1, <3>1
  <2> QED BY <1>4, <2>2, <2>3, <2>4 DEF HandlerStep
<1>5. ASSUME NEW k \in Keys, Expire(k) PROVE OneOnKey' BY <1>1, <1>5 DEF Expire, Busy
<1>6. CASE Restart BY <1>6 DEF Restart, OneOnKey, Busy
<1>7. CASE UNCHANGED vars BY <1>1, <1>7 DEF vars, Busy
<1> QED BY <1>2, <1>4, <1>5, <1>6, <1>7 DEF Next

EndsWith(s, m) == s # <<>> /\ s[Len(s)] = m

LEMMA AppendEnds ==
  ASSUME NEW s \in Seq(Msg), NEW m \in Msg
  PROVE  EndsWith(s \o <<m>>, m) /\ EndsWith(Append(s, m), m)
BY DEF EndsWith

LEMMA TrimEnds ==
  ASSUME NEW s \in Seq(Msg), NEW m, EndsWith(s, m)
  PROVE  EndsWith(Trim(s), m)
<1> DEFINE x == Trim(s)
<1>1. /\ x \in Seq(Msg) /\ Len(x) <= Len(s)
      /\ \A i \in 1..Len(x) : x[i] = s[Len(s) - Len(x) + i]
      /\ Len(x) = Len(s) \/ (MaxMessages > 0 /\ Len(x) = MaxMessages)
  BY TrimFacts
<1> HIDE DEF x
<1>2. Len(s) \in Nat /\ Len(s) > 0 /\ s[Len(s)] = m BY DEF EndsWith
<1>3. Len(x) \in Nat /\ Len(x) > 0 /\ Len(s) - Len(x) + Len(x) = Len(s)
  BY <1>1, <1>2, MaxMessagesAssumption
<1>4. x[Len(x)] = s[Len(s)] /\ x # <<>> BY <1>1, <1>3
<1>5. EndsWith(x, m) BY <1>2, <1>4 DEF EndsWith
<1> QED BY <1>5 DEF x

\* From Append to Get the session ends with the turn's own message.
AskedInv ==
  \A h \in Handlers :
    /\ pc[h] = "append" =>
         \/ queue[h] = <<UserMsg(turn[h])>>
         \/ backend = "redis" /\ queue[h] = <<>> /\ EndsWith(stm[key[h]], UserMsg(turn[h]))
    /\ pc[h] = "get" => EndsWith(stm[key[h]], UserMsg(turn[h]))
    /\ pc[h] \in {"prepare", "loop", "save"} => EndsWith(full[h], UserMsg(turn[h]))

LEMMA NextAsked ==
  ASSUME ~Faults
  PROVE  TypeOK /\ TurnInv /\ OneOnKey /\ AskedInv /\ [Next]_vars => AskedInv'
<1> SUFFICES ASSUME TypeOK, TurnInv, OneOnKey, AskedInv, [Next]_vars PROVE AskedInv'
  OBVIOUS
<1>0. /\ stm \in [Keys -> Seq(Msg)] /\ queue \in [Handlers -> Seq(Msg)] /\ key \in [Handlers -> Keys]
      /\ full \in [Handlers -> Seq(Msg)] /\ turn \in [Handlers -> 0..MaxSent]
      /\ pc \in [Handlers -> {"idle", "append", "get", "prepare", "loop", "save", "closed"}]
  BY DEF TypeOK
<1> DEFINE Asked(h) ==
      /\ pc[h] = "append" =>
           \/ queue[h] = <<UserMsg(turn[h])>>
           \/ backend = "redis" /\ queue[h] = <<>> /\ EndsWith(stm[key[h]], UserMsg(turn[h]))
      /\ pc[h] = "get" => EndsWith(stm[key[h]], UserMsg(turn[h]))
      /\ pc[h] \in {"prepare", "loop", "save"} => EndsWith(full[h], UserMsg(turn[h]))
<1>a. AskedInv <=> \A h \in Handlers : Asked(h) BY DEF AskedInv
<1>b. AskedInv' <=> \A h \in Handlers : Asked(h)' BY DEF AskedInv
<1>c. backend' = backend BY SameBackend
\* A step of one handler on its session leaves the turns of others as they are.
<1>1. ASSUME NEW h \in Handlers, Busy(h), UNCHANGED <<key, turn>>, Asked(h)',
             \A k \in Keys \ {key[h]} : stm'[k] = stm[k],
             \A g \in Handlers \ {h} : pc'[g] = pc[g] /\ queue'[g] = queue[g] /\ full'[g] = full[g]
      PROVE  AskedInv'
  <2>1. ASSUME NEW g \in Handlers \ {h} PROVE Asked(g)'
    <3>1. CASE Busy(g)
      <4>1. key[g] # key[h] /\ key[g] \in Keys BY <1>0, <1>1, <3>1 DEF OneOnKey
      <4>2. stm'[key[g]] = stm[key[g]] BY <1>1, <4>1
      <4> QED BY <1>1, <1>a, <1>c, <4>2
    <3>2. CASE ~Busy(g) BY <1>1, <3>2 DEF Busy
    <3> QED BY <3>1, <3>2
  <2> QED BY <1>1, <1>b, <2>1
<1>2. ASSUME NEW h \in Handlers, Continue(h)
      PROVE  /\ \A g \in Handlers \ {h} : pc'[g] = pc[g] /\ full'[g] = full[g]
             /\ pc'[h] = IF pc[h] = "append" THEN "get" ELSE "idle"
  BY <1>0, <1>2 DEF Continue, Return
<1>3. ASSUME NEW h \in Handlers, NEW k \in Keys, Receive(h, k) PROVE AskedInv'
  BY <1>0, <1>3 DEF Receive, AskedInv
<1>4. ASSUME NEW h \in Handlers, MemoryAppend(h) PROVE AskedInv'
  <2>0. Busy(h) /\ key[h] \in Keys /\ stm[key[h]] \in Seq(Msg) /\ turn[h] \in Turns
    BY <1>0, <1>4 DEF MemoryAppend, Appending, Busy, TurnInv
  <2>1. /\ \A g \in Handlers \ {h} : pc'[g] = pc[g] /\ full'[g] = full[g]
        /\ pc'[h] = IF pc[h] = "append" THEN "get" ELSE "idle"
    BY <1>2, <1>4 DEF MemoryAppend
  <2>2. ASSUME pc[h] = "append" PROVE EndsWith(stm'[key[h]], UserMsg(turn[h]))
    <3>1. queue[h] = <<UserMsg(turn[h])>> BY <1>4, <2>2 DEF MemoryAppend, AskedInv
    <3>2. UserMsg(turn[h]) \in Msg BY <2>0, UserMsgType
    <3>3. EndsWith(stm[key[h]] \o queue[h], UserMsg(turn[h])) BY <2>0, <3>1, <3>2, AppendEnds
    <3>4. stm[key[h]] \o queue[h] \in Seq(Msg) BY <1>0, <2>0
    <3>5. EndsWith(Trim(stm[key[h]] \o queue[h]), UserMsg(turn[h])) BY <3>3, <3>4, TrimEnds
    <3> QED BY <1>0, <1>4, <2>0, <3>5 DEF MemoryAppend
  <2>3. UNCHANGED <<key, turn>> BY <1>4 DEF MemoryAppend
  <2>4. Asked(h)' BY <2>1, <2>2, <2>3
  <2>5. /\ \A k \in Keys \ {key[h]} : stm'[k] = stm[k]
        /\ \A g \in Handlers \ {h} : queue'[g] = queue[g]
    BY <1>0, <1>4 DEF MemoryAppend
  <2> QED BY <1>1, <2>0, <2>1, <2>3, <2>4, <2>5
<1>5. ASSUME NEW h \in Handlers, RedisPush(h) PROVE AskedInv'
  <2>0. Busy(h) /\ key[h] \in Keys /\ stm[key[h]] \in Seq(Msg) /\ turn[h] \in Turns
    BY <1>0, <1>5 DEF RedisPush, Appending, Busy, TurnInv
  <2>1. UNCHANGED <<key, turn, pc, full>> BY <1>5 DEF RedisPush
  <2>2. ASSUME pc[h] = "append"
        PROVE  queue'[h] = <<>> /\ EndsWith(stm'[key[h]], UserMsg(turn[h]))
    <3>1. queue[h] = <<UserMsg(turn[h])>> BY <1>5, <2>2 DEF RedisPush, AskedInv
    <3>2. UserMsg(turn[h]) \in Msg BY <2>0, UserMsgType
    <3>3. Head(queue[h]) = UserMsg(turn[h]) /\ Tail(queue[h]) = <<>> BY <3>1, <3>2
    <3>4. EndsWith(Append(stm[key[h]], UserMsg(turn[h])), UserMsg(turn[h]))
      BY <2>0, <3>2, AppendEnds
    <3> QED BY <1>0, <1>5, <2>0, <3>3, <3>4 DEF RedisPush
  <2>3. Asked(h)' BY <1>5, <1>a, <2>1, <2>2 DEF RedisPush, Appending
  <2>5. /\ \A k \in Keys \ {key[h]} : stm'[k] = stm[k]
        /\ \A g \in Handlers \ {h} : queue'[g] = queue[g]
    BY <1>0, <1>5 DEF RedisPush
  <2> QED BY <1>1, <2>0, <2>1, <2>3, <2>5
<1>6. ASSUME NEW h \in Handlers, RedisTrim(h) PROVE AskedInv'
  <2>0. Busy(h) /\ key[h] \in Keys /\ stm[key[h]] \in Seq(Msg)
    BY <1>0, <1>6 DEF RedisTrim, Appending, Busy
  <2>1. /\ \A g \in Handlers \ {h} : pc'[g] = pc[g] /\ full'[g] = full[g]
        /\ pc'[h] = IF pc[h] = "append" THEN "get" ELSE "idle"
    BY <1>2, <1>6 DEF RedisTrim
  <2>2. ASSUME pc[h] = "append" PROVE EndsWith(stm'[key[h]], UserMsg(turn[h]))
    <3>1. queue[h] = <<>> BY <1>6 DEF RedisTrim
    <3>2. EndsWith(stm[key[h]], UserMsg(turn[h])) BY <2>2, <3>1 DEF AskedInv
    <3>3. EndsWith(Trim(stm[key[h]]), UserMsg(turn[h])) BY <2>0, <3>2, TrimEnds
    <3> QED BY <1>0, <1>6, <2>0, <3>3 DEF RedisTrim
  <2>3. UNCHANGED <<key, turn, queue>> BY <1>6 DEF RedisTrim
  <2>4. Asked(h)' BY <2>1, <2>2, <2>3
  <2>5. \A k \in Keys \ {key[h]} : stm'[k] = stm[k] BY <1>0, <1>6 DEF RedisTrim
  <2> QED BY <1>1, <2>0, <2>1, <2>3, <2>4, <2>5
<1>7. ASSUME NEW h \in Handlers, Get(h) PROVE AskedInv'
  BY <1>0, <1>7 DEF Get, Return, AskedInv
<1>8. ASSUME NEW h \in Handlers, Prepare(h) PROVE AskedInv'
  BY <1>0, <1>8 DEF Prepare, SelectForTurnFails, Return, AskedInv
<1>9. ASSUME NEW h \in Handlers, LoopFails(h) \/ Reconnect(h) PROVE AskedInv'
  BY <1>0, <1>9 DEF LoopFails, Reconnect, Return, AskedInv
<1>10. ASSUME NEW h \in Handlers, LoopSucceeds(h) PROVE AskedInv'
  BY <1>0, <1>10 DEF LoopSucceeds, AskedInv
<1>11. ASSUME NEW h \in Handlers PROVE ~RedisDrop(h) /\ ~GetFails(h) BY DEF RedisDrop, GetFails
<1>12. ASSUME NEW k \in Keys PROVE ~Expire(k) BY DEF Expire
<1>13. CASE Restart BY <1>13 DEF Restart, AskedInv
<1>14. CASE UNCHANGED vars BY <1>14 DEF vars, AskedInv
<1> QED BY <1>3, <1>4, <1>5, <1>6, <1>7, <1>8, <1>9, <1>10, <1>11, <1>12, <1>13, <1>14
        DEF Next, HandlerStep

\* A conversation in the order it was held.
InOrder(s) ==
  \A i \in 1..Len(s) : /\ \A j \in 1..i : s[j].turn <= s[i].turn
                       /\ \E j \in 1..i : s[j] = UserMsg(s[i].turn)

Holds(s, m) == \E j \in 1..Len(s) : s[j] = m

LEMMA MsgTurn == \A m \in Msg : m.turn \in Nat
BY MaxSentAssumption DEF Msg, Turns

LEMMA AppendIsPush ==
  ASSUME NEW s \in Seq(Msg), NEW m \in Msg
  PROVE  Append(s, m) = s \o <<m>>
OBVIOUS

LEMMA InOrderPush ==
  ASSUME NEW s \in Seq(Msg), NEW c \in Seq(Msg), NEW t \in Turns, InOrder(s),
         \A i \in 1..Len(s) : s[i].turn <= t, \A i \in 1..Len(c) : c[i].turn = t,
         Holds(s, UserMsg(t)) \/ c[1] = UserMsg(t)
  PROVE  /\ InOrder(s \o c)
         /\ \A i \in 1..Len(s \o c) : (s \o c)[i].turn \in Nat /\ (s \o c)[i].turn <= t
         /\ Holds(s, UserMsg(t)) \/ c # <<>> => Holds(s \o c, UserMsg(t))
<1> DEFINE x == s \o c
<1>1. /\ x \in Seq(Msg) /\ Len(x) = Len(s) + Len(c)
      /\ \A i \in 1..Len(s) : x[i] = s[i]
      /\ \A i \in 1..Len(c) : x[Len(s) + i] = c[i]
  OBVIOUS
<1>2. Len(s) \in Nat /\ Len(c) \in Nat /\ t \in Nat BY MaxSentAssumption DEF Turns
<1>3. c # <<>> => Len(c) > 0 OBVIOUS
<1> HIDE DEF x
<1>4. ASSUME NEW i \in 1..Len(x) PROVE x[i].turn \in Nat
  <2>1. x[i] \in Msg BY <1>1
  <2> QED BY <2>1, MsgTurn
<1>5. ASSUME NEW i \in 1..Len(x), i \notin 1..Len(s)
      PROVE  x[i].turn = t /\ i > Len(s) /\ Len(c) > 0
  <2>1. i - Len(s) \in 1..Len(c) /\ i = Len(s) + (i - Len(s)) BY <1>1, <1>2, <1>5
  <2>2. x[i] = c[i - Len(s)] BY <1>1, <2>1
  <2> QED BY <1>2, <2>1, <2>2
<1>6. \A i \in 1..Len(x) : x[i].turn <= t BY <1>1, <1>2, <1>5
<1>7. Len(c) > 0 => Holds(x, UserMsg(t)) /\ \E j \in 1..Len(s) + 1 : x[j] = UserMsg(t)
  <2> SUFFICES ASSUME Len(c) > 0
               PROVE  Holds(x, UserMsg(t)) /\ \E j \in 1..Len(s) + 1 : x[j] = UserMsg(t)
    OBVIOUS
  <2>1. CASE Holds(s, UserMsg(t))
    <3>1. PICK j \in 1..Len(s) : s[j] = UserMsg(t) BY <2>1 DEF Holds
    <3>2. j \in 1..Len(x) /\ j \in 1..Len(s) + 1 /\ x[j] = UserMsg(t) BY <1>1, <1>2, <3>1
    <3> QED BY <3>2 DEF Holds
  <2>2. CASE c[1] = UserMsg(t)
    <3>1. 1 \in 1..Len(c) /\ Len(s) + 1 \in 1..Len(x) /\ Len(s) + 1 \in 1..Len(s) + 1
      BY <1>1, <1>2
    <3>2. x[Len(s) + 1] = UserMsg(t) BY <1>1, <2>2, <3>1
    <3> QED BY <3>1, <3>2 DEF Holds
  <2> QED BY <2>1, <2>2
<1>8. ASSUME NEW i \in 1..Len(x)
      PROVE  (\A j \in 1..i : x[j].turn <= x[i].turn) /\ \E j \in 1..i : x[j] = UserMsg(x[i].turn)
  <2>1. CASE i \in 1..Len(s)
    <3>1. \A j \in 1..i : j \in 1..Len(s) /\ x[j] = s[j] BY <1>1, <1>2, <2>1
    <3>2. x[i] = s[i] BY <1>1, <2>1
    <3> QED BY <2>1, <3>1, <3>2 DEF InOrder
  <2>2. CASE i \notin 1..Len(s)
    <3>1. x[i].turn = t /\ i > Len(s) /\ Len(c) > 0 BY <1>5, <2>2
    <3>2. \A j \in 1..i : j \in 1..Len(x) BY <1>1, <1>2
    <3>3. \A j \in 1..i : x[j].turn <= t BY <1>6, <3>2
    <3>4. PICK j \in 1..Len(s) + 1 : x[j] = UserMsg(t) BY <1>7, <3>1
    <3>5. j \in 1..i BY <1>2, <3>1
    <3> QED BY <3>1, <3>3, <3>4, <3>5
  <2> QED BY <2>1, <2>2
<1>9. Holds(s, UserMsg(t)) => Holds(x, UserMsg(t)) BY <1>1, <1>2 DEF Holds
<1>10. InOrder(x) BY <1>8 DEF InOrder
<1> QED BY <1>3, <1>4, <1>6, <1>7, <1>9, <1>10 DEF x

\* What a running turn of a session may rely on.
TurnOrder(h) ==
  /\ turn[h] <= sent
  /\ \A i \in 1..Len(log[key[h]]) : log[key[h]][i].turn <= turn[h]
  /\ \A i \in 1..Len(queue[h]) : queue[h][i].turn = turn[h]
  /\ \/ pc[h] = "append" /\ queue[h] = <<UserMsg(turn[h])>>
     \/ Holds(log[key[h]], UserMsg(turn[h]))

OrderInv ==
  /\ \A h \in Handlers : Busy(h) => TurnOrder(h)
  /\ \A k \in Keys : \A i \in 1..Len(log[k]) : log[k][i].turn <= sent
  /\ \A k \in Keys : InOrder(log[k])

LEMMA NextOrder ==
  ASSUME ~Faults
  PROVE  TypeOK /\ TurnInv /\ OneOnKey /\ OrderInv /\ [Next]_vars => OrderInv'
<1> SUFFICES ASSUME TypeOK, TurnInv, OneOnKey, OrderInv, [Next]_vars PROVE OrderInv'
  OBVIOUS
<1>0. /\ log \in [Keys -> Seq(Msg)] /\ queue \in [Handlers -> Seq(Msg)] /\ key \in [Handlers -> Keys]
      /\ turn \in [Handlers -> 0..MaxSent] /\ sent \in Nat
      /\ pc \in [Handlers -> {"idle", "append", "get", "prepare", "loop", "save", "closed"}]
  BY MaxSentAssumption DEF TypeOK
\* Steps that store nothing.
<1>1. ASSUME NEW h \in Handlers, UNCHANGED <<log, key, turn, sent, queue>>,
             \A g \in Handlers \ {h} : pc'[g] = pc[g],
             Busy(h)' => Busy(h) /\ TurnOrder(h)'
      PROVE  OrderInv'
  BY <1>1 DEF OrderInv, TurnOrder, Busy
\* Steps that push c to the session of h.
<1>2. ASSUME NEW h \in Handlers, Busy(h), NEW c \in Seq(Msg), c # <<>>, UNCHANGED <<key, turn, sent>>,
             log' = [log EXCEPT ![key[h]] = @ \o c],
             \A i \in 1..Len(c) : c[i].turn = turn[h],
             c[1] = UserMsg(turn[h]) \/ Holds(log[key[h]], UserMsg(turn[h])),
             \A i \in 1..Len(queue'[h]) : queue'[h][i].turn = turn[h],
             \A g \in Handlers \ {h} : pc'[g] = pc[g] /\ queue'[g] = queue[g]
      PROVE  OrderInv'
  <2>0. key[h] \in Keys /\ log[key[h]] \in Seq(Msg) /\ turn[h] \in Turns /\ TurnOrder(h)
        /\ InOrder(log[key[h]]) /\ turn[h] \in Nat
    BY <1>0, <1>2, MaxSentAssumption DEF TurnInv, OrderInv
  <2>1. log'[key[h]] = log[key[h]] \o c /\ \A k \in Keys \ {key[h]} : log'[k] = log[k]
    BY <1>0, <1>2, <2>0
  <2>2. /\ InOrder(log'[key[h]])
        /\ \A i \in 1..Len(log'[key[h]]) :
             log'[key[h]][i].turn \in Nat /\ log'[key[h]][i].turn <= turn[h]
        /\ Holds(log'[key[h]], UserMsg(turn[h]))
    <3>1. \A i \in 1..Len(log[key[h]]) : log[key[h]][i].turn <= turn[h] BY <2>0 DEF TurnOrder
    <3> QED BY <1>2, <2>0, <2>1, <3>1, InOrderPush
  <2>3. TurnOrder(h)' BY <1>2, <2>0, <2>2 DEF TurnOrder
  <2>4. ASSUME NEW g \in Handlers \ {h}, Busy(g)' PROVE TurnOrder(g)'
    <3>1. Busy(g) /\ pc'[g] = pc[g] BY <1>2, <2>4 DEF Busy
    <3>2. key[g] # key[h] /\ key[g] \in Keys BY <1>0, <1>2, <3>1 DEF OneOnKey
    <3>3. log'[key[g]] = log[key[g]] BY <2>1, <3>2
    <3> QED BY <1>2, <3>1, <3>3 DEF OrderInv, TurnOrder
  <2>5. \A i \in 1..Len(log'[key[h]]) : log'[key[h]][i].turn <= sent
    BY <1>0, <2>0, <2>2 DEF TurnOrder
  <2>6. \A k \in Keys : InOrder(log'[k]) BY <2>1, <2>2 DEF OrderInv
  <2>7. ASSUME NEW k \in Keys PROVE \A i \in 1..Len(log'[k]) : log'[k][i].turn <= sent'
    <3>1. sent' = sent BY <1>2
    <3>2. CASE k = key[h] BY <2>5, <3>1, <3>2
    <3>3. CASE k # key[h] BY <2>1, <3>1, <3>3 DEF OrderInv
    <3> QED BY <3>2, <3>3
  <2>8. \A g \in Handlers : Busy(g)' => TurnOrder(g)' BY <2>3, <2>4
  <2> QED BY <2>6, <2>7, <2>8 DEF OrderInv
<1>3. ASSUME NEW h \in Handlers, Continue(h)
      PROVE  /\ \A g \in Handlers \ {h} : pc'[g] = pc[g]
             /\ pc'[h] = IF pc[h] = "append" THEN "get" ELSE "idle"
  BY <1>0, <1>3 DEF Continue, Return
<1>4. ASSUME NEW h \in Handlers, NEW k \in Keys, Receive(h, k) PROVE OrderInv'
  <2>1. /\ pc' = [pc EXCEPT ![h] = "append"] /\ key' = [key EXCEPT ![h] = k]
        /\ turn' = [turn EXCEPT ![h] = sent + 1] /\ sent' = sent + 1 /\ UNCHANGED log
        /\ queue' = [queue EXCEPT ![h] = <<UserMsg(sent + 1)>>]
    BY <1>4 DEF Receive
  <2>2. \A q \in Keys : \A i \in 1..Len(log[q]) : log[q][i].turn \in Nat /\ log[q][i].turn <= sent
    <3>1. \A q \in Keys : \A i \in 1..Len(log[q]) : log[q][i] \in Msg BY <1>0
    <3> QED BY <3>1, MsgTurn DEF OrderInv
  <2>3. \A q \in Keys : \A i \in 1..Len(log[q]) : log[q][i].turn <= sent + 1 BY <1>0, <2>2
  <2>4. TurnOrder(h)'
    <3>1. /\ key'[h] = k /\ turn'[h] = sent + 1 /\ pc'[h] = "append"
          /\ queue'[h] = <<UserMsg(sent + 1)>>
      BY <1>0, <2>1
    <3>2. \A i \in 1..Len(queue'[h]) : queue'[h][i].turn = turn'[h] BY <1>0, <3>1 DEF UserMsg
    <3>3. turn'[h] <= sent' /\ queue'[h] = <<UserMsg(turn'[h])>> BY <1>0, <2>1, <3>1
    <3>4. \A i \in 1..Len(log'[key'[h]]) : log'[key'[h]][i].turn <= turn'[h] BY <2>1, <2>3, <3>1
    <3> QED BY <3>1, <3>2, <3>3, <3>4 DEF TurnOrder
  <2>5. ASSUME NEW g \in Handlers \ {h}, Busy(g)' PROVE TurnOrder(g)'
    <3>1. Busy(g) /\ UNCHANGED <<pc[g], key[g], turn[g], queue[g]>> BY <1>0, <2>1, <2>5 DEF Busy
    <3>2. turn[g] <= sent /\ turn[g] \in Nat BY <1>0, <3>1, MaxSentAssumption DEF OrderInv, TurnOrder
    <3>3. turn[g] <= sent + 1 BY <1>0, <3>2
    <3> QED BY <2>1, <3>1, <3>3 DEF OrderInv, TurnOrder
  <2> QED BY <2>1, <2>3, <2>4, <2>5 DEF OrderInv
<1>5. ASSUME NEW h \in Handlers, MemoryAppend(h) PROVE OrderInv'
  <2>0. Busy(h) /\ TurnOrder(h) /\ key[h] \in Keys /\ queue[h] \in Seq(Msg) /\ log[key[h]] \in Seq(Msg)
    BY <1>0, <1>5 DEF MemoryAppend, Appending, Busy, OrderInv
  <2>1. /\ \A g \in Handlers \ {h} : pc'[g] = pc[g] /\ queue'[g] = queue[g]
        /\ queue'[h] = <<>> /\ UNCHANGED <<key, turn, sent>>
        /\ log' = [log EXCEPT ![key[h]] = @ \o queue[h]]
        /\ pc'[h] = IF pc[h] = "append" THEN "get" ELSE "idle"
    BY <1>0, <1>3, <1>5 DEF MemoryAppend
  <2>2. CASE queue[h] # <<>>
    <3>1. queue[h][1] = UserMsg(turn[h]) \/ Holds(log[key[h]], UserMsg(turn[h]))
      BY <2>0 DEF TurnOrder
    <3>2. \A i \in 1..Len(queue[h]) : queue[h][i].turn = turn[h] BY <2>0 DEF TurnOrder
    <3>3. \A i \in 1..Len(queue'[h]) : queue'[h][i].turn = turn[h] BY <2>1
    <3> HIDE DEF TurnOrder
    <3> QED BY <1>2, <2>0, <2>1, <2>2, <3>1, <3>2, <3>3
  <2>3. CASE queue[h] = <<>>
    <3>1. log' = log BY <1>0, <2>0, <2>1, <2>3
    <3>2. queue' = queue BY <1>0, <1>5, <2>3 DEF MemoryAppend
    <3>3. Holds(log[key[h]], UserMsg(turn[h])) BY <2>0, <2>3 DEF TurnOrder
    <3>4. TurnOrder(h)' BY <2>0, <2>1, <3>1, <3>2, <3>3 DEF TurnOrder
    <3> QED BY <1>1, <2>0, <2>1, <3>1, <3>2, <3>4
  <2> QED BY <2>2, <2>3
<1>6. ASSUME NEW h \in Handlers, RedisPush(h) PROVE OrderInv'
  <2>0. Busy(h) /\ TurnOrder(h) /\ key[h] \in Keys /\ queue[h] \in Seq(Msg) /\ queue[h] # <<>>
        /\ log[key[h]] \in Seq(Msg)
    BY <1>0, <1>6 DEF RedisPush, Appending, Busy, OrderInv
  <2> DEFINE m == Head(queue[h])
             c == <<m>>
  <2>1. m \in Msg /\ m = queue[h][1] /\ 1 \in 1..Len(queue[h]) BY <2>0
  <2>2. m.turn = turn[h] /\ (m = UserMsg(turn[h]) \/ Holds(log[key[h]], UserMsg(turn[h])))
    BY <2>0, <2>1 DEF TurnOrder
  <2>3. /\ Tail(queue[h]) \in Seq(Msg) /\ Len(Tail(queue[h])) = Len(queue[h]) - 1
        /\ \A i \in 1..Len(Tail(queue[h])) : Tail(queue[h])[i] = queue[h][i + 1]
    BY <2>0
  <2>4. ASSUME NEW i \in 1..Len(Tail(queue[h])) PROVE Tail(queue[h])[i].turn = turn[h]
    <3>1. i + 1 \in 1..Len(queue[h]) BY <2>0, <2>3
    <3> QED BY <2>0, <2>3, <3>1 DEF TurnOrder
  <2> HIDE DEF m
  <2>5. Append(log[key[h]], m) = log[key[h]] \o c BY <2>0, <2>1, AppendIsPush
  <2>6. c \in Seq(Msg) /\ c # <<>> /\ Len(c) = 1 /\ c[1] = m BY <2>1
  <2> HIDE DEF c
  <2>7. log' = [log EXCEPT ![key[h]] = @ \o c] BY <1>6, <2>5 DEF RedisPush, m
  <2>8. UNCHANGED <<key, turn, sent, pc>> /\ queue'[h] = Tail(queue[h])
        /\ \A g \in Handlers \ {h} : queue'[g] = queue[g]
    BY <1>0, <1>6 DEF RedisPush
  <2>9. \A i \in 1..Len(c) : c[i].turn = turn[h] BY <2>2, <2>6
  <2>10. c[1] = UserMsg(turn[h]) \/ Holds(log[key[h]], UserMsg(turn[h])) BY <2>2, <2>6
  <2> QED BY <1>2, <2>0, <2>4, <2>6, <2>7, <2>8, <2>9, <2>10
<1>7. ASSUME NEW h \in Handlers, RedisTrim(h) PROVE OrderInv'
  <2>0. Busy(h) /\ TurnOrder(h) /\ queue[h] = <<>>
    BY <1>7 DEF RedisTrim, Appending, Busy, OrderInv
  <2>1. UNCHANGED <<log, key, turn, sent, queue>> /\ \A g \in Handlers \ {h} : pc'[g] = pc[g]
    BY <1>3, <1>7 DEF RedisTrim
  <2>2. TurnOrder(h)' BY <2>0, <2>1 DEF TurnOrder
  <2> QED BY <1>1, <2>0, <2>1, <2>2
<1>8. ASSUME NEW h \in Handlers, Get(h) \/ Prepare(h) \/ LoopFails(h) PROVE OrderInv'
  <2>0. Busy(h) /\ TurnOrder(h) /\ pc[h] # "append"
    BY <1>8 DEF Get, Prepare, LoopFails, Busy, OrderInv
  <2>1. UNCHANGED <<log, key, turn, sent, queue>> /\ \A g \in Handlers \ {h} : pc'[g] = pc[g]
    BY <1>0, <1>8 DEF Get, Prepare, SelectForTurnFails, LoopFails, Return
  <2>2. TurnOrder(h)' BY <2>0, <2>1 DEF TurnOrder
  <2> QED BY <1>1, <2>0, <2>1, <2>2
<1>9. ASSUME NEW h \in Handlers, Reconnect(h) PROVE OrderInv'
  <2>1. /\ UNCHANGED <<log, key, turn, sent, queue>> /\ pc'[h] = "idle"
        /\ \A g \in Handlers \ {h} : pc'[g] = pc[g]
    BY <1>0, <1>9 DEF Reconnect
  <2>2. ~Busy(h)' BY <2>1 DEF Busy
  <2> QED BY <1>1, <2>1, <2>2
<1>10. ASSUME NEW h \in Handlers, LoopSucceeds(h) PROVE OrderInv'
  <2>0. Busy(h) /\ TurnOrder(h) /\ pc[h] # "append" /\ turn[h] \in Turns
    BY <1>10 DEF LoopSucceeds, Busy, OrderInv, TurnInv
  <2>1. PICK d \in Deltas(turn[h]) : queue' = [queue EXCEPT ![h] = d] BY <1>10 DEF LoopSucceeds
  <2>2. \A i \in 1..Len(d) : d[i].turn = turn[h] BY DEF Deltas
  <2>3. UNCHANGED <<log, key, turn, sent>> /\ \A g \in Handlers \ {h} : pc'[g] = pc[g]
    BY <1>0, <1>10 DEF LoopSucceeds
  <2>4. queue'[h] = d /\ \A g \in Handlers \ {h} : queue'[g] = queue[g] BY <1>0, <2>1
  <2>5. TurnOrder(h)' BY <2>0, <2>2, <2>3, <2>4 DEF TurnOrder
  <2> QED BY <2>3, <2>4, <2>5 DEF OrderInv, TurnOrder, Busy
<1>11. ASSUME NEW h \in Handlers PROVE ~RedisDrop(h) /\ ~GetFails(h) BY DEF RedisDrop, GetFails
<1>12. ASSUME NEW k \in Keys PROVE ~Expire(k) BY DEF Expire
<1>13. CASE Restart
  <2>1. (\A h \in Handlers : ~Busy(h)') /\ UNCHANGED sent BY <1>13 DEF Restart, Busy
  <2>2. CASE UNCHANGED log BY <2>1, <2>2 DEF OrderInv
  <2>3. CASE log' = [k \in Keys |-> <<>>] BY <2>1, <2>3 DEF OrderInv, InOrder
  <2> QED BY <1>13, <2>2, <2>3 DEF Restart
<1>14. CASE UNCHANGED vars BY <1>14 DEF vars, OrderInv, TurnOrder, Busy
<1> QED BY <1>4, <1>5, <1>6, <1>7, <1>8, <1>9, <1>10, <1>11, <1>12, <1>13, <1>14
        DEF Next, HandlerStep

\* Nothing runs and nothing is stored when the process first starts.
LEMMA InitOneTurn == Init => OneOnKey /\ AskedInv /\ OrderInv
<1> SUFFICES ASSUME Init PROVE OneOnKey /\ AskedInv /\ OrderInv
  OBVIOUS
<1>1. \A h \in Handlers : pc[h] = "idle" /\ ~Busy(h) BY DEF Init, Busy
<1>2. \A k \in Keys : log[k] = <<>> BY DEF Init
<1>3. InOrder(<<>>) BY DEF InOrder
<1>4. \A k \in Keys : \A i \in 1..Len(log[k]) : log[k][i].turn <= sent BY <1>2
<1> QED BY <1>1, <1>2, <1>3, <1>4 DEF OneOnKey, AskedInv, OrderInv

\* What a run of the turns rests on when clients wait: AnswersOwnMessage and
\* ConversationInOrder are consequences.
LEMMA OneTurnGives == (AskedInv => AnswersOwnMessage) /\ (OrderInv => ConversationInOrder)
BY DEF AskedInv, EndsWith, AnswersOwnMessage, OrderInv, InOrder, ConversationInOrder

\* If clients wait for the answer and Redis does not fail, a turn answers its
\* own message, whatever restarts and whatever other sessions do: the last
\* message Get returns is the one the turn's Append stored (service.go 82-91).
THEOREM AnswersOwnMessageAlways ==
  ASSUME Exclusive, ~Faults
  PROVE  Spec => []AnswersOwnMessage
<1>1. Init => TypeOK /\ TurnInv /\ OneOnKey /\ AskedInv BY InitTyped, InitOneTurn
<1>2. TypeOK /\ TurnInv /\ OneOnKey /\ AskedInv /\ [Next]_vars
      => TypeOK' /\ TurnInv' /\ OneOnKey' /\ AskedInv'
  BY NextTyped, NextOneOnKey, NextAsked
<1> QED BY <1>1, <1>2, OneTurnGives, PTL DEF Spec

\* Under the same conditions the session is stored in the order the
\* conversation was held: no reply ends up behind a later question.
THEOREM ConversationInOrderAlways ==
  ASSUME Exclusive, ~Faults
  PROVE  Spec => []ConversationInOrder
<1>1. Init => TypeOK /\ TurnInv /\ OneOnKey /\ OrderInv BY InitTyped, InitOneTurn
<1>2. TypeOK /\ TurnInv /\ OneOnKey /\ OrderInv /\ [Next]_vars
      => TypeOK' /\ TurnInv' /\ OneOnKey' /\ OrderInv'
  BY NextTyped, NextOneOnKey, NextOrder
<1> QED BY <1>1, <1>2, OneTurnGives, PTL DEF Spec
===============================================================================
