------------------------- MODULE SessionClients_proofs -------------------------
(***************************************************************************)
(* Proofs, for any number of connections, sessions and messages and either *)
(* store, that clients which keep each session on one connection and open  *)
(* the next only when the session is not in use need not wait for answers: *)
(* the handlers' loop gives one turn at a time, and with it the order of   *)
(* the conversation.                                                       *)
(***************************************************************************)
EXTENDS SessionClients, ChatSession_proofs

ClientTypes ==
  /\ conn \in [Keys -> Handlers \cup {NoConn}]
  /\ inbox \in [Handlers -> Seq(Keys)]

\* A waiting message waits in the connection its session is used on.
Addressed == \A h \in Handlers : \A i \in 1..Len(inbox[h]) : conn[inbox[h][i]] = h

\* A running turn belongs to the connection its session is used on, or that
\* connection broke and no other was opened.
Served == \A h \in Handlers : Busy(h) => conn[key[h]] \in {h, NoConn}

ClientInv == ClientTypes /\ Addressed /\ Served /\ OneOnKey

\* The head of a connection's messages is of a session nobody runs a turn of.
LEMMA HeadIsFree ==
  ASSUME TypeOK, ClientInv, NEW h \in Handlers, inbox[h] # <<>>, pc[h] = "idle"
  PROVE  LET k == Head(inbox[h]) IN k \in Keys /\ conn[k] = h /\ NobodyOn(k)
<1> DEFINE k == Head(inbox[h])
<1>1. inbox[h] \in Seq(Keys) BY DEF ClientInv, ClientTypes
<1>2. k \in Keys /\ 1 \in 1..Len(inbox[h]) /\ k = inbox[h][1] BY <1>1
<1>3. conn[k] = h BY <1>2 DEF ClientInv, Addressed
<1> HIDE DEF k
<1>4. ASSUME NEW g \in Handlers, Busy(g), key[g] = k PROVE FALSE
  <2>1. conn[k] \in {g, NoConn} BY <1>4 DEF ClientInv, Served
  <2>2. g = h BY <1>3, <2>1, NoConnAssumption
  <2> QED BY <1>4, <2>2 DEF Busy
<1>5. NobodyOn(k) BY <1>4 DEF NobodyOn
<1> QED BY <1>2, <1>3, <1>5 DEF k

LEMMA NextClient ==
  TypeOK /\ ClientInv /\ (ClientsNext \/ UNCHANGED allVars) => ClientInv'
<1> SUFFICES ASSUME TypeOK, ClientInv, ClientsNext \/ UNCHANGED allVars PROVE ClientInv'
  OBVIOUS
<1>0. /\ conn \in [Keys -> Handlers \cup {NoConn}] /\ inbox \in [Handlers -> Seq(Keys)]
      /\ key \in [Handlers -> Keys]
      /\ pc \in [Handlers -> {"idle", "append", "get", "prepare", "loop", "save", "closed"}]
  BY DEF TypeOK, ClientInv, ClientTypes
\* Steps of the turns: no handler becomes busy, sessions stay where they are.
<1>1. ASSUME UNCHANGED key, \A g \in Handlers : Busy(g)' => Busy(g) PROVE OneOnKey'
  BY <1>1 DEF ClientInv, OneOnKey
<1>2. ASSUME NEW h \in Handlers, HandlerStep(h) \/ Reconnect(h)
      PROVE  UNCHANGED key /\ \A g \in Handlers : Busy(g)' => Busy(g)
  <2>1. UNCHANGED key
    BY <1>2 DEF HandlerStep, MemoryAppend, RedisPush, RedisTrim, RedisDrop, Get, GetFails, Prepare,
                LoopFails, LoopSucceeds, Reconnect
  <2>2. CASE MemoryAppend(h) \/ RedisTrim(h) \/ RedisDrop(h)
    <3>1. Continue(h) BY <2>2 DEF MemoryAppend, RedisTrim, RedisDrop
    <3> QED BY <2>1, <3>1, ContinueTyped DEF ReturnPost
  <2>3. CASE RedisPush(h) BY <2>1, <2>3 DEF RedisPush, Busy
  <2>4. CASE Get(h) \/ GetFails(h) \/ Prepare(h) \/ LoopFails(h) \/ LoopSucceeds(h) \/ Reconnect(h)
    BY <1>0, <2>1, <2>4 DEF Get, GetFails, Prepare, SelectForTurnFails, LoopFails, LoopSucceeds,
                            Reconnect, Return, Busy
  <2> QED BY <1>2, <2>2, <2>3, <2>4 DEF HandlerStep
<1>3. ASSUME NEW h \in Handlers, conn' = Detached(h), inbox' = [inbox EXCEPT ![h] = <<>>],
             UNCHANGED key, \A g \in Handlers : Busy(g)' => Busy(g)
      PROVE  ClientInv'
  <2>1. \A k \in Keys : conn'[k] = IF conn[k] = h THEN NoConn ELSE conn[k] BY <1>3 DEF Detached
  <2>2. inbox'[h] = <<>> /\ \A g \in Handlers \ {h} : inbox'[g] = inbox[g] BY <1>0, <1>3
  <2>3. ClientTypes'
    <3>1. conn' \in [Keys -> Handlers \cup {NoConn}] BY <1>0, <1>3 DEF Detached
    <3>2. <<>> \in Seq(Keys) OBVIOUS
    <3>3. inbox' \in [Handlers -> Seq(Keys)] BY <1>0, <1>3, <3>2
    <3> QED BY <3>1, <3>3 DEF ClientTypes
  <2>4. ASSUME NEW g \in Handlers, NEW i \in 1..Len(inbox'[g]) PROVE conn'[inbox'[g][i]] = g
    <3>1. CASE g = h
      <4>1. Len(inbox'[g]) = 0 BY <2>2, <3>1
      <4> QED BY <2>4, <4>1
    <3>2. CASE g # h
      <4>1. inbox'[g] = inbox[g] /\ inbox[g] \in Seq(Keys) BY <1>0, <2>2, <3>2
      <4>2. inbox[g][i] \in Keys BY <2>4, <4>1
      <4>3. conn[inbox[g][i]] = g BY <2>4, <4>1 DEF ClientInv, Addressed
      <4> QED BY <2>1, <3>2, <4>1, <4>2, <4>3
    <3> QED BY <3>1, <3>2
  <2>5. Served'
    <3> SUFFICES ASSUME NEW g \in Handlers, Busy(g)' PROVE conn'[key'[g]] \in {g, NoConn}
      BY DEF Served
    <3>1. Busy(g) /\ key'[g] = key[g] /\ key[g] \in Keys BY <1>0, <1>3
    <3>2. conn[key[g]] \in {g, NoConn} BY <3>1 DEF ClientInv, Served
    <3> QED BY <2>1, <3>1, <3>2
  <2> QED BY <1>1, <1>3, <2>3, <2>4, <2>5 DEF ClientInv, Addressed
<1>4. ASSUME UNCHANGED clientVars, UNCHANGED key, \A g \in Handlers : Busy(g)' => Busy(g)
      PROVE  ClientInv'
  BY <1>1, <1>4 DEF ClientInv, ClientTypes, Addressed, Served, clientVars
<1>5. ASSUME NEW k \in Keys, NEW h \in Handlers, Open(k, h) PROVE ClientInv'
  <2>1. /\ NobodyOn(k) /\ \A g \in Handlers : \A i \in 1..Len(inbox[g]) : inbox[g][i] # k
        /\ conn' = [conn EXCEPT ![k] = h] /\ UNCHANGED vars /\ UNCHANGED inbox
    BY <1>5 DEF Open, MayOpen, InUse
  <2>2. /\ UNCHANGED <<key, pc, inbox>> /\ conn' \in [Keys -> Handlers \cup {NoConn}]
        /\ \A q \in Keys \ {k} : conn'[q] = conn[q]
    BY <1>0, <2>1 DEF vars
  <2>3. ASSUME NEW g \in Handlers, NEW i \in 1..Len(inbox[g]) PROVE conn'[inbox[g][i]] = g
    <3>1. inbox[g] \in Seq(Keys) BY <1>0
    <3>2. inbox[g][i] \in Keys \ {k} BY <2>1, <2>3, <3>1
    <3>3. conn[inbox[g][i]] = g BY <2>3 DEF ClientInv, Addressed
    <3> QED BY <2>2, <3>2, <3>3
  <2>4. ASSUME NEW g \in Handlers, Busy(g) PROVE conn'[key[g]] \in {g, NoConn}
    <3>1. key[g] \in Keys \ {k} BY <1>0, <2>1, <2>4 DEF NobodyOn
    <3>2. conn[key[g]] \in {g, NoConn} BY <2>4 DEF ClientInv, Served
    <3> QED BY <2>2, <3>1, <3>2
  <2>5. OneOnKey' BY <1>1, <2>2 DEF Busy
  <2> QED BY <2>2, <2>3, <2>4, <2>5 DEF ClientInv, ClientTypes, Addressed, Served, Busy
<1>6. ASSUME NEW k \in Keys, Send(k) PROVE ClientInv'
  <2> DEFINE h == conn[k]
  <2>1. /\ h \in Handlers /\ inbox' = [inbox EXCEPT ![h] = Append(@, k)]
        /\ UNCHANGED vars /\ UNCHANGED conn
    BY <1>0, <1>6 DEF Send
  <2>2. UNCHANGED <<key, pc, conn>> BY <2>1 DEF vars
  <2>3. h = conn[k] OBVIOUS
  <2> HIDE DEF h
  <2>4. inbox[h] \in Seq(Keys) /\ inbox'[h] = Append(inbox[h], k) /\ inbox'[h] \in Seq(Keys)
        /\ \A g \in Handlers \ {h} : inbox'[g] = inbox[g]
    BY <1>0, <2>1
  <2>5. inbox' \in [Handlers -> Seq(Keys)] BY <1>0, <2>1, <2>4
  <2>6. ASSUME NEW g \in Handlers, NEW i \in 1..Len(inbox'[g]) PROVE conn[inbox'[g][i]] = g
    <3>1. CASE g # h BY <2>4, <2>6, <3>1 DEF ClientInv, Addressed
    <3>2. CASE g = h
      <4>1. /\ Len(inbox'[h]) = Len(inbox[h]) + 1 /\ inbox'[h][Len(inbox[h]) + 1] = k
            /\ \A j \in 1..Len(inbox[h]) : inbox'[h][j] = inbox[h][j]
        BY <2>4
      <4>2. i = Len(inbox[h]) + 1 \/ i \in 1..Len(inbox[h]) BY <2>4, <2>6, <3>2, <4>1
      <4>3. CASE i = Len(inbox[h]) + 1 BY <2>3, <3>2, <4>1, <4>3
      <4>4. CASE i \in 1..Len(inbox[h]) BY <2>1, <3>2, <4>1, <4>4 DEF ClientInv, Addressed
      <4> QED BY <4>2, <4>3, <4>4
    <3> QED BY <3>1, <3>2
  <2>7. OneOnKey' BY <1>1, <2>2 DEF Busy
  <2>8. Served' BY <2>2 DEF ClientInv, Served, Busy
  <2> QED BY <1>0, <2>2, <2>5, <2>6, <2>7, <2>8 DEF ClientInv, ClientTypes, Addressed
<1>7. ASSUME NEW h \in Handlers, ReadNext(h) PROVE ClientInv'
  <2> DEFINE k == Head(inbox[h])
  <2>1. /\ inbox[h] # <<>> /\ pc[h] = "idle" /\ inbox' = [inbox EXCEPT ![h] = Tail(@)]
        /\ pc' = [pc EXCEPT ![h] = "append"] /\ key' = [key EXCEPT ![h] = k] /\ UNCHANGED conn
    BY <1>7 DEF ReadNext, Receive
  <2>2. k \in Keys /\ conn[k] = h /\ NobodyOn(k) BY <2>1, HeadIsFree
  <2>3. inbox[h] \in Seq(Keys) BY <1>0
  <2>4. /\ Tail(inbox[h]) \in Seq(Keys) /\ Len(Tail(inbox[h])) = Len(inbox[h]) - 1
        /\ \A i \in 1..Len(Tail(inbox[h])) : Tail(inbox[h])[i] = inbox[h][i + 1]
    BY <2>1, <2>3
  <2> HIDE DEF k
  <2>5. /\ key'[h] = k /\ inbox'[h] = Tail(inbox[h])
        /\ \A g \in Handlers \ {h} : key'[g] = key[g] /\ pc'[g] = pc[g] /\ inbox'[g] = inbox[g]
    BY <1>0, <2>1
  <2>6. ClientTypes' BY <1>0, <2>1, <2>4 DEF ClientTypes
  <2>7. ASSUME NEW g \in Handlers, NEW i \in 1..Len(inbox'[g]) PROVE conn[inbox'[g][i]] = g
    <3>1. CASE g # h BY <2>5, <2>7, <3>1 DEF ClientInv, Addressed
    <3>2. CASE g = h
      <4>1. i \in 1..Len(Tail(inbox[h])) BY <2>5, <2>7, <3>2
      <4>2. i + 1 \in 1..Len(inbox[h]) BY <2>3, <2>4, <4>1
      <4>3. conn[inbox[h][i + 1]] = h BY <4>2 DEF ClientInv, Addressed
      <4> QED BY <2>4, <2>5, <3>2, <4>1, <4>3
    <3> QED BY <3>1, <3>2
  <2>8. Served'
    <3> SUFFICES ASSUME NEW g \in Handlers, Busy(g)' PROVE conn'[key'[g]] \in {g, NoConn}
      BY DEF Served
    <3>1. CASE g = h BY <2>1, <2>2, <2>5, <3>1
    <3>2. CASE g # h BY <2>1, <2>5, <3>2 DEF ClientInv, Served, Busy
    <3> QED BY <3>1, <3>2
  <2>9. OneOnKey'
    <3>1. \A g \in Handlers \ {h} : Busy(g)' => Busy(g) /\ key'[g] = key[g] /\ key[g] # k
      BY <2>2, <2>5 DEF Busy, NobodyOn
    <3> QED BY <2>5, <3>1 DEF ClientInv, OneOnKey
  <2> QED BY <2>1, <2>6, <2>7, <2>8, <2>9 DEF ClientInv, Addressed
<1>8. ASSUME NEW h \in Handlers, Break(h) PROVE ClientInv'
  BY <1>3, <1>8 DEF Break, vars, Busy
<1>9. ASSUME NEW h \in Handlers, TurnStep(h) PROVE ClientInv'
  BY <1>2, <1>3, <1>4, <1>9 DEF TurnStep
<1>10. ASSUME NEW h \in Handlers, Reconnect(h), UNCHANGED clientVars PROVE ClientInv'
  BY <1>2, <1>4, <1>10
<1>11. CASE UNCHANGED allVars BY <1>4, <1>11 DEF allVars, clientVars, vars, Busy
<1> QED BY <1>5, <1>6, <1>7, <1>8, <1>9, <1>10, <1>11 DEF ClientsNext

\* What the clients do is, for the turns, a step of ChatSession or no step.
LEMMA ClientsStep ==
  TypeOK /\ ClientInv /\ (ClientsNext \/ UNCHANGED allVars) => [Next]_vars
<1> SUFFICES ASSUME TypeOK, ClientInv, ClientsNext \/ UNCHANGED allVars PROVE [Next]_vars
  OBVIOUS
<1>1. ASSUME NEW k \in Keys, NEW h \in Handlers, Send(k) \/ Open(k, h) PROVE UNCHANGED vars
  BY <1>1 DEF Send, Open
<1>2. ASSUME NEW k \in Keys, Send(k) PROVE UNCHANGED vars BY <1>2 DEF Send
<1>3. ASSUME NEW h \in Handlers, ReadNext(h) PROVE Next
  <2>1. Receive(h, Head(inbox[h])) /\ inbox[h] # <<>> /\ pc[h] = "idle"
    BY <1>3 DEF ReadNext, Receive
  <2>2. Head(inbox[h]) \in Keys BY <2>1, HeadIsFree
  <2> QED BY <2>1, <2>2 DEF Next
<1>4. ASSUME NEW h \in Handlers, Break(h) PROVE UNCHANGED vars BY <1>4 DEF Break
<1>5. ASSUME NEW h \in Handlers, TurnStep(h) \/ Reconnect(h) PROVE Next
  BY <1>5 DEF TurnStep, Next
<1>6. CASE UNCHANGED allVars BY <1>6 DEF allVars
<1> QED BY <1>1, <1>2, <1>3, <1>4, <1>5, <1>6 DEF ClientsNext

LEMMA InitClient == ClientsInit => ClientInv
<1> SUFFICES ASSUME ClientsInit PROVE ClientInv
  OBVIOUS
<1>1. OneOnKey BY InitOneTurn DEF ClientsInit
<1>2. Served BY DEF ClientsInit, Init, Served, Busy
<1>3. \A h \in Handlers : inbox[h] = <<>> BY DEF ClientsInit
<1>4. Addressed BY <1>3 DEF Addressed
<1>5. <<>> \in Seq(Keys) OBVIOUS
<1>6. ClientTypes BY <1>5 DEF ClientsInit, ClientTypes
<1> QED BY <1>1, <1>2, <1>4, <1>6 DEF ClientInv

\* The invariant all three theorems rest on.
LEMMA ClientsSafe == ClientsSpec => [](TypeOK /\ TurnInv /\ ClientInv)
<1>1. ClientsInit => TypeOK /\ TurnInv /\ ClientInv BY InitTyped, InitClient DEF ClientsInit
<1>2. TypeOK /\ TurnInv /\ ClientInv /\ [ClientsNext]_allVars => TypeOK' /\ TurnInv' /\ ClientInv'
  BY ClientsStep, NextTyped, NextClient
<1> QED BY <1>1, <1>2, PTL DEF ClientsSpec

LEMMA WaitedStep ==
  TypeOK /\ ClientInv /\ (ClientsNext \/ UNCHANGED allVars) => [Waited!Next]_(Waited!vars)
<1> SUFFICES ASSUME TypeOK, ClientInv, ClientsNext \/ UNCHANGED allVars
             PROVE  Waited!Next \/ UNCHANGED Waited!vars
  OBVIOUS
<1>0. UNCHANGED vars => UNCHANGED Waited!vars BY DEF vars, Waited!vars
<1>1. ASSUME NEW k \in Keys, NEW h \in Handlers, Open(k, h) PROVE UNCHANGED vars BY <1>1 DEF Open
<1>2. ASSUME NEW k \in Keys, Send(k) PROVE UNCHANGED vars BY <1>2 DEF Send
<1>3. ASSUME NEW h \in Handlers, ReadNext(h) PROVE Waited!Next
  <2> DEFINE k == Head(inbox[h])
  <2>1. Receive(h, k) /\ inbox[h] # <<>> /\ pc[h] = "idle" BY <1>3 DEF ReadNext, Receive
  <2>2. k \in Keys /\ NobodyOn(k) BY <2>1, HeadIsFree
  <2> HIDE DEF k
  <2>3. Waited!Receive(h, k)
    BY <2>1, <2>2 DEF Receive, NobodyOn, Busy, UserMsg, Waited!Receive, Waited!NobodyOn, Waited!Busy,
                      Waited!UserMsg
  <2> QED BY <2>2, <2>3 DEF Waited!Next
<1>4. ASSUME NEW h \in Handlers, Break(h) PROVE UNCHANGED vars BY <1>4 DEF Break
<1>5. ASSUME NEW h \in Handlers, HandlerStep(h) PROVE Waited!HandlerStep(h)
  <2>1. ASSUME NEW how, NEW place, Return(h, how, place) PROVE Waited!Return(h, how, place)
    BY <2>1 DEF Return, Waited!Return
  <2>2. Continue(h) => Waited!Continue(h) BY <2>1 DEF Continue, Waited!Continue
  <2>3. Appending(h) => Waited!Appending(h) BY DEF Appending, Waited!Appending
  <2>4. \A s : Waited!Trim(s) = Trim(s) BY DEF Trim, Waited!Trim
  <2>5. CASE MemoryAppend(h)
    BY <2>2, <2>3, <2>4, <2>5 DEF MemoryAppend, Waited!MemoryAppend, Waited!HandlerStep
  <2>6. CASE RedisPush(h) BY <2>3, <2>6 DEF RedisPush, Waited!RedisPush, Waited!HandlerStep
  <2>7. CASE RedisTrim(h)
    BY <2>2, <2>3, <2>4, <2>7 DEF RedisTrim, Waited!RedisTrim, Waited!HandlerStep
  <2>8. CASE RedisDrop(h)
    BY <2>2, <2>3, <2>8 DEF RedisDrop, Waited!RedisDrop, Waited!HandlerStep
  <2>9. CASE Get(h) BY <2>1, <2>9 DEF Get, Waited!Get, Waited!HandlerStep
  <2>10. CASE GetFails(h) BY <2>1, <2>10 DEF GetFails, Waited!GetFails, Waited!HandlerStep
  <2>11. CASE Prepare(h)
    BY <2>1, <2>11 DEF Prepare, SelectForTurnFails, SideQueryPanics, Waited!Prepare,
                       Waited!SelectForTurnFails, Waited!SideQueryPanics, Waited!HandlerStep
  <2>12. CASE LoopFails(h) BY <2>1, <2>12 DEF LoopFails, Waited!LoopFails, Waited!HandlerStep
  <2>13. CASE LoopSucceeds(h)
    BY <2>13 DEF LoopSucceeds, Deltas, Waited!LoopSucceeds, Waited!Deltas, Waited!HandlerStep
  <2> QED BY <1>5, <2>5, <2>6, <2>7, <2>8, <2>9, <2>10, <2>11, <2>12, <2>13 DEF HandlerStep
<1>6. ASSUME NEW h \in Handlers, Reconnect(h) PROVE Waited!Reconnect(h)
  BY <1>6 DEF Reconnect, Waited!Reconnect
<1>7. CASE UNCHANGED allVars
  <2>1. UNCHANGED vars BY <1>7 DEF allVars
  <2> QED BY <1>0, <2>1
<1> QED BY <1>0, <1>1, <1>2, <1>3, <1>4, <1>5, <1>6, <1>7 DEF ClientsNext, TurnStep, Waited!Next

\* A client may send ahead: with every session on one connection, and the next
\* opened only when the session is not in use, the system with clients and
\* connections implements ChatSession with one turn of a session at a time.
THEOREM OneTurnAtATimeHolds == ClientsSpec => OneTurnAtATime
<1>1. ClientsInit => Waited!Init
  BY DEF ClientsInit, Init, PGAtStart, Turns, Waited!Init, Waited!PGAtStart, Waited!Turns
<1>2. TypeOK /\ ClientInv /\ [ClientsNext]_allVars => [Waited!Next]_(Waited!vars) BY WaitedStep
<1> QED BY <1>1, <1>2, ClientsSafe, PTL DEF ClientsSpec, OneTurnAtATime, Waited!Spec

\* So every turn answers its own message although clients send ahead and
\* connections break while a turn is running (server.go 191-256).
THEOREM ClientsAnswered == ClientsSpec => []AnswersOwnMessage
<1>1. ClientsInit => AskedInv BY InitOneTurn DEF ClientsInit
<1>2. TypeOK /\ TurnInv /\ ClientInv /\ AskedInv /\ [ClientsNext]_allVars => AskedInv'
  BY ClientsStep, NextAsked, NothingFails DEF ClientInv
<1> QED BY <1>1, <1>2, ClientsSafe, OneTurnGives, PTL DEF ClientsSpec

\* And the conversation is stored in the order it was held.
THEOREM ClientsInOrder == ClientsSpec => []ConversationInOrder
<1>1. ClientsInit => OrderInv BY InitOneTurn DEF ClientsInit
<1>2. TypeOK /\ TurnInv /\ ClientInv /\ OrderInv /\ [ClientsNext]_allVars => OrderInv'
  BY ClientsStep, NextOrder, NothingFails DEF ClientInv
<1> QED BY <1>1, <1>2, ClientsSafe, OneTurnGives, PTL DEF ClientsSpec
===============================================================================
