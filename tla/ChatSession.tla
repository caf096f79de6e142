----------------------------- MODULE ChatSession -----------------------------
(***************************************************************************)
(* runtime.Service.ChatStream over session.Store: how the turns of several *)
(* WebSocket handlers read and write the short-term memory (STM).          *)
(*                                                                         *)
(* A handler stores the user's message, reads the whole session back, runs *)
(* the tool loop on what it read and stores the loop's messages.  Nothing  *)
(* holds the session in between: handlers of the same session interleave,  *)
(* each Redis command of a pipeline is a step of its own, and the process  *)
(* may restart at any point.  The loop is abstract here: by RoundsAnswered *)
(* and FinalEndsWithAnswer of ReactLoop, a turn that succeeds yields tool  *)
(* rounds and then one answer.                                             *)
(***************************************************************************)
EXTENDS Integers, Sequences, FiniteSets

CONSTANTS
  Handlers,       \* handleWS goroutines: each runs one ChatStream at a time
  Keys,           \* scoped session keys (ScopedChatSessionKey)
  Backends,       \* the stores a deployment may have: "memory", "redis"
  MaxMessages,    \* Store.MaxMessages; <= 0: no trimming
  DatabaseURL,    \* DATABASE_URL is set
  Exclusive,      \* clients wait for a turn to end before they send another
                  \* message to its session, on any connection
  Faults,         \* Redis may drop a pipeline, refuse a read, expire a key
  Restarts,       \* the process may restart
  MaxSent         \* bound: user messages received

ASSUME BackendAssumption == Backends \subseteq {"memory", "redis"}
ASSUME MaxMessagesAssumption == MaxMessages \in Int
ASSUME SwitchesAssumption == {DatabaseURL, Exclusive, Faults, Restarts} \subseteq BOOLEAN
ASSUME MaxSentAssumption == MaxSent \in Nat

VARIABLES
  stm,      \* stm[k]: the messages the store holds for session k
  log,      \* history: everything pushed to k since it was last lost
  pc,       \* pc[h]: where handler h is in ChatStream
  key,      \* key[h]: stmKey of its turn
  turn,     \* turn[h]: the number of its user message
  delta,    \* delta[h]: out[preLen:] of its finished loop
  queue,    \* queue[h]: messages of its Append not yet pushed
  full,     \* full[h]: what Get returned
  sent,     \* user messages received so far
  outcome,  \* outcome[t]: how turn t ended: "none", "ok", "err", "panic", "lost"
  pg,       \* Service.PG # nil, decided when the process starts
  backend   \* the store in use: "redis" if Store.Redis # nil, or "memory"

vars == <<stm, log, pc, key, turn, delta, queue, full, sent, outcome, pg, backend>>

-------------------------------------------------------------------------------
Turns == 1..MaxSent
Roles == {"user", "call", "tool", "reply"}
Msg == [turn : Turns, role : Roles]

UserMsgStale(t) == [turn |-> t - 1, role |-> "user"]

UserMsg(t) == [turn |-> t, role |-> "user"]

\* out[preLen:] of a successful turn: a plain answer, or a tool round first.
Deltas(t) == {<<[turn |-> t, role |-> "reply"]>>,
              <<[turn |-> t, role |-> "call"], [turn |-> t, role |-> "tool"],
                [turn |-> t, role |-> "reply"]>>}

TrimKeepsOldest(s) ==
  IF MaxMessages <= 0 \/ Len(s) <= MaxMessages THEN s
  ELSE SubSeq(s, 1, MaxMessages)

TrimLate(s) ==
  IF MaxMessages <= 0 \/ Len(s) <= MaxMessages + 1 THEN s
  ELSE SubSeq(s, Len(s) - MaxMessages + 1, Len(s))

\* trimLocked, LTRIM -MaxMessages -1: the oldest messages go first.
Trim(s) ==
  IF MaxMessages <= 0 \/ Len(s) <= MaxMessages THEN s
  ELSE SubSeq(s, Len(s) - MaxMessages + 1, Len(s))

Busy(h) == pc[h] \notin {"idle", "closed"}

\* Whether Service.PG # nil after a start: main goes on without the memory store
\* when the pool or the schema fails.
PGAtStart == IF DatabaseURL THEN BOOLEAN ELSE {FALSE}

NobodyOn(k) == \A h \in Handlers : Busy(h) => key[h] # k
-------------------------------------------------------------------------------
Init ==
  /\ stm = [k \in Keys |-> <<>>] /\ log = [k \in Keys |-> <<>>]
  /\ pc = [h \in Handlers |-> "idle"]
  /\ key \in [Handlers -> Keys]
  /\ turn = [h \in Handlers |-> 0]
  /\ delta = [h \in Handlers |-> <<>>]
  /\ queue = [h \in Handlers |-> <<>>] /\ full = [h \in Handlers |-> <<>>]
  /\ sent = 0 /\ outcome = [t \in Turns |-> "none"]
  /\ pg \in PGAtStart /\ backend \in Backends

\* handleWS passes a valid message to ChatStream, which validates the scope,
\* computes the key and calls Append with the user's message.
Receive(h, k) ==
  /\ pc[h] = "idle" /\ sent < MaxSent
  /\ Exclusive => NobodyOn(k)
  /\ sent' = sent + 1
  /\ pc' = [pc EXCEPT ![h] = "append"]
  /\ key' = [key EXCEPT ![h] = k]
  /\ turn' = [turn EXCEPT ![h] = sent + 1]
  /\ queue' = [queue EXCEPT ![h] = <<UserMsg(sent + 1)>>]
  /\ UNCHANGED <<stm, log, delta, full, outcome, pg, backend>>

\* ChatStream returns on handler h; its local variables are gone.
Return(h, how, place) ==
  /\ pc' = [pc EXCEPT ![h] = place]
  /\ outcome' = [outcome EXCEPT ![turn[h]] = how]
  /\ full' = [full EXCEPT ![h] = <<>>]
  /\ delta' = [delta EXCEPT ![h] = <<>>]

\* After an Append: read the session, or return and start the PostTurn
\* goroutine (Extract of LongTermMemory).
Continue(h) ==
  \/ /\ pc[h] = "append"
     /\ pc' = [pc EXCEPT ![h] = "get"]
     /\ UNCHANGED <<outcome, full, delta>>
  \/ /\ pc[h] = "save"
     /\ Return(h, "ok", "idle")

Appending(h) == pc[h] \in {"append", "save"}

MemoryAppendUnlocked(h) ==
  /\ backend = "memory" /\ Appending(h)
  /\ log' = [log EXCEPT ![key[h]] = Append(@, Head(queue[h]))]
  /\ stm' = [stm EXCEPT ![key[h]] = Trim(Append(@, Head(queue[h])))]
  /\ queue' = [queue EXCEPT ![h] = Tail(@)]
  /\ IF Len(queue[h]) = 1 THEN Continue(h)
     ELSE UNCHANGED <<pc, outcome, full, delta>>
  /\ UNCHANGED <<key, turn, sent, pg, backend>>

\* In-memory Append: one critical section, trim included.
MemoryAppend(h) ==
  /\ backend = "memory" /\ Appending(h)
  /\ log' = [log EXCEPT ![key[h]] = @ \o queue[h]]
  /\ stm' = [stm EXCEPT ![key[h]] = Trim(@ \o queue[h])]
  /\ queue' = [queue EXCEPT ![h] = <<>>]
  /\ Continue(h)
  /\ UNCHANGED <<key, turn, sent, pg, backend>>

\* appendRedis: the commands of a pipeline are executed one by one, RPUSH for
\* every message and then LTRIM; commands of other handlers may come between.
RedisPush(h) ==
  /\ backend = "redis" /\ Appending(h) /\ queue[h] # <<>>
  /\ log' = [log EXCEPT ![key[h]] = Append(@, Head(queue[h]))]
  /\ stm' = [stm EXCEPT ![key[h]] = Append(@, Head(queue[h]))]
  /\ queue' = [queue EXCEPT ![h] = Tail(@)]
  /\ UNCHANGED <<pc, key, turn, delta, full, sent, outcome, pg, backend>>

RedisTrimBeforePush(h) ==
  /\ backend = "redis" /\ Appending(h)
  /\ stm' = [stm EXCEPT ![key[h]] = Trim(@)]
  /\ Continue(h)
  /\ UNCHANGED <<log, key, turn, queue, sent, pg, backend>>

RedisTrim(h) ==
  /\ backend = "redis" /\ Appending(h) /\ queue[h] = <<>>
  /\ stm' = [stm EXCEPT ![key[h]] = Trim(@)]
  /\ Continue(h)
  /\ UNCHANGED <<log, key, turn, queue, sent, pg, backend>>

\* The pipeline fails after some of its commands; Append ignores the error.
RedisDrop(h) ==
  /\ Faults /\ backend = "redis" /\ Appending(h)
  /\ queue' = [queue EXCEPT ![h] = <<>>]
  /\ Continue(h)
  /\ UNCHANGED <<stm, log, key, turn, sent, pg, backend>>

\* Get, then the split into history and userTail; an empty session is an error.
Get(h) ==
  /\ pc[h] = "get"
  /\ IF stm[key[h]] = <<>>
     THEN Return(h, "err", "idle")
     ELSE /\ full' = [full EXCEPT ![h] = stm[key[h]]]
          /\ pc' = [pc EXCEPT ![h] = "prepare"]
          /\ UNCHANGED <<outcome, delta>>
  /\ UNCHANGED <<stm, log, key, turn, queue, sent, pg, backend>>

\* LRANGE fails: getRedis returns nil, and ChatStream an error.
GetFails(h) ==
  /\ Faults /\ backend = "redis" /\ pc[h] = "get"
  /\ Return(h, "err", "idle")
  /\ UNCHANGED <<stm, log, key, turn, queue, sent, pg, backend>>

\* sideQ is a nil *SideQuery when there is no PG, but the interface field it
\* is stored in is not nil: PrepareLoop calls SelectForTurn, which reads s.PG.
SideQueryPanics == ~pg

\* SelectForTurn ends the turn: a panic unwinds handleWS, so net/http closes
\* the connection without a reply; a failed query is returned.
SelectForTurnFails(h) ==
  \/ SideQueryPanics /\ Return(h, "panic", "closed")
  \/ ~SideQueryPanics /\ Return(h, "err", "idle")

\* PrepareLoop, and RunStreamedToolLoop up to the loop.
Prepare(h) ==
  /\ pc[h] = "prepare"
  /\ \/ SelectForTurnFails(h)
     \/ /\ ~SideQueryPanics /\ pc' = [pc EXCEPT ![h] = "loop"]
        /\ UNCHANGED <<outcome, delta, full>>
  /\ UNCHANGED <<stm, log, key, turn, queue, sent, pg, backend>>

LoopFailsAfterStoring(h) ==
  /\ pc[h] = "loop"
  /\ \E d \in Deltas(turn[h]) :
       LET rounds == SubSeq(d, 1, Len(d) - 1)
       IN /\ stm' = [stm EXCEPT ![key[h]] = Trim(@ \o rounds)]
          /\ log' = [log EXCEPT ![key[h]] = @ \o rounds]
  /\ Return(h, "err", "idle")
  /\ UNCHANGED <<key, turn, queue, sent, pg, backend>>

\* The loop returned an error: nothing of the turn is stored but the user's
\* message.
LoopFails(h) ==
  /\ pc[h] = "loop"
  /\ Return(h, "err", "idle")
  /\ UNCHANGED <<stm, log, key, turn, queue, sent, pg, backend>>

LoopSucceeds(h) ==
  /\ pc[h] = "loop"
  /\ \E d \in Deltas(turn[h]) : /\ delta' = [delta EXCEPT ![h] = d]
                                /\ queue' = [queue EXCEPT ![h] = d]
  /\ pc' = [pc EXCEPT ![h] = "save"]
  /\ UNCHANGED <<stm, log, key, turn, full, sent, outcome, pg, backend>>

\* A client whose connection was closed opens another one.
Reconnect(h) ==
  /\ pc[h] = "closed"
  /\ pc' = [pc EXCEPT ![h] = "idle"]
  /\ UNCHANGED <<stm, log, key, turn, delta, queue, full, sent, outcome, pg, backend>>

\* The TTL of a key runs out, during a turn too: SESSION_TTL_SECONDS may be
\* shorter than the loop takes.
Expire(k) ==
  /\ Faults /\ backend = "redis" /\ stm[k] # <<>>
  /\ stm' = [stm EXCEPT ![k] = <<>>]
  /\ log' = [log EXCEPT ![k] = <<>>]
  /\ UNCHANGED <<pc, key, turn, delta, queue, full, sent, outcome, pg, backend>>

\* The process dies and comes back; shutdown does not wait for turns either.
\* In-memory sessions are gone, what reached Redis is not; PostgreSQL is asked
\* anew.
Restart ==
  /\ Restarts /\ sent > 0
  /\ pc' = [h \in Handlers |-> "idle"]
  /\ queue' = [h \in Handlers |-> <<>>]
  /\ delta' = [h \in Handlers |-> <<>>] /\ full' = [h \in Handlers |-> <<>>]
  /\ outcome' = [t \in Turns |-> IF \E h \in Handlers : Busy(h) /\ turn[h] = t
                                 THEN "lost" ELSE outcome[t]]
  /\ IF backend = "memory"
     THEN /\ stm' = [k \in Keys |-> <<>>]
          /\ log' = [k \in Keys |-> <<>>]
     ELSE UNCHANGED <<stm, log>>
  /\ pg' \in PGAtStart
  /\ UNCHANGED <<key, turn, sent, backend>>

HandlerStep(h) ==
  \/ MemoryAppend(h) \/ RedisPush(h) \/ RedisTrim(h) \/ RedisDrop(h)
  \/ Get(h) \/ GetFails(h) \/ Prepare(h) \/ LoopFails(h) \/ LoopSucceeds(h)

Next ==
  \/ \E h \in Handlers, k \in Keys : Receive(h, k)
  \/ \E h \in Handlers : HandlerStep(h) \/ Reconnect(h)
  \/ \E k \in Keys : Expire(k)
  \/ Restart

Spec == Init /\ [][Next]_vars
-------------------------------------------------------------------------------
TypeOK ==
  /\ stm \in [Keys -> Seq(Msg)] /\ log \in [Keys -> Seq(Msg)]
  /\ pc \in [Handlers -> {"idle", "append", "get", "prepare", "loop", "save", "closed"}]
  /\ key \in [Handlers -> Keys]
  /\ turn \in [Handlers -> 0..MaxSent]
  /\ delta \in [Handlers -> Seq(Msg)]
  /\ queue \in [Handlers -> Seq(Msg)] /\ full \in [Handlers -> Seq(Msg)]
  /\ sent \in 0..MaxSent
  /\ outcome \in [Turns -> {"none", "ok", "err", "panic", "lost"}]
  /\ pg \in BOOLEAN /\ backend \in Backends

\* a is the end of b.
IsEndOf(a, b) ==
  /\ Len(a) <= Len(b)
  /\ \A i \in 1..Len(a) : a[i] = b[Len(b) - Len(a) + i]

\* Whatever interleaves, fails or restarts, a session holds the most recent
\* messages pushed to it, without a gap and at least MaxMessages of them: a
\* trim of one handler never removes a recent message of another
\* (store.go 80-92 and 138-141).
StoredIsRecent ==
  \A k \in Keys :
    /\ IsEndOf(stm[k], log[k])
    /\ Len(stm[k]) >= Len(log[k]) \/ (MaxMessages > 0 /\ Len(stm[k]) >= MaxMessages)

\* While nobody appends to it, a session is within the bound (store.go 23-25);
\* a failed pipeline may leave it longer until the next append.
StoreBounded ==
  MaxMessages > 0 /\ (backend = "memory" \/ ~(Faults \/ Restarts)) =>
    \A k \in Keys : (\A h \in Handlers : Appending(h) => key[h] # k)
                     => Len(stm[k]) <= MaxMessages

\* The message the model is asked to answer is the one this turn was started
\* with (service.go 82-91: Append, then Get, then the last message).
AnswersOwnMessage ==
  \A h \in Handlers : pc[h] \in {"prepare", "loop", "save"} =>
    full[h][Len(full[h])] = UserMsg(turn[h])

\* In the in-memory store a tool result directly follows its call, and a call its
\* result, whatever turns share the session (store.go 60-65): it is one the
\* provider accepts, but for a head cut by trimming. Over Redis the commands of two
\* pipelines may alternate.
RoundsContiguous ==
  backend = "memory" =>
    \A k \in Keys : \A i \in 1..Len(log[k]) :
      /\ log[k][i].role = "tool" =>
           i > 1 /\ log[k][i - 1] = [turn |-> log[k][i].turn, role |-> "call"]
      /\ log[k][i].role = "call" =>
           i < Len(log[k]) /\ log[k][i + 1].role = "tool"

\* With clients that wait, the conversation is stored in the order it was
\* held: each reply after its own question and before the next question.
ConversationInOrder ==
  \A k \in Keys : \A i \in 1..Len(log[k]) :
    /\ \A j \in 1..i : log[k][j].turn <= log[k][i].turn
    /\ \E j \in 1..i : log[k][j] = UserMsg(log[k][i].turn)

\* What a loop produced is stored only for a turn that is answered: a reply or
\* a tool round belongs to a turn that returned without error, to one whose
\* Append is under way, or to one the process did not survive.  A turn that
\* returned an error or panicked, at whatever point and whatever ran beside it,
\* leaves at most its question behind (service.go 82-195: the second Append is
\* reached only past every early return).
OnlyAnsweredStored ==
  \A k \in Keys : \A i \in 1..Len(log[k]) :
    log[k][i].role # "user" =>
      \/ outcome[log[k][i].turn] \in {"ok", "lost"}
      \/ \E h \in Handlers : pc[h] = "save" /\ key[h] = k /\ turn[h] = log[k][i].turn

\* README.md:94 lists PostgreSQL as optional: no turn panics without it.
NoPanic == \A t \in Turns : outcome[t] # "panic"
===============================================================================
