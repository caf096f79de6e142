------------------------------- MODULE Gateway -------------------------------
(***************************************************************************)
(* ws.Server: one goroutine per connection (handleWS) that authenticates,  *)
(* upgrades, and then reads a message, asks the rate limiter, decodes it   *)
(* and runs the chat turn, one message at a time; a second goroutine pings *)
(* the client.  Both write through wsConnWriter, whose mutex is what keeps *)
(* them from writing at once.                                              *)
(* A turn is seen here as a finite number of frames and a result;          *)
(* ChatSession and ReactLoop model what happens in it.                     *)
(***************************************************************************)
EXTENDS RateLimiter

CONSTANT MaxFrames    \* bound: frames a turn sends

ASSUME MaxFramesAssumption == MaxFrames \in Nat

VARIABLES
  phase,    \* handleWS: "new", "read", "limit", "decode", "chat", "answer", "gone"
  frames,   \* frames the turn at hand has sent; 0 outside of a turn
  writing,  \* handleWS in writeJSON: "no", "wait" for the mutex, "in" WriteJSON
  ping,     \* the ping goroutine: "off", "tick", "wait", "in", "done"
  client,   \* "up", "stalled" while it is connected but does not read, or "lost"
            \* once the connection is closed or dead
  stopped   \* stopPing was called

connVars == <<phase, frames, writing, ping, client, stopped>>
serverVars == <<limiterVars, connVars>>

ServerInit ==
  /\ Init
  /\ phase = [c \in Conns |-> "new"]
  /\ frames = [c \in Conns |-> 0]
  /\ writing = [c \in Conns |-> "no"]
  /\ ping = [c \in Conns |-> "off"]
  /\ client = [c \in Conns |-> "up"]
  /\ stopped = [c \in Conns |-> FALSE]
-------------------------------------------------------------------------------
\* A bad token or query field, or a failed upgrade.
Rejected(c) ==
  /\ phase[c] = "new"
  /\ phase' = [phase EXCEPT ![c] = "gone"]
  /\ UNCHANGED <<limiterVars, frames, writing, ping, client, stopped>>

Upgraded(c) ==
  /\ phase[c] = "new"
  /\ phase' = [phase EXCEPT ![c] = "read"]
  /\ ping' = [ping EXCEPT ![c] = "tick"]
  /\ UNCHANGED <<limiterVars, frames, writing, client, stopped>>

Pending == {c \in Conns : phase[c] = "limit"}

\* ReadMessage returns a message, and allow reads the clock.
Receive(c) ==
  /\ phase[c] = "read" /\ client[c] # "lost"
  /\ Cardinality(admitted) + Cardinality(Pending) < MaxMsgs
  /\ ReadClock(c)
  /\ phase' = [phase EXCEPT ![c] = "limit"]
  /\ UNCHANGED <<frames, writing, ping, client, stopped>>

TooMany(c) ==
  /\ phase[c] = "limit" /\ Refuse(c)
  /\ phase' = [phase EXCEPT ![c] = "answer"]
  /\ writing' = [writing EXCEPT ![c] = "wait"]
  /\ UNCHANGED <<frames, ping, client, stopped>>

Allowed(c) ==
  /\ phase[c] = "limit" /\ Admit(c)
  /\ phase' = [phase EXCEPT ![c] = "decode"]
  /\ UNCHANGED <<frames, writing, ping, client, stopped>>

\* No JSON, a wrong type or an empty field, a bad session id, or a long text.
Invalid(c) ==
  /\ phase[c] = "decode"
  /\ phase' = [phase EXCEPT ![c] = "answer"]
  /\ writing' = [writing EXCEPT ![c] = "wait"]
  /\ UNCHANGED <<limiterVars, frames, ping, client, stopped>>

Valid(c) ==
  /\ phase[c] = "decode"
  /\ phase' = [phase EXCEPT ![c] = "chat"]
  /\ UNCHANGED <<limiterVars, frames, writing, ping, client, stopped>>

\* ChatStream sends a frame through the notifier.
SendFrame(c) ==
  /\ phase[c] = "chat" /\ writing[c] = "no" /\ frames[c] < MaxFrames
  /\ frames' = [frames EXCEPT ![c] = @ + 1]
  /\ writing' = [writing EXCEPT ![c] = "wait"]
  /\ UNCHANGED <<limiterVars, phase, ping, client, stopped>>

ChatEnds(c) ==
  /\ phase[c] = "chat" /\ writing[c] = "no"
  /\ phase' = [phase EXCEPT ![c] = "read"]
  /\ frames' = [frames EXCEPT ![c] = 0]
  /\ UNCHANGED <<limiterVars, writing, ping, client, stopped>>

ChatFails(c) ==
  /\ phase[c] = "chat" /\ writing[c] = "no"
  /\ phase' = [phase EXCEPT ![c] = "answer"]
  /\ frames' = [frames EXCEPT ![c] = 0]
  /\ writing' = [writing EXCEPT ![c] = "wait"]
  /\ UNCHANGED <<limiterVars, ping, client, stopped>>

UnlockedShared(c) == \A d \in Conns : writing[d] # "in" /\ ping[d] # "in"

\* Nobody holds the mutex of the connection's writer.
Unlocked(c) == writing[c] # "in" /\ ping[c] # "in"

writeJSONLock(c) ==
  /\ writing[c] = "wait" /\ Unlocked(c)
  /\ writing' = [writing EXCEPT ![c] = "in"]
  /\ UNCHANGED <<limiterVars, phase, frames, ping, client, stopped>>

\* The write is over, with or without an error, which the handler ignores. It
\* has no deadline: to a client that does not read it may take forever.
writeJSONUnlock(c) ==
  /\ writing[c] = "in" /\ client[c] # "stalled"
  /\ writing' = [writing EXCEPT ![c] = "no"]
  /\ phase' = [phase EXCEPT ![c] = IF @ = "answer" THEN "read" ELSE @]
  /\ UNCHANGED <<limiterVars, frames, ping, client, stopped>>

\* ReadMessage fails: the deferred stopPing and Close run.
ReadFails(c) ==
  /\ phase[c] = "read" /\ client[c] = "lost"
  /\ phase' = [phase EXCEPT ![c] = "gone"]
  /\ stopped' = [stopped EXCEPT ![c] = TRUE]
  /\ UNCHANGED <<limiterVars, frames, writing, ping, client>>

\* The client closes, breaks off, or answers no ping for three minutes.
Lose(c) ==
  /\ client[c] # "lost" /\ phase[c] \notin {"new", "gone"}
  /\ client' = [client EXCEPT ![c] = "lost"]
  /\ UNCHANGED <<limiterVars, phase, frames, writing, ping, stopped>>

\* The client stops reading and the buffers of its connection are full, ...
Stall(c) ==
  /\ client[c] = "up" /\ phase[c] \notin {"new", "gone"}
  /\ client' = [client EXCEPT ![c] = "stalled"]
  /\ UNCHANGED <<limiterVars, phase, frames, writing, ping, stopped>>

\* ... or reads on.
Resume(c) ==
  /\ client[c] = "stalled"
  /\ client' = [client EXCEPT ![c] = "up"]
  /\ UNCHANGED <<limiterVars, phase, frames, writing, ping, stopped>>
-------------------------------------------------------------------------------
\* The ping goroutine.

PingTick(c) ==
  /\ ping[c] = "tick"
  /\ ping' = [ping EXCEPT ![c] = "wait"]
  /\ UNCHANGED <<limiterVars, phase, frames, writing, client, stopped>>

writeControlUnlocked(c) ==
  /\ ping[c] = "wait"
  /\ ping' = [ping EXCEPT ![c] = "in"]
  /\ UNCHANGED <<limiterVars, phase, frames, writing, client, stopped>>

writeControlLock(c) ==
  /\ ping[c] = "wait" /\ Unlocked(c)
  /\ ping' = [ping EXCEPT ![c] = "in"]
  /\ UNCHANGED <<limiterVars, phase, frames, writing, client, stopped>>

\* A ping to a lost client may still be buffered; on a closed connection it
\* fails, and so does one that is not sent in ten seconds.
PingSent(c) ==
  /\ ping[c] = "in" /\ phase[c] # "gone" /\ client[c] # "stalled"
  /\ ping' = [ping EXCEPT ![c] = "tick"]
  /\ UNCHANGED <<limiterVars, phase, frames, writing, client, stopped>>

PingFails(c) ==
  /\ ping[c] = "in"
  /\ ping' = [ping EXCEPT ![c] = "done"]
  /\ UNCHANGED <<limiterVars, phase, frames, writing, client, stopped>>

PingStopped(c) ==
  /\ ping[c] = "tick" /\ stopped[c]
  /\ ping' = [ping EXCEPT ![c] = "done"]
  /\ UNCHANGED <<limiterVars, phase, frames, writing, client, stopped>>
-------------------------------------------------------------------------------
HandlerStep(c) ==
  \/ TooMany(c) \/ Allowed(c) \/ Invalid(c) \/ Valid(c)
  \/ SendFrame(c) \/ ChatEnds(c) \/ ChatFails(c)
  \/ writeJSONUnlock(c) \/ ReadFails(c)

PingWrite(c) == PingSent(c) \/ PingFails(c) \/ PingStopped(c)

ServerNext ==
  \/ Tick /\ UNCHANGED connVars
  \/ \E c \in Conns :
       \/ Rejected(c) \/ Upgraded(c) \/ Receive(c) \/ HandlerStep(c) \/ writeJSONLock(c)
       \/ Lose(c) \/ Stall(c) \/ Resume(c)
       \/ PingTick(c) \/ writeControlLock(c) \/ PingWrite(c)

ServerSpec == ServerInit /\ [][ServerNext]_serverVars

\* Goroutines run; a sync.Mutex does not starve a waiter, which is strong
\* fairness of taking it; the ping loop's select may prefer the ticker.
\* That a turn goes on is assumed of what it calls: the model's HTTP client has a
\* timeout (client.go:74), but queries run on a context without a deadline, so
\* PostgreSQL has to answer. A write that does not return is not excluded: it is
\* the stalled client's.
ServerFairness ==
  \A c \in Conns :
    /\ WF_serverVars(HandlerStep(c))
    /\ SF_serverVars(writeJSONLock(c))
    /\ SF_serverVars(writeControlLock(c))
    /\ WF_serverVars(PingWrite(c))

FairServerSpec == ServerSpec /\ ServerFairness
-------------------------------------------------------------------------------
\* gorilla/websocket allows one writer at a time: the handler's frames and the
\* pings never overlap (writer.go:10).
OneWriter == \A c \in Conns : ~(writing[c] = "in" /\ ping[c] = "in")

\* A message that was read does not hang: it is refused, answered or its turn
\* ends, and the connection reads on; and a lost client does not keep its
\* goroutines: the handler returns, also from the middle of a turn, and the
\* ping loop ends (server.go:172-187, 191-256). Only a client that does not
\* read holds up its connection, and none but its own (writer.go:16-20).
ConnectionsSettled ==
  \A c \in Conns :
    phase[c] \in {"limit", "decode", "chat", "answer"} \/ client[c] = "lost"
      ~> \/ phase[c] = "read" /\ client[c] = "up"
         \/ phase[c] = "gone" /\ ping[c] = "done"
         \/ client[c] = "stalled"
===============================================================================
