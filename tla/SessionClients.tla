---------------------------- MODULE SessionClients ----------------------------
(***************************************************************************)
(* Clients and connections around ChatSession: which behaviour of clients  *)
(* gives the "one turn at a time" its Exclusive runs assume.                *)
(* handleWS reads the messages of a connection one after another, so a      *)
(* client may send as many as it likes without waiting; messages wait in    *)
(* the connection. A turn does not end when its connection breaks. So a     *)
(* session is safe if its messages go over one connection at a time and the *)
(* client opens the next only when no turn of the session is running.       *)
(* ChatSession is used with Exclusive = FALSE: its Receive lets any message *)
(* in. Redis and the process do not fail here.                              *)
(***************************************************************************)
EXTENDS ChatSession

CONSTANT NoConn

ASSUME NoConnAssumption == NoConn \notin Handlers
ASSUME NothingHoldsBack == Exclusive = FALSE
ASSUME NothingFails == Faults = FALSE /\ Restarts = FALSE

VARIABLES
  conn,    \* conn[k]: the handler of the connection session k is used on
  inbox    \* inbox[h]: sessions of the messages waiting in its connection

clientVars == <<conn, inbox>>
allVars == <<vars, clientVars>>

ClientsInit ==
  /\ Init
  /\ conn = [k \in Keys |-> NoConn]
  /\ inbox = [h \in Handlers |-> <<>>]

\* The messages sent and not yet read, as places in the inboxes.
Waiting == UNION {{h} \X (1..Len(inbox[h])) : h \in Handlers}

\* A turn of session k is running, or a message of it is still unread.
InUse(k) == ~NobodyOn(k) \/ \E h \in Handlers : \E i \in 1..Len(inbox[h]) : inbox[h][i] = k

MayOpenAtOnce(k) == TRUE

\* When a client opens a connection for session k.
MayOpen(k) == ~InUse(k)

\* The client of session k connects, or uses a connection it has for it.
Open(k, h) ==
  /\ conn[k] = NoConn /\ pc[h] = "idle" /\ MayOpen(k)
  /\ conn' = [conn EXCEPT ![k] = h]
  /\ UNCHANGED <<vars, inbox>>

\* It sends a message, without waiting for the answers of earlier ones.
Send(k) ==
  /\ conn[k] # NoConn /\ sent + Cardinality(Waiting) < MaxSent
  /\ inbox' = [inbox EXCEPT ![conn[k]] = Append(@, k)]
  /\ UNCHANGED <<vars, conn>>

\* handleWS is back in ReadMessage, also after a turn that failed; how long a
\* write to the client kept it from there is not bounded.
ReadNext(h) ==
  /\ inbox[h] # <<>>
  /\ Receive(h, Head(inbox[h]))
  /\ inbox' = [inbox EXCEPT ![h] = Tail(@)]
  /\ UNCHANGED conn

Detached(h) == [k \in Keys |-> IF conn[k] = h THEN NoConn ELSE conn[k]]

\* The connection breaks: unread messages are lost, a running turn goes on.
Break(h) ==
  /\ h \in {conn[k] : k \in Keys}
  /\ conn' = Detached(h)
  /\ inbox' = [inbox EXCEPT ![h] = <<>>]
  /\ UNCHANGED vars

\* A step of a turn; a panic closes the connection.
TurnStep(h) ==
  /\ HandlerStep(h)
  /\ IF pc'[h] = "closed" THEN conn' = Detached(h) /\ inbox' = [inbox EXCEPT ![h] = <<>>]
     ELSE UNCHANGED clientVars

ClientsNext ==
  \/ \E k \in Keys : Send(k) \/ \E h \in Handlers : Open(k, h)
  \/ \E h \in Handlers :
       \/ ReadNext(h) \/ Break(h) \/ TurnStep(h)
       \/ Reconnect(h) /\ UNCHANGED clientVars

ClientsSpec == ClientsInit /\ [][ClientsNext]_allVars
-------------------------------------------------------------------------------
Waited == INSTANCE ChatSession WITH Exclusive <- TRUE

\* Clients that keep to one connection per session, and open the next only when
\* the session is not in use, give the one turn at a time that the order of the
\* conversation rests on: the handlers' loop over ReadMessage
\* (server.go:191-256) makes pipelined messages wait.
OneTurnAtATime == Waited!Spec
===============================================================================
