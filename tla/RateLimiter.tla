----------------------------- MODULE RateLimiter -----------------------------
(***************************************************************************)
(* ws.messageRateLimiter: at most MaxPerMin messages of a client IP in a   *)
(* sliding window.  allow reads the clock before it takes the lock, so     *)
(* connections of one IP may be served in another order than their clock   *)
(* readings.  The list of one IP is a set of numbered admissions: the code *)
(* only filters it, counts it and adds to it.                              *)
(* With maxPerMin <= 0 there is no limiter and none of this state.         *)
(***************************************************************************)
EXTENDS Integers, FiniteSets

CONSTANTS
  Conns,      \* connections, each served by one goroutine
  IPs,
  clientIP,   \* the address a connection is counted under
  MaxPerMin,
  Window,     \* a minute, in ticks
  MaxDelay,   \* bound: ticks a goroutine may lose between clock and lock
  MaxTime,    \* bound on the clock
  MaxMsgs     \* bound on the admitted messages

ASSUME clientIPAssumption == clientIP \in [Conns -> IPs]
ASSUME MaxPerMinAssumption == MaxPerMin \in Nat \ {0}
ASSUME TimeAssumption ==
  Window \in Nat /\ MaxDelay \in Nat /\ MaxTime \in Nat /\ MaxMsgs \in Nat

VARIABLES
  clock,
  pc,        \* per connection: "idle", or "allow" between clock and lock
  now,       \* per connection: the clock it has read, 0 when idle
  perIP,     \* per IP: the admissions in the limiter's list
  admitted   \* all admissions so far (history)

limiterVars == <<clock, pc, now, perIP, admitted>>

Admissions == [n : Nat, ip : IPs, stamp : Nat, at : Nat]

Init ==
  /\ clock = 0
  /\ pc = [c \in Conns |-> "idle"]
  /\ now = [c \in Conns |-> 0]
  /\ perIP = [ip \in IPs |-> {}]
  /\ admitted = {}

\* A message has arrived on c: time.Now(), then wait for the lock.
ReadClock(c) ==
  /\ pc[c] = "idle"
  /\ pc' = [pc EXCEPT ![c] = "allow"]
  /\ now' = [now EXCEPT ![c] = clock]
  /\ UNCHANGED <<clock, perIP, admitted>>

Own(c) == perIP[clientIP[c]]

KeptUnpruned(c) == Own(c)

\* The admissions after the cutoff.
Kept(c) == {e \in Own(c) : e.stamp > now[c] - Window}

FullLate(c) == Cardinality(Kept(c)) > MaxPerMin

Full(c) == Cardinality(Kept(c)) >= MaxPerMin

\* Under the lock: over the budget, only the pruning is stored.
Refuse(c) ==
  /\ pc[c] = "allow" /\ Full(c)
  /\ perIP' = [perIP EXCEPT ![clientIP[c]] = Kept(c)]
  /\ pc' = [pc EXCEPT ![c] = "idle"] /\ now' = [now EXCEPT ![c] = 0]
  /\ UNCHANGED <<clock, admitted>>

Admission(c) ==
  [n |-> Cardinality(admitted), ip |-> clientIP[c], stamp |-> now[c], at |-> clock]

\* Under the lock: within the budget.
Admit(c) ==
  /\ pc[c] = "allow" /\ ~Full(c)
  /\ Cardinality(admitted) < MaxMsgs
  /\ perIP' = [perIP EXCEPT ![clientIP[c]] = Kept(c) \cup {Admission(c)}]
  /\ admitted' = admitted \cup {Admission(c)}
  /\ pc' = [pc EXCEPT ![c] = "idle"] /\ now' = [now EXCEPT ![c] = 0]
  /\ UNCHANGED clock

Tick ==
  /\ clock < MaxTime
  /\ \A c \in Conns : pc[c] = "allow" => clock < now[c] + MaxDelay
  /\ clock' = clock + 1
  /\ UNCHANGED <<pc, now, perIP, admitted>>

Next ==
  \/ Tick
  \/ \E c \in Conns : ReadClock(c) \/ Refuse(c) \/ Admit(c)

Spec == Init /\ [][Next]_limiterVars
-------------------------------------------------------------------------------
TypeOK ==
  /\ clock \in Nat
  /\ pc \in [Conns -> {"idle", "allow"}]
  /\ now \in [Conns -> 0..clock]
  /\ perIP \in [IPs -> SUBSET admitted]
  /\ admitted \subseteq Admissions

\* The admissions of ip after time from, up to time to.
Between(ip, from, to) == {e \in admitted : e.ip = ip /\ from < e.at /\ e.at <= to}

\* No window that is as long as the limiter's, less the delay of one goroutine
\* between time.Now() and the lock, holds more than the budget, whatever the
\* order in which the connections of an IP are served (ratelimit.go:41-65).
WindowBound ==
  \A ip \in IPs, t \in 0..clock :
    Cardinality(Between(ip, t - (Window - MaxDelay), t)) <= MaxPerMin

\* A message is refused only if the budget was really used up in the last
\* window, lengthened by that delay (ratelimit.go:51-60).
RefusalsJustified ==
  [][\A c \in Conns :
       pc[c] = "allow" /\ pc'[c] = "idle" /\ admitted' = admitted
         => Cardinality(Between(clientIP[c], clock - Window - MaxDelay, clock)) >= MaxPerMin]_limiterVars
===============================================================================
