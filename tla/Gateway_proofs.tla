---------------------------- MODULE Gateway_proofs ----------------------------
(***************************************************************************)
(* Proofs, for any connections, addresses, budget, window, delay and       *)
(* length of turns, of the safety of the rate limiter and of the server.   *)
(*                                                                         *)
(* The limiter keeps its budget.  An admission that is younger than the    *)
(* window less the delay cannot have been pruned, because every pruning    *)
(* uses a clock reading that is not in the future and every stamp is at    *)
(* most the delay older than its admission: so the list, which never       *)
(* exceeds the budget, holds all of them.                                  *)
(*                                                                         *)
(* The server's two goroutines per connection never write at once, and it  *)
(* uses the limiter only as the limiter's own specification allows, so     *)
(* that the limiter's theorems hold in it.                                 *)
(***************************************************************************)
EXTENDS Gateway, FiniteSetTheorems, TLAPS

\* A stamp is at most MaxDelay older than its admission, a pending reading at
\* most MaxDelay older than the clock.
Punctual ==
  /\ \A c \in Conns : pc[c] = "allow" => clock <= now[c] + MaxDelay
  /\ \A e \in admitted : e.stamp <= e.at /\ e.at <= e.stamp + MaxDelay /\ e.at <= clock

\* Admissions are numbered; the lists hold those of their IP, at most the
\* budget, and all the young ones.
Lists ==
  /\ IsFiniteSet(admitted)
  /\ \A e \in admitted : e.n < Cardinality(admitted)
  /\ \A ip \in IPs : Cardinality(perIP[ip]) <= MaxPerMin
  /\ \A ip \in IPs : \A e \in perIP[ip] : e.ip = ip
  /\ \A e \in admitted : e.at > clock - (Window - MaxDelay) => e \in perIP[e.ip]

LimiterInv == TypeOK /\ Punctual /\ Lists /\ WindowBound

USE clientIPAssumption, MaxPerMinAssumption, TimeAssumption

\* The initial state.
LEMMA InitLimiter == Init => LimiterInv
<1> SUFFICES ASSUME Init PROVE LimiterInv
  OBVIOUS
<1>1. TypeOK /\ Punctual
  BY DEF Init, TypeOK, Punctual, Admissions
<1>2. IsFiniteSet({}) /\ Cardinality({}) = 0
  BY FS_EmptySet
<1>3. Lists
  BY <1>2 DEF Init, Lists
<1>4. WindowBound
  <2> SUFFICES ASSUME NEW ip \in IPs, NEW t \in 0..clock
               PROVE Cardinality(Between(ip, t - (Window - MaxDelay), t)) <= MaxPerMin
    BY DEF WindowBound
  <2>1. Between(ip, t - (Window - MaxDelay), t) = {}
    BY DEF Init, Between
  <2> QED BY <1>2, <2>1
<1> QED BY <1>1, <1>3, <1>4 DEF LimiterInv

\* A part of a list stays within the budget.
LEMMA PartOfList ==
  ASSUME LimiterInv, NEW ip \in IPs, NEW S, S \subseteq perIP[ip]
  PROVE  IsFiniteSet(S) /\ Cardinality(S) \in Nat /\ Cardinality(S) <= MaxPerMin
         /\ Cardinality(S) <= Cardinality(perIP[ip])
<1>1. perIP[ip] \subseteq admitted /\ IsFiniteSet(admitted)
  BY DEF LimiterInv, TypeOK, Lists
<1>2. IsFiniteSet(perIP[ip])
  BY <1>1, FS_Subset
<1>3. IsFiniteSet(S) /\ Cardinality(S) <= Cardinality(perIP[ip])
  BY <1>2, FS_Subset
<1>4. Cardinality(S) \in Nat /\ Cardinality(perIP[ip]) \in Nat
  BY <1>2, <1>3, FS_CardinalityType
<1>5. Cardinality(perIP[ip]) <= MaxPerMin
  BY DEF LimiterInv, Lists
<1> QED BY <1>3, <1>4, <1>5

\* Pruning spares the young admissions.
LEMMA PruningSparesYoung ==
  ASSUME LimiterInv, NEW c \in Conns, NEW e \in admitted,
         e.ip = clientIP[c], e.at > clock - (Window - MaxDelay)
  PROVE  e \in Kept(c)
<1>1. e \in Own(c)
  BY DEF LimiterInv, Lists, Own
<1>2. e.stamp \in Nat /\ e.at \in Nat /\ e.at <= e.stamp + MaxDelay
  BY DEF LimiterInv, TypeOK, Admissions, Punctual
<1>3. now[c] \in Nat /\ clock \in Nat /\ now[c] <= clock
  BY DEF LimiterInv, TypeOK
<1>4. e.stamp > now[c] - Window
  BY <1>2, <1>3
<1> QED BY <1>1, <1>4 DEF Kept

\* The windows that end before the present are settled.
LEMMA OldWindows ==
  ASSUME LimiterInv, NEW ip \in IPs, NEW t \in 0..clock
  PROVE  Cardinality(Between(ip, t - (Window - MaxDelay), t)) <= MaxPerMin
BY DEF LimiterInv, WindowBound

\* Every step keeps the invariant.
LEMMA NextLimiter == LimiterInv /\ [Next]_limiterVars => LimiterInv'
<1> SUFFICES ASSUME LimiterInv, [Next]_limiterVars PROVE LimiterInv'
  OBVIOUS
<1>0. clock \in Nat /\ (Window - MaxDelay) \in Int
  BY DEF LimiterInv, TypeOK
<1>1. CASE Tick
  <2>1. TypeOK' /\ Punctual'
    BY <1>1 DEF Tick, LimiterInv, TypeOK, Punctual, Admissions
  <2>2. Lists'
    BY <1>1 DEF Tick, LimiterInv, TypeOK, Lists, Admissions
  <2>3. ASSUME NEW ip \in IPs, NEW t \in 0..(clock + 1)
        PROVE Cardinality(Between(ip, t - (Window - MaxDelay), t)) <= MaxPerMin
    <3>1. CASE t \in 0..clock
      BY <3>1, OldWindows
    <3>2. CASE t = clock + 1
      <4>1. ASSUME NEW e \in Between(ip, t - (Window - MaxDelay), t)
            PROVE e \in perIP[ip]
        <5>1. e \in admitted /\ e.ip = ip /\ e.at > t - (Window - MaxDelay)
          BY <4>1 DEF Between
        <5>2. e.at \in Nat
          BY <5>1 DEF LimiterInv, TypeOK, Admissions
        <5>3. e.at > clock - (Window - MaxDelay)
          BY <1>0, <3>2, <5>1, <5>2
        <5> QED BY <5>1, <5>3 DEF LimiterInv, Lists
      <4>2. Between(ip, t - (Window - MaxDelay), t) \subseteq perIP[ip]
        BY <4>1
      <4> HIDE DEF Between
      <4> QED BY <4>2, PartOfList
    <3> QED BY <1>0, <3>1, <3>2
  <2>4. WindowBound'
    <3>1. clock' = clock + 1 /\ admitted' = admitted
      BY <1>1 DEF Tick
    <3> QED BY <2>3, <3>1 DEF WindowBound, Between
  <2> QED BY <2>1, <2>2, <2>4 DEF LimiterInv
<1>2. ASSUME NEW c \in Conns, ReadClock(c) PROVE LimiterInv'
  <2>1. TypeOK' /\ Punctual'
    BY <1>2, <1>0 DEF ReadClock, LimiterInv, TypeOK, Punctual, Admissions
  <2>2. Lists' /\ WindowBound'
    BY <1>2 DEF ReadClock, LimiterInv, Lists, WindowBound, Between
  <2> QED BY <2>1, <2>2 DEF LimiterInv
<1>3. ASSUME NEW c \in Conns, Refuse(c) PROVE LimiterInv'
  <2>0. Kept(c) \subseteq perIP[clientIP[c]] /\ clientIP[c] \in IPs
    BY DEF Kept, Own
  <2>1. TypeOK' /\ Punctual'
    <3> HIDE DEF Kept
    <3> QED BY <1>3, <2>0 DEF Refuse, LimiterInv, TypeOK, Punctual, Admissions
  <2>2. Cardinality(Kept(c)) <= MaxPerMin
    BY <2>0, PartOfList
  <2>3. ASSUME NEW e \in admitted, e.at > clock - (Window - MaxDelay)
        PROVE e \in perIP'[e.ip]
    <3>1. CASE e.ip = clientIP[c]
      <4>1. e \in Kept(c)
        BY <2>3, <3>1, PruningSparesYoung
      <4>2. perIP'[e.ip] = Kept(c)
        BY <1>3, <2>0, <3>1 DEF Refuse, LimiterInv, TypeOK
      <4> QED BY <4>1, <4>2
    <3>2. CASE e.ip # clientIP[c]
      BY <1>3, <2>3, <3>2 DEF Refuse, LimiterInv, TypeOK, Lists, Admissions
    <3> QED BY <3>1, <3>2
  <2>4. Lists'
    <3> HIDE DEF Kept
    <3> QED BY <1>3, <2>0, <2>2, <2>3 DEF Refuse, LimiterInv, TypeOK, Lists
  <2>5. WindowBound'
    BY <1>3 DEF Refuse, LimiterInv, WindowBound, Between
  <2> QED BY <2>1, <2>4, <2>5 DEF LimiterInv
<1>4. ASSUME NEW c \in Conns, Admit(c) PROVE LimiterInv'
  <2> DEFINE a == Admission(c)
             own == Kept(c) \cup {a}
  <2>0. Kept(c) \subseteq perIP[clientIP[c]] /\ clientIP[c] \in IPs
    BY DEF Kept, Own
  <2>1. a \in Admissions /\ a.ip = clientIP[c] /\ a.at = clock /\ a.stamp = now[c]
    <3>1. Cardinality(admitted) \in Nat
      BY FS_CardinalityType DEF LimiterInv, Lists
    <3>2. now[c] \in Nat
      BY <1>0 DEF LimiterInv, TypeOK
    <3> QED BY <1>0, <2>0, <3>1, <3>2 DEF Admission, Admissions
  <2>2. admitted' = admitted \cup {a} /\ clock' = clock
        /\ perIP' = [perIP EXCEPT ![clientIP[c]] = own]
        /\ pc' = [pc EXCEPT ![c] = "idle"] /\ now' = [now EXCEPT ![c] = 0]
    BY <1>4 DEF Admit
  <2>3. now[c] <= clock /\ clock <= now[c] + MaxDelay
    BY <1>4 DEF Admit, LimiterInv, TypeOK, Punctual
  <2>4. IsFiniteSet(own) /\ Cardinality(own) <= MaxPerMin
    <3>1. IsFiniteSet(Kept(c)) /\ Cardinality(Kept(c)) \in Nat
      BY <2>0, PartOfList
    <3>2. Cardinality(Kept(c)) < MaxPerMin
      BY <1>4, <3>1 DEF Admit, Full
    <3>3. IsFiniteSet(own) /\ (Cardinality(own) = Cardinality(Kept(c))
                               \/ Cardinality(own) = Cardinality(Kept(c)) + 1)
      BY <3>1, FS_AddElement
    <3> QED BY <3>1, <3>2, <3>3
  <2> HIDE DEF a
  <2>5. TypeOK'
    <3> HIDE DEF Kept
    <3>1. own \subseteq admitted'
      BY <2>0, <2>2 DEF LimiterInv, TypeOK
    <3> HIDE DEF own
    <3>2. perIP' \in [IPs -> SUBSET admitted']
      BY <2>2, <3>1 DEF LimiterInv, TypeOK
    <3>3. admitted' \subseteq Admissions
      BY <2>1, <2>2 DEF LimiterInv, TypeOK
    <3> QED BY <1>0, <2>2, <3>2, <3>3 DEF LimiterInv, TypeOK
  <2>6. Punctual'
    BY <2>1, <2>2, <2>3, <1>0 DEF LimiterInv, TypeOK, Punctual, Admissions
  <2>7. ASSUME NEW e \in admitted', e.at > clock - (Window - MaxDelay)
        PROVE e \in perIP'[e.ip]
    <3>1. CASE e = a
      BY <2>0, <2>1, <2>2, <3>1 DEF LimiterInv, TypeOK
    <3>2. CASE e \in admitted /\ e.ip = clientIP[c]
      <4>1. e \in Kept(c)
        BY <2>7, <3>2, PruningSparesYoung
      <4>2. perIP'[e.ip] = own
        BY <2>0, <2>2, <3>2 DEF LimiterInv, TypeOK
      <4> QED BY <4>1, <4>2
    <3>3. CASE e \in admitted /\ e.ip # clientIP[c]
      <4>1. e.ip \in IPs /\ e \in perIP[e.ip]
        BY <2>7, <3>3 DEF LimiterInv, TypeOK, Admissions, Lists
      <4> HIDE DEF own
      <4> QED BY <2>2, <3>3, <4>1 DEF LimiterInv, TypeOK
    <3> QED BY <2>2, <3>1, <3>2, <3>3
  <2>8. Lists'
    <3>0. IsFiniteSet(admitted) /\ Cardinality(admitted) \in Nat
      BY FS_CardinalityType DEF LimiterInv, Lists
    <3>a. a.n = Cardinality(admitted) /\ a \notin admitted
      BY <3>0 DEF a, Admission, LimiterInv, Lists
    <3>1. IsFiniteSet(admitted') /\ Cardinality(admitted') = Cardinality(admitted) + 1
      BY <2>2, <3>0, <3>a, FS_AddElement
    <3>b. \A e \in admitted' : e.n < Cardinality(admitted')
      <4>1. \A e \in admitted : e.n \in Nat /\ e.n < Cardinality(admitted)
        BY DEF LimiterInv, TypeOK, Admissions, Lists
      <4> QED BY <2>2, <3>0, <3>a, <3>1, <4>1
    <3>2. \A e \in own : e.ip = clientIP[c]
      BY <2>0, <2>1 DEF LimiterInv, Lists
    <3> HIDE DEF own
    <3>3. \A ip \in IPs : perIP'[ip] = IF ip = clientIP[c] THEN own ELSE perIP[ip]
      BY <2>2 DEF LimiterInv, TypeOK
    <3>4. \A ip \in IPs : Cardinality(perIP'[ip]) <= MaxPerMin
      BY <2>4, <3>3 DEF LimiterInv, Lists
    <3>5. \A ip \in IPs : \A e \in perIP'[ip] : e.ip = ip
      BY <3>2, <3>3 DEF LimiterInv, Lists
    <3>6. \A e \in admitted' : e.at > clock' - (Window - MaxDelay) => e \in perIP'[e.ip]
      BY <2>2, <2>7
    <3> QED BY <3>1, <3>b, <3>4, <3>5, <3>6 DEF Lists
  <2>9. WindowBound'
    <3> SUFFICES ASSUME NEW ip \in IPs, NEW t \in 0..clock
                 PROVE Cardinality(Between(ip, t - (Window - MaxDelay), t)') <= MaxPerMin
      BY <2>2 DEF WindowBound, Between
    <3>1. CASE t < clock \/ ip # clientIP[c]
      <4>1. Between(ip, t - (Window - MaxDelay), t)' = Between(ip, t - (Window - MaxDelay), t)
        BY <1>0, <2>1, <2>2, <3>1 DEF Between
      <4> QED BY <4>1, OldWindows
    <3>2. CASE t = clock /\ ip = clientIP[c]
      <4>1. Between(ip, t - (Window - MaxDelay), t)' \subseteq own
        <5> SUFFICES ASSUME NEW e \in Between(ip, t - (Window - MaxDelay), t)'
                     PROVE e \in own
          OBVIOUS
        <5>1. e \in admitted' /\ e.ip = clientIP[c] /\ e.at > clock - (Window - MaxDelay)
          BY <3>2 DEF Between
        <5>2. CASE e = a
          BY <5>2
        <5>3. CASE e \in admitted
          BY <5>1, <5>3, PruningSparesYoung
        <5> QED BY <2>2, <5>1, <5>2, <5>3
      <4>2. IsFiniteSet(Between(ip, t - (Window - MaxDelay), t)')
            /\ Cardinality(Between(ip, t - (Window - MaxDelay), t)') <= Cardinality(own)
        <5> HIDE DEF own
        <5> QED BY <2>4, <4>1, FS_Subset
      <4>3. Cardinality(Between(ip, t - (Window - MaxDelay), t)') \in Nat
            /\ Cardinality(own) \in Nat
        <5> HIDE DEF own
        <5> QED BY <2>4, <4>2, FS_CardinalityType
      <4> HIDE DEF own
      <4> QED BY <2>4, <4>2, <4>3
    <3> QED BY <1>0, <3>1, <3>2
  <2> QED BY <2>5, <2>6, <2>8, <2>9 DEF LimiterInv
<1>5. CASE UNCHANGED limiterVars
  BY <1>5 DEF limiterVars, LimiterInv, TypeOK, Punctual, Lists, WindowBound, Between
<1> QED BY <1>1, <1>2, <1>3, <1>4, <1>5 DEF Next

\* The invariant of the limiter, its type invariant included.
THEOREM LimiterInvariant == Spec => []LimiterInv
BY InitLimiter, NextLimiter, PTL DEF Spec

\* No window, shortened by the delay of one goroutine, admits more messages of
\* an IP than the budget (messageRateLimiter.allow).
THEOREM WindowBoundAlways == Spec => []WindowBound
<1>1. LimiterInv => WindowBound
  BY DEF LimiterInv
<1> QED BY <1>1, LimiterInvariant, PTL

\* A refused message found the budget used up in the last, lengthened window.
LEMMA RefuseJustified ==
  ASSUME LimiterInv, NEW c \in Conns, Refuse(c)
  PROVE  Cardinality(Between(clientIP[c], clock - Window - MaxDelay, clock)) >= MaxPerMin
<1> DEFINE B == Between(clientIP[c], clock - Window - MaxDelay, clock)
<1>1. Kept(c) \subseteq B
  <2> SUFFICES ASSUME NEW e \in Kept(c) PROVE e \in B
    OBVIOUS
  <2>1. e \in perIP[clientIP[c]] /\ e.stamp > now[c] - Window
    BY DEF Kept, Own
  <2>2. e \in admitted /\ e.ip = clientIP[c]
    BY <2>1 DEF LimiterInv, TypeOK, Lists
  <2>3. e.at \in Nat /\ e.stamp \in Nat /\ e.stamp <= e.at /\ e.at <= clock
    BY <2>2 DEF LimiterInv, TypeOK, Admissions, Punctual
  <2>4. clock \in Nat /\ now[c] \in Nat /\ clock <= now[c] + MaxDelay
    BY DEF Refuse, LimiterInv, TypeOK, Punctual
  <2>5. e.at > clock - Window - MaxDelay
    BY <2>1, <2>3, <2>4
  <2> QED BY <2>2, <2>3, <2>5 DEF Between
<1>2. IsFiniteSet(B)
  <2>1. B \subseteq admitted /\ IsFiniteSet(admitted)
    BY DEF Between, LimiterInv, Lists
  <2> QED BY <2>1, FS_Subset
<1>3. Cardinality(Kept(c)) >= MaxPerMin
  BY DEF Refuse, Full
<1> HIDE DEF B
<1>4. Cardinality(Kept(c)) <= Cardinality(B) /\ IsFiniteSet(Kept(c))
  BY <1>1, <1>2, FS_Subset
<1>5. Cardinality(Kept(c)) \in Nat /\ Cardinality(B) \in Nat
  BY <1>2, <1>4, FS_CardinalityType
<1>6. Cardinality(B) >= MaxPerMin
  BY <1>3, <1>4, <1>5
<1> QED BY <1>6 DEF B

\* The limiter refuses nobody who is within the budget.
THEOREM RefusalsJustifiedAlways == Spec => RefusalsJustified
<1> DEFINE A == \A c \in Conns :
       pc[c] = "allow" /\ pc'[c] = "idle" /\ admitted' = admitted
         => Cardinality(Between(clientIP[c], clock - Window - MaxDelay, clock)) >= MaxPerMin
<1>1. LimiterInv /\ [Next]_limiterVars => [A]_limiterVars
  <2> SUFFICES ASSUME LimiterInv, Next, NEW c \in Conns,
                      pc[c] = "allow", pc'[c] = "idle", admitted' = admitted
               PROVE Cardinality(Between(clientIP[c], clock - Window - MaxDelay, clock)) >= MaxPerMin
    OBVIOUS
  <2>1. pc \in [Conns -> {"idle", "allow"}]
    BY DEF LimiterInv, TypeOK
  <2>2. CASE Tick
    BY <2>2 DEF Tick
  <2>3. ASSUME NEW d \in Conns, ReadClock(d) PROVE FALSE
    BY <2>1, <2>3 DEF ReadClock
  <2>4. ASSUME NEW d \in Conns, Refuse(d)
        PROVE Cardinality(Between(clientIP[c], clock - Window - MaxDelay, clock)) >= MaxPerMin
    <3>1. d = c
      BY <2>1, <2>4 DEF Refuse
    <3> QED BY <2>4, <3>1, RefuseJustified
  <2>5. ASSUME NEW d \in Conns, Admit(d) PROVE FALSE
    <3>1. Admission(d) \in admitted
      BY <2>5 DEF Admit
    <3>2. Cardinality(admitted) \in Nat /\ Admission(d).n < Cardinality(admitted)
      BY <3>1, FS_CardinalityType DEF LimiterInv, Lists
    <3> QED BY <3>2 DEF Admission
  <2> QED BY <2>2, <2>3, <2>4, <2>5 DEF Next
<1> HIDE DEF A
<1>2. Spec => [][A]_limiterVars
  BY <1>1, LimiterInvariant, PTL DEF Spec
<1> QED BY <1>2 DEF RefusalsJustified, A
-------------------------------------------------------------------------------
\* The two users of a connection's writer and where they are.
WritersTyped ==
  /\ writing \in [Conns -> {"no", "wait", "in"}]
  /\ ping \in [Conns -> {"off", "tick", "wait", "in", "done"}]

WriterInv == WritersTyped /\ OneWriter

LEMMA InitWriter == ServerInit => WriterInv
BY DEF ServerInit, WriterInv, WritersTyped, OneWriter

\* Each goroutine enters only when the mutex is free.
LEMMA NextWriter == WriterInv /\ [ServerNext]_serverVars => WriterInv'
<1> SUFFICES ASSUME WriterInv, [ServerNext]_serverVars PROVE WriterInv'
  OBVIOUS
<1> USE DEF WriterInv, WritersTyped, OneWriter
<1>1. CASE UNCHANGED <<writing, ping>> BY <1>1
<1>2. CASE UNCHANGED serverVars BY <1>1, <1>2 DEF serverVars, connVars
<1>3. CASE Tick /\ UNCHANGED connVars BY <1>1, <1>3 DEF connVars
<1>4. ASSUME NEW c \in Conns,
             Rejected(c) \/ Receive(c) \/ Allowed(c) \/ Valid(c) \/ ChatEnds(c) \/ ReadFails(c)
             \/ Lose(c) \/ Stall(c) \/ Resume(c)
      PROVE WriterInv'
  BY <1>1, <1>4 DEF Rejected, Receive, Allowed, Valid, ChatEnds, ReadFails, Lose, Stall, Resume
<1>5. ASSUME NEW c \in Conns, Upgraded(c) \/ PingTick(c) \/ PingWrite(c) PROVE WriterInv'
  BY <1>5 DEF Upgraded, PingTick, PingWrite, PingSent, PingFails, PingStopped
<1>6. ASSUME NEW c \in Conns,
             TooMany(c) \/ Invalid(c) \/ SendFrame(c) \/ ChatFails(c) \/ writeJSONUnlock(c)
      PROVE WriterInv'
  BY <1>6 DEF TooMany, Invalid, SendFrame, ChatFails, writeJSONUnlock
<1>7. ASSUME NEW c \in Conns, writeJSONLock(c) PROVE WriterInv'
  BY <1>7 DEF writeJSONLock, Unlocked
<1>8. ASSUME NEW c \in Conns, writeControlLock(c) PROVE WriterInv'
  BY <1>8 DEF writeControlLock, Unlocked
<1> QED BY <1>2, <1>3, <1>4, <1>5, <1>6, <1>7, <1>8 DEF ServerNext, HandlerStep

\* Frames of the handler and pings never overlap on a connection
\* (wsConnWriter.writeJSON and writeControl, writer.go:16-26).
THEOREM OneWriterAlways == ServerSpec => []OneWriter
<1>1. WriterInv => OneWriter BY DEF WriterInv
<1> QED BY InitWriter, NextWriter, <1>1, PTL DEF ServerSpec
-------------------------------------------------------------------------------
\* A step of the server is a step of the limiter or leaves it alone.
LEMMA ServerStepsLimiter == [ServerNext]_serverVars => [Next]_limiterVars
<1> SUFFICES ASSUME [ServerNext]_serverVars PROVE Next \/ UNCHANGED limiterVars
  OBVIOUS
<1>1. CASE UNCHANGED serverVars BY <1>1 DEF serverVars
<1>2. CASE Tick /\ UNCHANGED connVars BY <1>2 DEF Next
<1>3. ASSUME NEW c \in Conns, Receive(c) \/ TooMany(c) \/ Allowed(c) PROVE Next
  <2>1. ReadClock(c) \/ Refuse(c) \/ Admit(c) BY <1>3 DEF Receive, TooMany, Allowed
  <2> QED BY <2>1 DEF Next
<1>4. ASSUME NEW c \in Conns,
             \/ Rejected(c) \/ Upgraded(c) \/ Invalid(c) \/ Valid(c)
             \/ SendFrame(c) \/ ChatEnds(c) \/ ChatFails(c) \/ writeJSONUnlock(c) \/ ReadFails(c)
      PROVE UNCHANGED limiterVars
  BY <1>4 DEF Rejected, Upgraded, Invalid, Valid, SendFrame, ChatEnds, ChatFails,
              writeJSONUnlock, ReadFails
<1>5. ASSUME NEW c \in Conns,
             \/ writeJSONLock(c) \/ Lose(c) \/ Stall(c) \/ Resume(c)
             \/ PingTick(c) \/ writeControlLock(c) \/ PingWrite(c)
      PROVE UNCHANGED limiterVars
  BY <1>5 DEF writeJSONLock, Lose, Stall, Resume, PingTick, writeControlLock, PingWrite,
              PingSent, PingFails, PingStopped
<1> QED BY <1>1, <1>2, <1>3, <1>4, <1>5 DEF ServerNext, HandlerStep

\* The server implements the limiter on its own: whatever else its goroutines
\* do, the limiter's state changes only by allow (server.go:198-206).
THEOREM ServerUsesLimiter == ServerSpec => Spec
<1>1. ServerInit => Init BY DEF ServerInit
<1> QED BY <1>1, ServerStepsLimiter, PTL DEF ServerSpec, Spec

\* With all its connections at work the server keeps the budget of an IP.
THEOREM ServerKeepsBudget == ServerSpec => []WindowBound
BY ServerUsesLimiter, WindowBoundAlways, PTL

\* And it turns down no message within the budget.
THEOREM ServerRefusesJustly == ServerSpec => RefusalsJustified
BY ServerUsesLimiter, RefusalsJustifiedAlways
===============================================================================
