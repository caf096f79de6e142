--------------------------- MODULE ReactLoop_proofs ---------------------------
(***************************************************************************)
(* Proofs, for every limit, tool set and model behaviour, that the tool    *)
(* loop is type correct, that it makes a bounded number of calls, that it  *)
(* answers every tool call in order, that it implements TurnContract, and  *)
(* that the client is told of every reply.                                 *)
(***************************************************************************)
EXTENDS ReactLoop, FiniteSetTheorems, TLAPS

\* Both limits are positive after the defaulting.
LEMMA LimitsPositive == MaxTurns \in Nat \ {0} /\ MaxFailures \in Nat \ {0}
BY LimitsAreInts DEF MaxTurns, MaxFailures

\* The calls of a reply form a sequence of at most MaxBatch calls.
LEMMA BatchesAreSeqs == Batches \subseteq Seq(Call)
BY MaxBatchAssumption DEF Batches

LEMMA NewSegmentType == NewSegment \in Segment
BY DEF NewSegment, Segment

LEMMA CloseSegmentType ==
  ASSUME NEW seg \in Segment, NEW text PROVE CloseSegment(seg, text) \in Segment
BY DEF CloseSegment, Segment

LEMMA ShowSegmentType ==
  ASSUME NEW seg \in Segment, NEW visible \in BOOLEAN
  PROVE  [seg EXCEPT !.shown = @ \/ visible] \in Segment
BY DEF Segment

LEMMA EmptyBatch == <<>> \in Batches
<1>1. <<>> \in [1..0 -> Call] OBVIOUS
<1>2. 0 \in 0..MaxBatch BY MaxBatchAssumption
<1> QED BY <1>1, <1>2 DEF Batches
-------------------------------------------------------------------------------
(***************************************************************************)
(* The control invariant: the turn is over exactly when it has a result,   *)
(* turn counts the finished rounds, and failures is the length of the run  *)
(* of failed rounds the history ends with.                                 *)
(***************************************************************************)
StreakInv ==
  /\ failures <= Len(verdicts)
  /\ \A k \in (Len(verdicts) - failures + 1)..Len(verdicts) : verdicts[k] = "failed"
  /\ failures < Len(verdicts) => verdicts[Len(verdicts) - failures] = "ok"

ControlInv ==
  /\ result = "none" <=> pc # "done"
  /\ pc # "done" => turn < MaxTurns /\ turn = Len(verdicts) /\ failures < MaxFailures
  /\ pc = "tools" => next <= Len(batch) + 1 /\ batch # <<>>
  /\ Len(segs) > 0
  /\ StreakInv

LEMMA InitControl == Init => TypeOK /\ ControlInv
<1> SUFFICES ASSUME Init PROVE TypeOK /\ ControlInv OBVIOUS
<1>1. TypeOK
  <2>1. segs \in Seq(Segment) BY NewSegmentType DEF Init
  <2>2. batch \in Batches BY EmptyBatch DEF Init
  <2>3. batchFailed \in BOOLEAN BY DEF Init
  <2> QED BY <2>1, <2>2, <2>3, LimitsPositive DEF Init, TypeOK
<1>2. ControlInv
  BY LimitsPositive DEF Init, ControlInv, StreakInv
<1> QED BY <1>1, <1>2

LEMMA NextControl == TypeOK /\ ControlInv /\ [Next]_vars => TypeOK' /\ ControlInv'
<1> SUFFICES ASSUME TypeOK, ControlInv, [Next]_vars PROVE TypeOK' /\ ControlInv'
    OBVIOUS
<1> USE LimitsPositive, BatchesAreSeqs
<1>1. ASSUME NEW visible \in BOOLEAN, Delta(visible) PROVE TypeOK' /\ ControlInv'
  <2>1. segs' = [segs EXCEPT ![Len(segs)] = [segs[Len(segs)] EXCEPT !.shown = @ \/ visible]]
    BY <1>1 DEF Delta
  <2>2. segs' \in Seq(Segment) /\ Len(segs') = Len(segs)
    BY <2>1, ShowSegmentType DEF TypeOK, ControlInv
  <2> QED BY <1>1, <2>2 DEF Delta, TypeOK, ControlInv, StreakInv
<1>2. CASE ModelError
  BY <1>2 DEF ModelError, TypeOK, ControlInv, StreakInv
<1>3. ASSUME NEW text \in Texts, NEW calls \in Batches, Reply(text, calls)
      PROVE TypeOK' /\ ControlInv'
  <2>1. Assistant(text, calls) \in Message BY DEF Assistant, Message
  <2>2. CloseSegment(segs[Len(segs)], text) \in Segment
    BY CloseSegmentType DEF TypeOK, ControlInv
  <2>3. segs' \in Seq(Segment)
    BY <1>3, <2>2 DEF Reply, TypeOK, ControlInv
  <2>5. status' \in {"none", "executing", "generating"}
    BY <1>3 DEF Reply, TypeOK, Report
  <2>7. batchFailed' \in BOOLEAN
    BY <1>3 DEF Reply, TypeOK
  <2>6. TypeOK'
    BY <1>3, <2>1, <2>3, <2>5, <2>7 DEF Reply, TypeOK, ControlInv
  <2>4. ControlInv'
    BY <1>3, <2>2 DEF Reply, TypeOK, ControlInv, StreakInv, EndsTurn
  <2> QED BY <2>4, <2>6
<1>4. ASSUME NEW ok \in BOOLEAN, ExecTool(ok) PROVE TypeOK' /\ ControlInv'
  <2>1. batch[next] \in Call BY <1>4 DEF ExecTool, TypeOK
  <2>2. ToolResult(batch[next], ok) \in Message
    BY <2>1 DEF ToolResult, Message, Call
  <2> QED BY <1>4, <2>2 DEF ExecTool, TypeOK, ControlInv, StreakInv
<1>5. CASE EndBatch
  <2>4. segs' \in Seq(Segment)
    <3>1. segs' = segs \/ segs' = Append(segs, NewSegment)
      BY <1>5 DEF EndBatch
    <3>2. segs \in Seq(Segment) BY DEF TypeOK
    <3>3. Append(segs, NewSegment) \in Seq(Segment) BY <3>2, NewSegmentType
    <3> QED BY <3>1, <3>2, <3>3
  <2>5. status' \in {"none", "executing", "generating"}
    BY <1>5 DEF EndBatch, TypeOK, Report
  <2>6. verdicts' \in Seq({"ok", "failed"})
    BY <1>5 DEF EndBatch, TypeOK
  <2>1. TypeOK'
    BY <1>5, <2>4, <2>5, <2>6 DEF EndBatch, TypeOK, ControlInv, BreakerOpen, MoreTurns
  <2>2. StreakInv'
    <3> DEFINE n == Len(verdicts)
    <3>0. verdicts \in Seq({"ok", "failed"}) /\ failures \in Nat /\ StreakInv
      BY DEF TypeOK, ControlInv
    <3>1. CASE batchFailed
      <4>1. verdicts' = Append(verdicts, "failed") /\ failures' = failures + 1
        BY <1>5, <3>1 DEF EndBatch
      <4>2. Len(verdicts') = n + 1 /\ verdicts'[n + 1] = "failed"
            /\ \A k \in 1..n : verdicts'[k] = verdicts[k]
        BY <3>0, <4>1
      <4> QED BY <3>0, <4>1, <4>2 DEF StreakInv
    <3>2. CASE ~batchFailed
      <4>1. verdicts' = Append(verdicts, "ok") /\ failures' = 0
        BY <1>5, <3>2 DEF EndBatch
      <4> QED BY <3>0, <4>1 DEF StreakInv
    <3> QED BY <3>1, <3>2
  <2>3. ControlInv'
    BY <1>5, <2>2 DEF EndBatch, TypeOK, ControlInv, BreakerOpen, MoreTurns
  <2> QED BY <2>1, <2>3
<1>6. CASE UNCHANGED vars
  BY <1>6 DEF vars, TypeOK, ControlInv, StreakInv
<1> QED BY <1>1, <1>2, <1>3, <1>4, <1>5, <1>6 DEF Next

\* Type correctness of the loop, with the control invariant it rests on.
THEOREM TypeCorrect == Spec => [](TypeOK /\ ControlInv)
BY InitControl, NextControl, PTL DEF Spec
-------------------------------------------------------------------------------
(***************************************************************************)
(* A turn makes a bounded number of calls.                                 *)
(***************************************************************************)
LEMMA BatchLength ==
  ASSUME NEW calls \in Batches PROVE Len(calls) \in 0..MaxBatch
<1>1. PICK n \in 0..MaxBatch : calls \in [1..n -> Call] BY DEF Batches
<1>2. n \in Nat BY <1>1, MaxBatchAssumption
<1>3. Len(calls) = n BY <1>1, <1>2
<1> QED BY <1>1, <1>3

\* The steps of r + 1 rounds are those of r rounds and of one more.
LEMMA OneRoundMore ==
  ASSUME NEW r \in Nat
  PROVE  /\ r * (MaxBatch + 2) \in Nat
         /\ (r + 1) * (MaxBatch + 2) = r * (MaxBatch + 2) + MaxBatch + 2
BY MaxBatchAssumption

LEMMA StepShrinks ==
  TypeOK /\ ControlInv /\ [Next]_vars =>
    [/\ StepsLeft' \in Nat
     /\ StepsLeft' < StepsLeft \/ \E visible \in BOOLEAN : Delta(visible)]_vars
<1> SUFFICES ASSUME TypeOK, ControlInv, Next
             PROVE  /\ StepsLeft' \in Nat
                    /\ StepsLeft' < StepsLeft \/ \E visible \in BOOLEAN : Delta(visible)
    OBVIOUS
<1> DEFINE Steps(r) == r * (MaxBatch + 2)
           left == MaxTurns - turn - 1
<1> USE LimitsPositive, MaxBatchAssumption
<1>0. turn \in Nat /\ next \in Nat /\ batch \in Batches /\ Len(batch) \in Nat
      /\ pc \in {"model", "tools", "done"}
  BY BatchLength DEF TypeOK
<1>7. pc # "done" => left \in Nat /\ MaxTurns - turn = left + 1 BY <1>0 DEF ControlInv
<1>8. pc # "done" => Steps(left) \in Nat
                     /\ Steps(MaxTurns - turn) = Steps(left) + MaxBatch + 2
  BY <1>7, OneRoundMore
<1>9. pc = "model" => StepsLeft = Steps(MaxTurns - turn) BY DEF StepsLeft
<1>10. pc = "tools" => StepsLeft = Steps(left) + (Len(batch) - next) + 2
  BY DEF StepsLeft
<1>11. pc' = "done" => StepsLeft' = 0 BY DEF StepsLeft
<1>12. pc' = "tools" => StepsLeft' = Steps(left') + (Len(batch') - next') + 2
  BY DEF StepsLeft
<1>13. pc' = "model" => StepsLeft' = Steps(MaxTurns - turn') BY DEF StepsLeft
<1> HIDE DEF Steps
<1>1. ASSUME NEW visible \in BOOLEAN, Delta(visible)
      PROVE StepsLeft' \in Nat
  BY <1>1, <1>8, <1>13 DEF Delta
<1>2. CASE ModelError
  BY <1>2, <1>8, <1>9, <1>11 DEF ModelError
<1>3. ASSUME NEW text \in Texts, NEW calls \in Batches, Reply(text, calls)
      PROVE  StepsLeft' \in Nat /\ StepsLeft' < StepsLeft
  <2>1. CASE EndsTurn(text, calls) BY <1>3, <2>1, <1>8, <1>9, <1>11 DEF Reply
  <2>2. CASE ~EndsTurn(text, calls)
    <3>1. pc = "model" /\ pc' = "tools" /\ batch' = calls /\ next' = 1 /\ turn' = turn
      BY <1>3, <2>2 DEF Reply
    <3>2. Len(calls) \in 0..MaxBatch BY BatchLength
    <3>3. left' = left BY <3>1
    <3>4. StepsLeft' = Steps(left) + (Len(calls) - 1) + 2 BY <3>1, <3>3, <1>12
    <3>5. StepsLeft = Steps(left) + MaxBatch + 2 BY <3>1, <1>8, <1>9
    <3> HIDE DEF left
    <3> QED BY <3>1, <3>2, <3>4, <3>5, <1>8
  <2> QED BY <2>1, <2>2
<1>4. ASSUME NEW ok \in BOOLEAN, ExecTool(ok)
      PROVE  StepsLeft' \in Nat /\ StepsLeft' < StepsLeft
  <2>1. /\ pc = "tools" /\ pc' = "tools" /\ next <= Len(batch)
        /\ batch' = batch /\ next' = next + 1 /\ turn' = turn
    BY <1>4 DEF ExecTool
  <2>2. left' = left BY <2>1
  <2>3. StepsLeft' = Steps(left) + (Len(batch) - (next + 1)) + 2 BY <2>1, <2>2, <1>12
  <2> HIDE DEF left
  <2> QED BY <2>1, <2>3, <1>0, <1>8, <1>10
<1>5. CASE EndBatch
  <2>1. pc = "tools" /\ StepsLeft = Steps(left) + 1
    <3>1. pc = "tools" /\ next = Len(batch) + 1 BY <1>5, <1>0 DEF EndBatch, ControlInv
    <3> HIDE DEF left
    <3> QED BY <3>1, <1>0, <1>8, <1>10
  <2>2. pc' = "done" \/ (pc' = "model" /\ turn' = turn + 1) BY <1>5 DEF EndBatch
  <2>3. CASE pc' = "done" BY <2>1, <2>3, <1>8, <1>11
  <2>4. CASE pc' = "model" /\ turn' = turn + 1
    <3>1. MaxTurns - turn' = left BY <2>4, <1>0
    <3> HIDE DEF left
    <3> QED BY <2>1, <2>4, <3>1, <1>8, <1>13
  <2> QED BY <2>2, <2>3, <2>4
<1> QED BY <1>1, <1>2, <1>3, <1>4, <1>5 DEF Next

\* A turn makes a bounded number of model and tool calls whatever the model
\* asks for (the round limit of loop.Run and loop.RunStreamed).
THEOREM TurnShrinksAlways == Spec => TurnShrinks
BY TypeCorrect, StepShrinks, PTL DEF Spec, TurnShrinks
-------------------------------------------------------------------------------
(***************************************************************************)
(* Every tool call is answered, in order.  The strengthening says where    *)
(* the round being executed begins and that all earlier ones are complete. *)
(***************************************************************************)
RoundStart == Len(out) - next + 1

RoundsInv ==
  /\ RoundsAnswered
  /\ pc = "tools" =>
       /\ RoundStart \in 1..Len(out)
       /\ out[RoundStart].role = "assistant"
       /\ out[RoundStart].calls = batch
       /\ \A i \in 1..Len(out) :
            out[i].role = "assistant" /\ i # RoundStart
              => i + Len(out[i].calls) < RoundStart

\* The calls of every stored reply are a sequence.
LEMMA StoredCalls ==
  ASSUME TypeOK, NEW i \in 1..Len(out), out[i].role = "assistant"
  PROVE  out[i].calls \in Seq(Call) /\ Len(out[i].calls) \in Nat
<1>1. out[i] \in Message BY DEF TypeOK
<1>2. out[i].calls \in Batches BY <1>1 DEF Message
<1> QED BY <1>2, BatchesAreSeqs

\* A complete round stays complete when a message is appended, provided a
\* reply comes right after it.
LEMMA AppendKeepsRound ==
  ASSUME NEW o \in Seq(Message), NEW m \in Message, NEW i \in 1..Len(o),
         AnsweredAt(o, i), Len(o[i].calls) \in Nat,
         \/ i + Len(o[i].calls) < Len(o)
         \/ i + Len(o[i].calls) = Len(o) /\ m.role = "assistant"
  PROVE  AnsweredAt(Append(o, m), i)
<1> DEFINE p == Append(o, m)
<1>1. /\ Len(p) = Len(o) + 1 /\ p[Len(o) + 1] = m
      /\ \A j \in 1..Len(o) : p[j] = o[j]
  OBVIOUS
<1>2. PICK n \in Nat : n = Len(o[i].calls) OBVIOUS
<1>3. i + n <= Len(o) BY <1>2
<1>4. ASSUME NEW k \in 1..n
      PROVE  p[i + k].role = "tool" /\ p[i + k].id = o[i].calls[k].id
  <2>1. i + k \in 1..Len(o) BY <1>3
  <2> QED BY <1>1, <1>2, <2>1 DEF AnsweredAt
<1>5. p[i + n + 1].role = "assistant"
  <2>1. CASE i + n < Len(o)
    <3>1. i + n + 1 \in 1..Len(o) BY <2>1
    <3> QED BY <1>1, <1>2, <2>1, <3>1 DEF AnsweredAt
  <2>2. CASE i + n = Len(o)
    BY <1>1, <1>2, <2>2
  <2> QED BY <1>3, <2>1, <2>2
<1>6. p[i] = o[i] BY <1>1
<1> HIDE DEF p
<1>7. AnsweredAt(p, i) BY <1>2, <1>4, <1>5, <1>6 DEF AnsweredAt
<1> QED BY <1>7 DEF p

LEMMA NextRounds ==
  TypeOK /\ ControlInv /\ RoundsInv /\ [Next]_vars => RoundsInv'
<1> SUFFICES ASSUME TypeOK, ControlInv, RoundsInv, [Next]_vars PROVE RoundsInv'
    OBVIOUS
<1> DEFINE L == Len(out)
<1>0. out \in Seq(Message) /\ L \in Nat /\ next \in Nat /\ batch \in Seq(Call)
  BY BatchesAreSeqs DEF TypeOK
<1>1. ASSUME NEW visible \in BOOLEAN, Delta(visible) PROVE RoundsInv'
  BY <1>1 DEF Delta, RoundsInv, RoundsAnswered, AnsweredAt, RoundStart
<1>2. CASE ModelError
  BY <1>2 DEF ModelError, RoundsInv, RoundsAnswered, AnsweredAt, RoundStart
<1>3. ASSUME NEW text \in Texts, NEW calls \in Batches, Reply(text, calls)
      PROVE RoundsInv'
  <2> DEFINE am == Assistant(text, calls)
  <2>0. /\ am \in Message /\ am.role = "assistant" /\ am.calls = calls
        /\ calls \in Seq(Call)
    BY BatchesAreSeqs DEF Assistant, Message
  <2>a. out' = Append(out, am) BY <1>3 DEF Reply
  <2> HIDE DEF am
  <2>1. /\ Len(out') = L + 1 /\ out'[L + 1] = am
        /\ \A i \in 1..L : out'[i] = out[i]
    BY <1>0, <2>0, <2>a
  <2>3. pc' = "tools" <=> calls # <<>>
    BY <1>3 DEF Reply, EndsTurn
  <2>4. \A i \in 1..L : out[i].role = "assistant" =>
          Len(out[i].calls) \in Nat /\ i + Len(out[i].calls) <= L
    BY <1>0, <1>3, StoredCalls DEF RoundsInv, RoundsAnswered, Reply
  <2>5. RoundsAnswered'
    <3>1. out' # <<>> => out'[1].role = "assistant"
      BY <1>0, <2>1, <2>0 DEF RoundsInv, RoundsAnswered
    <3>2. ASSUME NEW i \in 1..L, out[i].role = "assistant"
          PROVE  AnsweredAt(out', i)
      <4>1. AnsweredAt(out, i) BY <3>2 DEF RoundsInv, RoundsAnswered
      <4> QED BY <1>0, <2>0, <2>4, <2>a, <3>2, <4>1, AppendKeepsRound
    <3>3. AnsweredAt(out', L + 1)
      <4>1. PICK n \in Nat : n = Len(calls) BY <2>0
      <4>2. Len(out'[L + 1].calls) = n BY <2>0, <2>1, <4>1
      <4>3. ~(L + 1 + n < L + 1) /\ \A k \in 1..n : ~(L + 1 + k <= L + 1)
        BY <1>0, <4>1
      <4> QED BY <2>1, <4>2, <4>3 DEF AnsweredAt
    <3>4. L + 1 + Len(calls) > L + 1 => pc' = "tools"
      BY <1>0, <2>0, <2>3
    <3>5. ASSUME NEW i \in 1..Len(out'), out'[i].role = "assistant"
          PROVE  /\ AnsweredAt(out', i)
                 /\ i + Len(out'[i].calls) > Len(out') => pc' = "tools"
      <4>1. CASE i \in 1..L BY <1>0, <2>1, <2>4, <3>2, <3>5, <4>1
      <4>2. CASE i = L + 1 BY <2>0, <2>1, <3>3, <3>4, <4>2
      <4> QED BY <1>0, <2>1, <4>1, <4>2
    <3> QED BY <3>1, <3>5 DEF RoundsAnswered
  <2>6. pc' = "tools" => next' = 1 /\ batch' = calls
    BY <1>3 DEF Reply
  <2>7. pc' = "tools" => RoundStart' = L + 1
    BY <1>0, <2>1, <2>6 DEF RoundStart
  <2>8. ASSUME NEW i \in 1..Len(out'), out'[i].role = "assistant", i # L + 1
        PROVE  i + Len(out'[i].calls) < L + 1
    BY <1>0, <2>1, <2>4, <2>8
  <2> QED BY <1>0, <2>0, <2>1, <2>5, <2>6, <2>7, <2>8 DEF RoundsInv
<1>4. ASSUME NEW ok \in BOOLEAN, ExecTool(ok) PROVE RoundsInv'
  <2> DEFINE tm == ToolResult(batch[next], ok)
  <2>0. tm \in Message /\ tm.role = "tool" /\ tm.id = batch[next].id
    <3>1. batch[next] \in Call BY <1>0, <1>4 DEF ExecTool, TypeOK
    <3> QED BY <3>1 DEF ToolResult, Message, Call
  <2>a. out' = Append(out, tm) BY <1>4 DEF ExecTool
  <2> HIDE DEF tm
  <2>1. /\ Len(out') = L + 1 /\ out'[L + 1] = tm
        /\ \A i \in 1..L : out'[i] = out[i]
    BY <1>0, <2>0, <2>a
  <2>3. /\ pc = "tools" /\ pc' = "tools" /\ next' = next + 1 /\ batch' = batch
        /\ next <= Len(batch)
    BY <1>4 DEF ExecTool
  <2>4. PICK s \in 1..L :
          /\ RoundStart = s /\ RoundStart' = s /\ s + next = L + 1
          /\ out[s].role = "assistant" /\ out[s].calls = batch
    BY <1>0, <2>1, <2>3 DEF RoundsInv, RoundStart
  <2>5. \A i \in 1..L : out[i].role = "assistant" /\ i # s =>
          Len(out[i].calls) \in Nat /\ i + Len(out[i].calls) < s
    BY <2>3, <2>4, StoredCalls DEF RoundsInv
  <2>6. RoundsAnswered'
    <3>1. out' # <<>> => out'[1].role = "assistant"
      BY <1>0, <2>1, <2>4 DEF RoundsInv, RoundsAnswered
    <3>2. ASSUME NEW i \in 1..L, out[i].role = "assistant", i # s
          PROVE  AnsweredAt(out', i)
      <4>1. AnsweredAt(out, i) BY <3>2 DEF RoundsInv, RoundsAnswered
      <4>2. i + Len(out[i].calls) < L BY <1>0, <2>4, <2>5, <3>2
      <4> QED BY <1>0, <2>0, <2>5, <2>a, <3>2, <4>1, <4>2, AppendKeepsRound
    <3>3. AnsweredAt(out', s)
      <4>1. AnsweredAt(out, s) BY <2>4 DEF RoundsInv, RoundsAnswered
      <4>2. ASSUME NEW k \in 1..Len(batch), s + k <= L + 1
            PROVE  out'[s + k].role = "tool" /\ out'[s + k].id = batch[k].id
        <5>1. CASE s + k = L + 1
          <6>1. k = next BY <1>0, <2>4, <5>1
          <6> QED BY <2>0, <2>1, <5>1, <6>1
        <5>2. CASE s + k \in 1..L
          BY <1>0, <2>1, <2>4, <4>1, <5>2 DEF AnsweredAt
        <5> QED BY <1>0, <4>2, <5>1, <5>2
      <4>3. ~(s + Len(batch) < L + 1) BY <1>0, <2>3, <2>4
      <4>4. out'[s] = out[s] BY <2>1
      <4> QED BY <2>1, <2>4, <4>2, <4>3, <4>4 DEF AnsweredAt
    <3> QED BY <1>0, <2>0, <2>1, <2>3, <3>1, <3>2, <3>3 DEF RoundsAnswered
  <2>7. ASSUME NEW i \in 1..Len(out'), out'[i].role = "assistant", i # s
        PROVE  i + Len(out'[i].calls) < s
    <3>1. i \in 1..L BY <1>0, <2>0, <2>1, <2>7
    <3> QED BY <2>1, <2>5, <2>7, <3>1
  <2> QED BY <1>0, <2>1, <2>3, <2>4, <2>6, <2>7 DEF RoundsInv
<1>5. CASE EndBatch
  <2>1. pc = "tools" /\ pc' # "tools" /\ out' = out /\ next = Len(batch) + 1
    BY <1>0, <1>5 DEF EndBatch, ControlInv
  <2>2. \A i \in 1..L : out[i].role = "assistant" => i + Len(out[i].calls) <= L
    <3>1. PICK s \in 1..L : RoundStart = s /\ s + Len(batch) = L /\ out[s].calls = batch
      BY <1>0, <2>1 DEF RoundsInv, RoundStart
    <3>2. ASSUME NEW i \in 1..L, out[i].role = "assistant", i # s
          PROVE  i + Len(out[i].calls) < s
      BY <2>1, <3>1, <3>2 DEF RoundsInv
    <3> QED BY <1>0, <3>1, <3>2, StoredCalls
  <2> QED BY <1>0, <2>1, <2>2, StoredCalls DEF RoundsInv, RoundsAnswered
<1>6. CASE UNCHANGED vars
  BY <1>6 DEF vars, RoundsInv, RoundsAnswered, RoundStart
<1> QED BY <1>1, <1>2, <1>3, <1>4, <1>5, <1>6 DEF Next

\* In every turn each tool call is answered by one tool message, in the order
\* of the calls, before the next reply (loop.Run, loop.RunStreamed).
THEOREM RoundsAnsweredAlways == Spec => []RoundsAnswered
<1>1. Init => RoundsInv BY DEF Init, RoundsInv, RoundsAnswered
<1>2. RoundsInv => RoundsAnswered BY DEF RoundsInv
<1> QED BY <1>1, <1>2, TypeCorrect, NextRounds, PTL DEF Spec
-------------------------------------------------------------------------------
(***************************************************************************)
(* The loop implements TurnContract.  The counter decides the breaker just *)
(* as the history does, because StreakInv makes it the length of the run   *)
(* of failed rounds at the end of the history.                             *)
(***************************************************************************)
LEMMA CounterDecidesStreak ==
  ASSUME NEW v \in Seq({"ok", "failed"}), NEW f \in Nat, NEW n \in Nat \ {0},
         f <= Len(v),
         \A k \in (Len(v) - f + 1)..Len(v) : v[k] = "failed",
         f < Len(v) => v[Len(v) - f] = "ok"
  PROVE  Contract!FailedStreak(v, n) <=> f >= n
<1>1. ASSUME f >= n PROVE Contract!FailedStreak(v, n)
  BY <1>1 DEF Contract!FailedStreak
<1>2. ASSUME f < n, Contract!FailedStreak(v, n) PROVE FALSE
  <2>1. Len(v) >= n /\ Len(v) - f \in (Len(v) - n + 1)..Len(v)
    BY <1>2 DEF Contract!FailedStreak
  <2>2. v[Len(v) - f] = "failed"
    BY <1>2, <2>1 DEF Contract!FailedStreak
  <2> QED BY <1>2, <2>1, <2>2
<1> QED BY <1>1, <1>2

LEMMA ContractStep ==
  TypeOK /\ ControlInv /\ TypeOK' /\ ControlInv' /\ [Next]_vars
    => [Contract!ContractNext]_(Contract!contractVars)
<1> SUFFICES ASSUME TypeOK, ControlInv, TypeOK', ControlInv', [Next]_vars
             PROVE  [Contract!ContractNext]_(Contract!contractVars)
    OBVIOUS
<1> USE DEF Contract!contractVars
<1>1. ASSUME NEW visible \in BOOLEAN, Delta(visible)
      PROVE  UNCHANGED Contract!contractVars
  BY <1>1 DEF Delta
<1>2. CASE ModelError
  <2>1. Contract!End BY <1>2 DEF ModelError, ControlInv, Contract!End
  <2> QED BY <2>1 DEF Contract!ContractNext
<1>3. ASSUME NEW text \in Texts, NEW calls \in Batches, Reply(text, calls)
      PROVE  [Contract!ContractNext]_(Contract!contractVars)
  <2>1. CASE EndsTurn(text, calls)
    <3>1. Contract!End BY <1>3, <2>1 DEF Reply, ControlInv, Contract!End
    <3> QED BY <3>1 DEF Contract!ContractNext
  <2>2. CASE ~EndsTurn(text, calls)
    BY <1>3, <2>2 DEF Reply
  <2> QED BY <2>1, <2>2
<1>4. ASSUME NEW ok \in BOOLEAN, ExecTool(ok) PROVE UNCHANGED Contract!contractVars
  BY <1>4 DEF ExecTool
<1>5. CASE EndBatch
  <2>1. PICK verdict \in {"ok", "failed"} :
          /\ verdicts' = Append(verdicts, verdict)
          /\ verdict = "failed" <=> batchFailed
    BY <1>5 DEF EndBatch
  <2>2. Contract!FailedStreak(verdicts', MaxFailures) <=> failures' >= MaxFailures
    BY LimitsPositive, CounterDecidesStreak DEF TypeOK, ControlInv, StreakInv
  <2>3. failures' >= MaxFailures => batchFailed
    BY <1>5, LimitsPositive DEF EndBatch
  <2>4. Len(verdicts') = turn + 1 /\ turn + 1 <= MaxTurns
    BY <1>5, <2>1, LimitsPositive DEF EndBatch, TypeOK, ControlInv
  <2>5. result = "none" BY <1>5 DEF EndBatch, ControlInv
  <2>6. result' = IF Contract!FailedStreak(verdicts', MaxFailures) THEN "circuit"
                  ELSE IF Len(verdicts') = MaxTurns THEN "maxTurns" ELSE "none"
    <3>1. CASE failures' >= MaxFailures
      BY <1>5, <2>2, <2>3, <3>1 DEF EndBatch, BreakerOpen
    <3>2. CASE ~(failures' >= MaxFailures)
      <4>1. turn' = turn + 1 BY <1>5, <3>2 DEF EndBatch, BreakerOpen
      <4> QED BY <1>5, <2>2, <2>4, <2>5, <3>2, <4>1, LimitsPositive
              DEF EndBatch, BreakerOpen, MoreTurns, TypeOK
    <3> QED BY <3>1, <3>2
  <2>7. Contract!Round(verdict) BY <2>1, <2>5, <2>6 DEF Contract!Round
  <2> QED BY <2>7 DEF Contract!ContractNext
<1>6. CASE UNCHANGED vars
  BY <1>6 DEF vars
<1> QED BY <1>1, <1>2, <1>3, <1>4, <1>5, <1>6 DEF Next

\* Whatever the model and the tools do, a turn is a sequence of at most
\* MaxTurns rounds that the breaker cuts after exactly MaxFailures failed
\* rounds in a row (loop.Run 33-77, loop.RunStreamed 43-122).
THEOREM ContractImplemented == Spec => ImplementsContract
<1>1. Init => Contract!ContractInit BY DEF Init, Contract!ContractInit
<1> QED BY <1>1, TypeCorrect, ContractStep, PTL
        DEF Spec, ImplementsContract, Contract!ContractSpec
-------------------------------------------------------------------------------
(***************************************************************************)
(* How a turn ends.                                                        *)
(***************************************************************************)
\* "final" stands exactly for a transcript that ends with a reply without
\* calls, so the session never stores the middle of a round as an answer
\* (loop.Run 52-56, loop.RunStreamed 77-82).
THEOREM FinalEndsWithAnswerAlways == Spec => []FinalEndsWithAnswer
<1> DEFINE Answered(o) == o # <<>> /\ o[Len(o)].role = "assistant" /\ o[Len(o)].calls = <<>>
<1>1. Init => FinalEndsWithAnswer BY DEF Init, FinalEndsWithAnswer
<1>2. TypeOK /\ ControlInv /\ FinalEndsWithAnswer /\ [Next]_vars => FinalEndsWithAnswer'
  <2> SUFFICES ASSUME TypeOK, ControlInv, FinalEndsWithAnswer, [Next]_vars
               PROVE  FinalEndsWithAnswer'
    OBVIOUS
  <2>0. (FinalEndsWithAnswer <=> (result = "final" <=> Answered(out)))
        /\ (FinalEndsWithAnswer' <=> (result' = "final" <=> Answered(out')))
    BY DEF FinalEndsWithAnswer
  <2>a. out \in Seq(Message) BY DEF TypeOK
  <2>1. ASSUME NEW text \in Texts, NEW calls \in Batches, Reply(text, calls)
        PROVE  result' = "final" <=> Answered(out')
    <3> DEFINE am == Assistant(text, calls)
    <3>1. am \in Message /\ am.role = "assistant" /\ am.calls = calls
      BY DEF Assistant, Message
    <3>2. out' = Append(out, am) BY <2>1 DEF Reply
    <3> HIDE DEF am
    <3>3. out' # <<>> /\ out'[Len(out')] = am BY <2>a, <3>1, <3>2
    <3>4. result' = "final" <=> calls = <<>> BY <2>1 DEF Reply, EndsTurn, ControlInv
    <3> QED BY <3>1, <3>3, <3>4
  <2>2. ASSUME NEW ok \in BOOLEAN, ExecTool(ok) PROVE result' = "final" <=> Answered(out')
    <3> DEFINE tm == ToolResult(batch[next], ok)
    <3>1. tm.role = "tool" BY DEF ToolResult
    <3>2. out' = Append(out, tm) /\ result' = "none" BY <2>2 DEF ExecTool, ControlInv
    <3> HIDE DEF tm
    <3>3. out'[Len(out')] = tm BY <2>a, <3>2
    <3> QED BY <3>1, <3>2, <3>3
  <2> HIDE DEF Answered
  <2>3. ASSUME NEW visible \in BOOLEAN, Delta(visible) PROVE result' = "final" <=> Answered(out')
    BY <2>0, <2>3 DEF Delta
  <2>4. CASE ModelError BY <2>0, <2>4 DEF ModelError, ControlInv
  <2>5. CASE EndBatch BY <2>0, <2>5 DEF EndBatch, ControlInv
  <2>6. CASE UNCHANGED vars BY <2>0, <2>6 DEF vars
  <2> QED BY <2>0, <2>1, <2>2, <2>3, <2>4, <2>5, <2>6 DEF Next
<1> QED BY <1>1, <1>2, TypeCorrect, PTL DEF Spec
-------------------------------------------------------------------------------
(***************************************************************************)
(* The client's view.  Segments and replies are counted off against each   *)
(* other, so the proof needs how the number of replies in a transcript     *)
(* grows when a message is appended.                                       *)
(***************************************************************************)
Replies(o, i) == {j \in 1..i : o[j].role = "assistant"}

LEMMA RepliesCounted ==
  ASSUME NEW o \in Seq(Message), NEW i \in 0..Len(o)
  PROVE  /\ IsFiniteSet(Replies(o, i)) /\ Cardinality(Replies(o, i)) \in Nat
         /\ Cardinality(Replies(o, i)) <= Cardinality(Replies(o, Len(o)))
         /\ i # 0 /\ o[i].role = "assistant" => Cardinality(Replies(o, i)) >= 1
<1>0. Len(o) \in Nat /\ i \in Int /\ 0 \in Int /\ 1 \in Int OBVIOUS
<1>1. IsFiniteSet(1..i) /\ IsFiniteSet(1..Len(o)) BY <1>0, FS_Interval
<1>2. Replies(o, i) \subseteq 1..i /\ Replies(o, Len(o)) \subseteq 1..Len(o) BY DEF Replies
<1>3. IsFiniteSet(Replies(o, i)) /\ IsFiniteSet(Replies(o, Len(o))) BY <1>1, <1>2, FS_Subset
<1>4. Replies(o, i) \subseteq Replies(o, Len(o)) BY <1>0 DEF Replies
<1>5. Cardinality(Replies(o, i)) <= Cardinality(Replies(o, Len(o))) BY <1>3, <1>4, FS_Subset
<1>6. Cardinality(Replies(o, i)) \in Nat BY <1>3, FS_CardinalityType
<1>7. ASSUME i # 0, o[i].role = "assistant" PROVE Cardinality(Replies(o, i)) >= 1
  <2>1. i \in Replies(o, i) BY <1>0, <1>7 DEF Replies
  <2>2. Replies(o, i) # {} BY <2>1
  <2>3. Cardinality(Replies(o, i)) # 0 BY <1>3, <2>2, FS_EmptySet
  <2> QED BY <1>6, <2>3
<1> QED BY <1>3, <1>5, <1>6, <1>7

LEMMA RepliesGrow ==
  ASSUME NEW o \in Seq(Message), NEW m \in Message
  PROVE  LET p == Append(o, m) IN
         /\ \A i \in 0..Len(o) : Replies(p, i) = Replies(o, i)
         /\ Cardinality(Replies(p, Len(o) + 1)) =
              Cardinality(Replies(o, Len(o))) + (IF m.role = "assistant" THEN 1 ELSE 0)
<1> DEFINE p == Append(o, m)
           R == Replies(o, Len(o))
<1>0. Len(o) \in Nat /\ p[Len(o) + 1] = m /\ \A j \in 1..Len(o) : p[j] = o[j] OBVIOUS
<1>1. IsFiniteSet(R) /\ Cardinality(R) \in Nat
  <2>1. Len(o) \in 0..Len(o) BY <1>0
  <2> QED BY <2>1, RepliesCounted
<1> HIDE DEF p
<1>2. ASSUME NEW i \in 0..Len(o) PROVE Replies(p, i) = Replies(o, i)
  <2>1. \A j \in 1..i : j \in 1..Len(o) BY <1>0
  <2> QED BY <1>0, <2>1 DEF Replies
<1>3. CASE m.role = "assistant"
  <2>1. Len(o) + 1 \notin R BY <1>0 DEF Replies
  <2>2. Replies(p, Len(o) + 1) = R \cup {Len(o) + 1} BY <1>0, <1>3 DEF Replies
  <2> HIDE DEF R
  <2>3. Cardinality(R \cup {Len(o) + 1}) = Cardinality(R) + 1 BY <1>1, <2>1, FS_AddElement
  <2>4. Cardinality(Replies(p, Len(o) + 1)) = Cardinality(R) + 1 BY <2>2, <2>3
  <2> QED BY <1>2, <1>3, <2>4 DEF R, p
<1>4. CASE m.role # "assistant"
  <2>1. Replies(p, Len(o) + 1) = R BY <1>0, <1>4 DEF Replies
  <2> QED BY <1>1, <1>2, <1>4, <2>1 DEF p
<1> QED BY <1>3, <1>4

\* What is shown of a closed segment.
Shows(seg, m) == seg.closed /\ (m.content = "text" => seg.shown)

\* As long as the model is asked there is one segment more than replies.
SegmentsInv ==
  /\ \A i \in 1..Len(out) : out[i].role = "assistant" =>
       Shows(segs[Cardinality(Replies(out, i))], out[i])
  /\ Len(segs) = Cardinality(Replies(out, Len(out)))
                   + (IF pc = "model" \/ result = "modelErr" THEN 1 ELSE 0)

\* The client is told that tools are executing only while they are, and only of
\* a batch whose end it will be told of.
StatusInv ==
  status = "executing" => Streamed /\ pc = "tools" /\ HasNames(batch)

LEMMA NextStatus == StatusInv /\ [Next]_vars => StatusInv'
<1> SUFFICES ASSUME StatusInv, [Next]_vars PROVE StatusInv'
  OBVIOUS
<1>1. ASSUME NEW visible \in BOOLEAN, Delta(visible) PROVE StatusInv'
  BY <1>1 DEF Delta, StatusInv
<1>2. CASE ModelError BY <1>2 DEF ModelError, StatusInv
<1>3. ASSUME NEW text \in Texts, NEW calls \in Batches, Reply(text, calls) PROVE StatusInv'
  BY <1>3 DEF Reply, Report, StatusInv
<1>4. ASSUME NEW ok \in BOOLEAN, ExecTool(ok) PROVE StatusInv' BY <1>4 DEF ExecTool, StatusInv
<1>5. CASE EndBatch
  <2>1. pc' # "tools" /\ batch' = batch /\ Report(batch, "generating") BY <1>5 DEF EndBatch
  <2>2. status' # "executing" BY <2>1 DEF Report, StatusInv
  <2> QED BY <2>2 DEF StatusInv
<1>6. CASE UNCHANGED vars BY <1>6 DEF vars, StatusInv
<1> QED BY <1>1, <1>2, <1>3, <1>4, <1>5, <1>6 DEF Next

LEMMA NextSegments ==
  ASSUME Streamed
  PROVE  TypeOK /\ ControlInv /\ SegmentsInv /\ [Next]_vars => SegmentsInv'
<1> SUFFICES ASSUME TypeOK, ControlInv, SegmentsInv, [Next]_vars PROVE SegmentsInv'
  OBVIOUS
<1> DEFINE L == Len(out)
           n == Cardinality(Replies(out, L))
           No(i) == Cardinality(Replies(out, i))
<1>0. out \in Seq(Message) /\ L \in Nat /\ segs \in Seq(Segment) /\ Len(segs) \in Nat
  BY DEF TypeOK
<1>1. n \in Nat /\ \A i \in 1..L : out[i].role = "assistant" => No(i) \in 1..n
  <2>1. \A i \in 0..L : /\ No(i) \in Nat /\ No(i) <= n
                        /\ i # 0 /\ out[i].role = "assistant" => No(i) >= 1
    BY <1>0, RepliesCounted
  <2>2. L \in 0..L BY <1>0
  <2>3. ASSUME NEW i \in 1..L, out[i].role = "assistant" PROVE No(i) \in 1..n
    <3>1. i \in 0..L /\ i # 0 BY <1>0
    <3>2. No(i) \in Nat /\ No(i) <= n /\ No(i) >= 1 BY <2>1, <2>3, <3>1
    <3>3. n \in Nat BY <2>1, <2>2
    <3> HIDE DEF No, n
    <3> QED BY <3>2, <3>3
  <2> QED BY <2>1, <2>2, <2>3
<1>2. /\ \A i \in 1..L : out[i].role = "assistant" => Shows(segs[No(i)], out[i])
      /\ Len(segs) = n + (IF pc = "model" \/ result = "modelErr" THEN 1 ELSE 0)
  BY DEF SegmentsInv
<1> HIDE DEF n, No
\* Steps that append nothing.
<1>3. ASSUME UNCHANGED out, \A k \in 1..n : segs'[k] = segs[k],
             Len(segs') = n + (IF pc' = "model" \/ result' = "modelErr" THEN 1 ELSE 0)
      PROVE  SegmentsInv'
  BY <1>1, <1>2, <1>3 DEF SegmentsInv, n, No
\* Steps that append m.
<1>4. ASSUME NEW m \in Message, out' = Append(out, m), \A k \in 1..n : segs'[k] = segs[k],
             m.role = "assistant" => Shows(segs'[n + 1], m),
             Len(segs') = n + (IF m.role = "assistant" THEN 1 ELSE 0)
                            + (IF pc' = "model" \/ result' = "modelErr" THEN 1 ELSE 0)
      PROVE  SegmentsInv'
  <2>1. /\ Len(out') = L + 1 /\ out'[L + 1] = m /\ \A i \in 1..L : out'[i] = out[i]
    BY <1>0, <1>4
  <2>2. /\ \A i \in 0..L : Replies(out', i) = Replies(out, i)
        /\ Cardinality(Replies(out', L + 1)) = n + (IF m.role = "assistant" THEN 1 ELSE 0)
    BY <1>0, <1>4, RepliesGrow DEF n
  <2>3. ASSUME NEW i \in 1..L + 1, out'[i].role = "assistant"
        PROVE  Shows(segs'[Cardinality(Replies(out', i))], out'[i])
    <3>1. CASE i = L + 1
      <4>1. Cardinality(Replies(out', i)) = n + 1 BY <2>1, <2>2, <2>3, <3>1
      <4> QED BY <1>4, <2>1, <2>3, <3>1, <4>1
    <3>2. CASE i # L + 1
      <4>1. i \in 1..L /\ i \in 0..L BY <1>0, <3>2
      <4>2. out'[i] = out[i] /\ Cardinality(Replies(out', i)) = No(i) BY <2>1, <2>2, <4>1 DEF No
      <4>3. No(i) \in 1..n BY <1>1, <2>3, <4>1, <4>2
      <4> QED BY <1>2, <1>4, <2>3, <4>1, <4>2, <4>3
    <3> QED BY <3>1, <3>2
  <2>4. Len(segs') = Cardinality(Replies(out', L + 1))
                       + (IF pc' = "model" \/ result' = "modelErr" THEN 1 ELSE 0)
    BY <1>4, <2>2
  <2> QED BY <2>1, <2>3, <2>4 DEF SegmentsInv
<1>5. ASSUME NEW visible \in BOOLEAN, Delta(visible) PROVE SegmentsInv'
  <2>1. segs' = [segs EXCEPT ![Len(segs)] = [segs[Len(segs)] EXCEPT !.shown = @ \/ visible]]
        /\ pc = "model" /\ UNCHANGED <<pc, out, result>>
    BY <1>5 DEF Delta
  <2>2. Len(segs) = n + 1 BY <1>2, <2>1
  <2>3. Len(segs') = Len(segs) /\ \A k \in 1..Len(segs) : k # Len(segs) => segs'[k] = segs[k]
    BY <1>0, <2>1
  <2>4. \A k \in 1..n : k \in 1..Len(segs) /\ k # Len(segs) BY <1>1, <2>2
  <2> QED BY <1>3, <2>1, <2>2, <2>3, <2>4
<1>6. CASE ModelError
  <2>1. UNCHANGED <<out, segs>> /\ pc = "model" /\ pc' = "done" /\ result' = "modelErr"
    BY <1>6 DEF ModelError
  <2>2. Len(segs') = n + 1 BY <1>2, <2>1
  <2> QED BY <1>3, <2>1, <2>2
<1>7. ASSUME NEW text \in Texts, NEW calls \in Batches, Reply(text, calls) PROVE SegmentsInv'
  <2> DEFINE am == Assistant(text, calls)
             seg == CloseSegment(segs[Len(segs)], text)
  <2>1. am \in Message /\ am.role = "assistant" /\ am.content = text BY DEF Assistant, Message
  <2>2. Shows(seg, am) BY <2>1 DEF CloseSegment, Shows
  <2>3. /\ out' = Append(out, am) /\ segs' = [segs EXCEPT ![Len(segs)] = seg] /\ pc = "model"
        /\ pc' # "model" /\ result' # "modelErr"
    BY <1>7 DEF Reply, ControlInv
  <2> HIDE DEF am, seg
  <2>4. Len(segs) = n + 1 BY <1>2, <2>3
  <2>5. /\ Len(segs') = Len(segs) /\ segs'[Len(segs)] = seg
        /\ \A k \in 1..Len(segs) : k # Len(segs) => segs'[k] = segs[k]
    BY <1>0, <1>1, <2>3, <2>4
  <2>6. \A k \in 1..n : k \in 1..Len(segs) /\ k # Len(segs) BY <1>1, <2>4
  <2>7. \A k \in 1..n : segs'[k] = segs[k] BY <2>5, <2>6
  <2>8. Shows(segs'[n + 1], am) BY <2>2, <2>4, <2>5
  <2>9. Len(segs') = n + (IF am.role = "assistant" THEN 1 ELSE 0)
                       + (IF pc' = "model" \/ result' = "modelErr" THEN 1 ELSE 0)
    BY <1>1, <2>1, <2>3, <2>4, <2>5
  <2> QED BY <1>4, <2>1, <2>3, <2>7, <2>8, <2>9
<1>8. ASSUME NEW ok \in BOOLEAN, ExecTool(ok) PROVE SegmentsInv'
  <2> DEFINE tm == ToolResult(batch[next], ok)
  <2>1. tm \in Message /\ tm.role = "tool"
    <3>1. batch[next] \in Call BY <1>8, BatchesAreSeqs DEF ExecTool, TypeOK
    <3> QED BY <3>1 DEF ToolResult, Message, Call
  <2>2. out' = Append(out, tm) /\ UNCHANGED <<segs, pc, result>> /\ pc = "tools" /\ result = "none"
    BY <1>8 DEF ExecTool, ControlInv
  <2> HIDE DEF tm
  <2>3. Len(segs') = n + (IF tm.role = "assistant" THEN 1 ELSE 0)
                       + (IF pc' = "model" \/ result' = "modelErr" THEN 1 ELSE 0)
    BY <1>1, <1>2, <2>1, <2>2
  <2>4. \A k \in 1..n : segs'[k] = segs[k] BY <2>2
  <2> QED BY <1>4, <2>1, <2>2, <2>3, <2>4
<1>9. CASE EndBatch
  <2>1. UNCHANGED out /\ pc = "tools" /\ result = "none" BY <1>9 DEF EndBatch, ControlInv
  <2>2. Len(segs) = n BY <1>1, <1>2, <2>1
  <2>3. \/ pc' = "model" /\ segs' = Append(segs, NewSegment)
        \/ pc' = "done" /\ result' # "modelErr" /\ segs' = segs
    BY <1>9 DEF EndBatch
  <2>4. CASE pc' = "model" /\ segs' = Append(segs, NewSegment)
    <3>1. Len(segs') = n + 1 /\ \A k \in 1..n : segs'[k] = segs[k] BY <1>0, <2>2, <2>4
    <3> QED BY <1>3, <2>1, <2>4, <3>1
  <2>5. CASE pc' = "done" /\ result' # "modelErr" /\ segs' = segs
    BY <1>1, <1>3, <2>1, <2>2, <2>5
  <2> QED BY <2>3, <2>4, <2>5
<1>10. CASE UNCHANGED vars BY <1>2, <1>3, <1>10 DEF vars
<1> QED BY <1>5, <1>6, <1>7, <1>8, <1>9, <1>10 DEF Next

\* The client's view agrees with the transcript at every moment of every turn:
\* each reply is one closed segment in the same place, with its visible text
\* shown, and no turn returns in the phase "executing" (loop.RunStreamed 43-122).
THEOREM ClientSawRepliesAlways == Spec => []ClientSawReplies
<1>1. CASE Streamed
  <2>1. Init => SegmentsInv /\ StatusInv
    <3> SUFFICES ASSUME Init PROVE SegmentsInv /\ StatusInv
      OBVIOUS
    <3>1. out = <<>> /\ Len(out) = 0 /\ Len(segs) = 1 /\ pc = "model" /\ status = "none" BY DEF Init
    <3>2. Replies(out, 0) = {} BY DEF Replies
    <3>3. Cardinality(Replies(out, Len(out))) = 0 BY <3>1, <3>2, FS_EmptySet
    <3> QED BY <3>1, <3>3 DEF SegmentsInv, StatusInv
  <2>2. SegmentsInv /\ StatusInv => ClientSawReplies
    BY DEF SegmentsInv, StatusInv, ClientSawReplies, RepliesUpTo, Replies, Shows
  <2> QED BY <1>1, <2>1, <2>2, TypeCorrect, NextSegments, NextStatus, PTL DEF Spec
<1>2. CASE ~Streamed
  <2>1. ClientSawReplies BY <1>2 DEF ClientSawReplies
  <2> QED BY <2>1, PTL
<1> QED BY <1>1, <1>2
===============================================================================
