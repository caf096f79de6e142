------------------------------ MODULE ReactLoop ------------------------------
(***************************************************************************)
(* One user turn of the agent: loop.Run and loop.RunStreamed               *)
(* (pkg/agent_core/loop).  The model is asked for a reply; the tools it    *)
(* asks for are executed one after the other, each answered by a tool      *)
(* message; the extended transcript goes back to the model; until a reply  *)
(* without tool calls, a model error, MaxTurns rounds or MaxFailures       *)
(* failed rounds in a row.  RunStreamed also tells the client, through the *)
(* hooks, what text to show and which phase the turn is in.                *)
(***************************************************************************)
EXTENDS Integers, Sequences, FiniteSets

CONSTANTS
  OptMaxTurns,      \* Options.MaxTurns as configured (<= 0: the default)
  OptMaxFailures,   \* Options.MaxConsecutiveToolFailures as configured
  Streamed,         \* TRUE: RunStreamed, FALSE: Run
  CallIds,          \* ids the model gives to its tool calls
  ToolNames,        \* non-empty names the model may ask for
  Registered,       \* the tools of the registry
  NoName,           \* a call whose name is empty
  MaxBatch          \* bound: tool calls in one reply

ASSUME LimitsAreInts == OptMaxTurns \in Int /\ OptMaxFailures \in Int
ASSUME StreamedIsBoolean == Streamed \in BOOLEAN
ASSUME NamesAssumption == Registered \subseteq ToolNames /\ NoName \notin ToolNames
ASSUME MaxBatchAssumption == MaxBatch \in Nat

\* The defaulting at the head of Run and RunStreamed.
MaxTurns == IF OptMaxTurns <= 0 THEN 32 ELSE OptMaxTurns
MaxFailures == IF OptMaxFailures <= 0 THEN 3 ELSE OptMaxFailures

VARIABLES
  pc,        \* "model": in the completion call, "tools": in the batch, "done"
  turn,      \* the loop variable
  failures,  \* failed batches in a row
  out,       \* messages appended after the prepared prompt
  batch,     \* am.ToolCalls of the current reply
  next,      \* the call of the batch to execute next
  batchFailed,
  result,    \* "none" until Run returns
  segs,      \* what the client was shown, one record for each model call
  status,    \* the phase last reported to the client
  verdicts   \* history: "failed" or "ok" for each finished round

vars == <<pc, turn, failures, out, batch, next, batchFailed, result, segs,
          status, verdicts>>

-------------------------------------------------------------------------------
\* A reply's text is empty or whitespace, only zero-width runes, or visible.
Texts == {"blank", "zerowidth", "text"}

Call == [id : CallIds, name : ToolNames \cup {NoName}]

Batches == UNION {[1..n -> Call] : n \in 0..MaxBatch}

Message == [role : {"assistant"}, content : Texts, calls : Batches]
             \cup [role : {"tool"}, content : {"result", "error"}, id : CallIds]

Assistant(text, calls) ==
  [role |-> "assistant", content |-> text, calls |-> calls]

\* The tool message for call c; an error is wrapped in <tool_use_error>.
ToolResult(c, ok) ==
  [role |-> "tool", content |-> IF ok THEN "result" ELSE "error", id |-> c.id]

\* Registry.Execute: an unknown name is an error; a registered tool may
\* succeed or return an error of its own.
ExecuteOutcomes(c) == IF c.name \in Registered THEN BOOLEAN ELSE {FALSE}

\* BeforeToolBatch and AfterToolBatch are skipped when no call has a name.
HasNames(calls) == \E i \in DOMAIN calls : calls[i].name # NoName

Report(calls, phase) ==
  status' = IF Streamed /\ HasNames(calls) THEN phase ELSE status

Segment == [shown : BOOLEAN, closed : BOOLEAN]

NewSegment == [shown |-> FALSE, closed |-> FALSE]

CloseSegmentNoFallback(seg, text) == [shown |-> seg.shown, closed |-> TRUE]

\* A reply with visible text none of which was streamed is sent whole.  The
\* test is on TrimSpace, so a zero-width text is sent too, and shows nothing.
CloseSegment(seg, text) ==
  [shown |-> seg.shown \/ text = "text", closed |-> TRUE]

EndsTurnOnText(text, calls) == calls = <<>> \/ text = "text"

\* A reply without tool calls is the answer, whatever its text.
EndsTurn(text, calls) == calls = <<>>

BreakerOpenLate(f) == f > MaxFailures

BreakerOpen(f) == f >= MaxFailures

MoreTurnsOneTooMany(t) == t <= MaxTurns

MoreTurnsUnlimited(t) == TRUE

\* The condition of the for loop.
MoreTurns(t) == t < MaxTurns
-------------------------------------------------------------------------------
Init ==
  /\ pc = "model" /\ turn = 0 /\ failures = 0
  /\ out = <<>> /\ batch = <<>> /\ next = 1 /\ batchFailed = FALSE
  /\ result = "none"
  /\ segs = <<NewSegment>> /\ status = "none"
  /\ verdicts = <<>>

\* wrapDelta: a streamed chunk reaches OnTextDelta; visible says whether it
\* has visible text.
Delta(visible) ==
  /\ pc = "model" /\ Streamed
  /\ segs' = [segs EXCEPT ![Len(segs)].shown = @ \/ visible]
  /\ UNCHANGED <<pc, turn, failures, out, batch, next, batchFailed, result,
                 status, verdicts>>

\* The completion call fails, possibly after some deltas were shown.
ModelError ==
  /\ pc = "model"
  /\ pc' = "done" /\ result' = "modelErr"
  /\ UNCHANGED <<turn, failures, out, batch, next, batchFailed, segs, status,
                 verdicts>>

\* The completion call returns: the segment is closed, the reply appended,
\* and the turn ends here when it asks for no tool.
Reply(text, calls) ==
  /\ pc = "model"
  /\ out' = Append(out, Assistant(text, calls))
  /\ segs' = IF Streamed
             THEN [segs EXCEPT ![Len(segs)] = CloseSegment(@, text)]
             ELSE segs
  /\ IF EndsTurn(text, calls)
     THEN /\ pc' = "done" /\ result' = "final"
          /\ UNCHANGED <<batch, next, batchFailed, status>>
     ELSE /\ pc' = "tools" /\ batch' = calls /\ next' = 1 /\ batchFailed' = FALSE
          /\ Report(calls, "executing")
          /\ UNCHANGED result
  /\ UNCHANGED <<turn, failures, verdicts>>

ExecToolErrorUnanswered(ok) ==
  /\ pc = "tools" /\ next <= Len(batch)
  /\ ok \in ExecuteOutcomes(batch[next])
  /\ out' = IF ok THEN Append(out, ToolResult(batch[next], ok)) ELSE out
  /\ batchFailed' = (batchFailed \/ ~ok)
  /\ next' = next + 1
  /\ UNCHANGED <<pc, turn, failures, batch, result, segs, status, verdicts>>

\* One tool call of the batch: executed, and answered whatever happens.
ExecTool(ok) ==
  /\ pc = "tools" /\ next <= Len(batch)
  /\ ok \in ExecuteOutcomes(batch[next])
  /\ out' = Append(out, ToolResult(batch[next], ok))
  /\ batchFailed' = (batchFailed \/ ~ok)
  /\ next' = next + 1
  /\ UNCHANGED <<pc, turn, failures, batch, result, segs, status, verdicts>>

\* The batch is over: the breaker is tested before the loop condition.
EndBatch ==
  /\ pc = "tools" /\ next > Len(batch)
  /\ Report(batch, "generating")
  /\ verdicts' = Append(verdicts, IF batchFailed THEN "failed" ELSE "ok")
  /\ failures' = IF batchFailed THEN failures + 1 ELSE 0
  /\ IF batchFailed /\ BreakerOpen(failures')
     THEN pc' = "done" /\ result' = "circuit" /\ UNCHANGED <<turn, segs>>
     ELSE /\ turn' = turn + 1
          /\ IF MoreTurns(turn')
             THEN /\ pc' = "model" /\ segs' = Append(segs, NewSegment)
                  /\ UNCHANGED result
             ELSE pc' = "done" /\ result' = "maxTurns" /\ UNCHANGED segs
  /\ UNCHANGED <<out, batch, next, batchFailed>>

Next ==
  \/ \E visible \in BOOLEAN : Delta(visible)
  \/ ModelError
  \/ \E text \in Texts, calls \in Batches : Reply(text, calls)
  \/ \E ok \in BOOLEAN : ExecTool(ok)
  \/ EndBatch

Spec == Init /\ [][Next]_vars
-------------------------------------------------------------------------------
TypeOK ==
  /\ pc \in {"model", "tools", "done"}
  /\ turn \in 0..MaxTurns
  /\ failures \in 0..MaxFailures
  /\ out \in Seq(Message)
  /\ batch \in Batches
  /\ next \in Nat \ {0}
  /\ batchFailed \in BOOLEAN
  /\ result \in {"none", "final", "modelErr", "circuit", "maxTurns"}
  /\ segs \in Seq(Segment)
  /\ status \in {"none", "executing", "generating"}
  /\ verdicts \in Seq({"ok", "failed"})

\* The reply at i is followed by the results of its calls, as far as they are
\* there, in the order of the calls, and after the last of them by a reply.
AnsweredAt(msgs, i) ==
  LET calls == msgs[i].calls IN
  /\ \A k \in 1..Len(calls) : i + k <= Len(msgs) =>
       msgs[i + k].role = "tool" /\ msgs[i + k].id = calls[k].id
  /\ i + Len(calls) < Len(msgs) => msgs[i + Len(calls) + 1].role = "assistant"

\* The provider's rule for tool messages, which the loop must keep although
\* any tool may fail at any point: a reply that asks for n tools is followed
\* by their n results in the order of the calls, then by the next reply; only
\* the round being executed may still lack some (loop.Run 50-67).
RoundsAnswered ==
  /\ out # <<>> => out[1].role = "assistant"
  /\ \A i \in 1..Len(out) : out[i].role = "assistant" =>
       /\ AnsweredAt(out, i)
       /\ i + Len(out[i].calls) > Len(out) => pc = "tools"

\* A finished turn ends with a reply without calls exactly when it says so,
\* so the delta the session stores never ends inside a tool round.
FinalEndsWithAnswer ==
  result = "final" <=>
    /\ out # <<>>
    /\ out[Len(out)].role = "assistant"
    /\ out[Len(out)].calls = <<>>

\* The number of replies among the first i messages.
RepliesUpTo(i) == Cardinality({j \in 1..i : out[j].role = "assistant"})

\* The client's view agrees with the transcript: the k-th segment is the k-th
\* reply, it is closed, and a reply with visible text was visible, whether or
\* not the backend streamed it (react_stream.go 67-76).  Only the model call
\* in progress, or one that failed, is an open segment.  No turn returns with
\* the client told that tools are executing.
ClientSawReplies ==
  Streamed =>
    /\ \A i \in 1..Len(out) : out[i].role = "assistant" =>
         LET seg == segs[RepliesUpTo(i)]
         IN seg.closed /\ (out[i].content = "text" => seg.shown)
    /\ Len(segs) = RepliesUpTo(Len(out)) +
         (IF pc = "model" \/ result = "modelErr" THEN 1 ELSE 0)
    /\ pc = "done" => status # "executing"

\* The loop keeps the contract: failures, turn and the order of the two tests
\* implement "the last MaxFailures rounds failed, else MaxTurns rounds".
Contract == INSTANCE TurnContract
              WITH outcome <- IF result = "none" THEN "running" ELSE result

ImplementsContract == Contract!ContractSpec

\* An upper bound on the model calls, tool calls and ends of rounds still to
\* come: a round is at most MaxBatch calls, its reply and its end.
StepsLeft ==
  CASE pc = "model" -> (MaxTurns - turn) * (MaxBatch + 2)
    [] pc = "tools" -> (MaxTurns - turn - 1) * (MaxBatch + 2)
                         + (Len(batch) - next) + 2
    [] pc = "done"  -> 0

\* However the model keeps asking for tools, and however they fail, a turn
\* makes a bounded number of model and tool calls: every step but a streamed
\* chunk lowers StepsLeft, which no step takes below 0 (the for loop of
\* loop.Run, 33).  This says nothing of how long one call takes: a write to
\* the client and a query have no deadline, so a turn need not return.
TurnShrinks ==
  [][/\ StepsLeft' \in Nat
     /\ StepsLeft' < StepsLeft \/ \E visible \in BOOLEAN : Delta(visible)]_vars
===============================================================================
