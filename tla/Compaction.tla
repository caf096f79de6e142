------------------------------ MODULE Compaction ------------------------------
(***************************************************************************)
(* compaction.ThresholdCompactor.MaybeCompact: before every turn the       *)
(* prepared prompt is cut down to the token budget by dropping the oldest  *)
(* blocks between the system prefix and the last message; a block is a     *)
(* message, or a reply with the tool results that answer it.               *)
(* A message carries its estimated tokens; its text is left out.           *)
(***************************************************************************)
EXTENDS Integers, Sequences, FiniteSets

CONSTANTS
  Prompts,     \* the prepared prompts: system prefix, history, user message
  Ids,         \* tool call ids
  NoId,        \* the empty id
  OptMaxTokens, OptMinTail,   \* as configured (<= 0: the default)
  NoticeTokens \* tokens of the notice that replaces what was dropped

\* A message that answers no call has id NoId; only replies have calls.
Message == [role : {"system", "user", "assistant", "tool"}, tokens : Nat,
            calls : SUBSET (Ids \cup {NoId}), id : Ids \cup {NoId}]

ASSUME PromptsAssumption == Prompts \subseteq Seq(Message)
ASSUME NoIdAssumption == NoId \notin Ids
ASSUME OptionsAssumption == OptMaxTokens \in Int /\ OptMinTail \in Int
ASSUME NoticeAssumption == NoticeTokens \in Nat

MaxTokens == IF OptMaxTokens <= 0 THEN 48000 ELSE OptMaxTokens
MinTail == IF OptMinTail <= 0 THEN 8 ELSE OptMinTail

\* RoughTokenEstimator.
Tokens(msgs) ==
  LET sum[i \in 0..Len(msgs)] == IF i = 0 THEN 0 ELSE sum[i - 1] + msgs[i].tokens
  IN sum[Len(msgs)]

\* The number of leading system messages.
PrefixLen(msgs) ==
  CHOOSE n \in 0..Len(msgs) :
    /\ \A i \in 1..n : msgs[i].role = "system"
    /\ n < Len(msgs) => msgs[n + 1].role # "system"

\* The tool message m answers the reply r: an empty id never matches.
Answers(m, r) == m.role = "tool" /\ m.id \in r.calls \ {NoId}

BlockLenReplyOnly(mid) == 1

\* consumeBlockFromFront: the messages dropped together from the front.
BlockLen(mid) ==
  IF mid[1].role = "assistant" /\ mid[1].calls # {}
  THEN CHOOSE n \in 1..Len(mid) :
         /\ \A j \in 2..n : Answers(mid[j], mid[1])
         /\ n < Len(mid) => ~Answers(mid[n + 1], mid[1])
  ELSE 1

Notice == [role |-> "system", tokens |-> NoticeTokens, calls |-> {}, id |-> NoId]
-------------------------------------------------------------------------------
VARIABLES
  pc,       \* "start", "drop", "done"
  msgs,     \* the argument of MaybeCompact
  mid,      \* what is still kept between the prefix and the last message
  dropped,  \* droppedBlocks, a number of messages
  out       \* the returned messages

vars == <<pc, msgs, mid, dropped, out>>

prefix == SubSeq(msgs, 1, PrefixLen(msgs))
rest == SubSeq(msgs, PrefixLen(msgs) + 1, Len(msgs))
last == rest[Len(rest)]
history == SubSeq(rest, 1, Len(rest) - 1)

squash(m) == prefix \o m \o <<last>>

Init ==
  /\ pc = "start" /\ msgs \in Prompts /\ mid = <<>> /\ dropped = 0 /\ out = <<>>

\* The early returns: within the budget, or nothing but system messages.
Fits ==
  /\ pc = "start"
  /\ Tokens(msgs) <= MaxTokens \/ rest = <<>>
  /\ out' = msgs /\ pc' = "done"
  /\ UNCHANGED <<msgs, mid, dropped>>

OverBudget ==
  /\ pc = "start"
  /\ Tokens(msgs) > MaxTokens /\ rest # <<>>
  /\ mid' = history /\ pc' = "drop"
  /\ UNCHANGED <<msgs, dropped, out>>

KeepDroppingOnce == Tokens(squash(mid)) > MaxTokens /\ Len(mid) > MinTail /\ dropped = 0

KeepDroppingStaleSum == Tokens(msgs) > MaxTokens /\ Len(mid) > MinTail

KeepDropping == Tokens(squash(mid)) > MaxTokens /\ Len(mid) > MinTail

\* One iteration of the loop.
DropBlock ==
  /\ pc = "drop" /\ KeepDropping
  /\ mid' = SubSeq(mid, BlockLen(mid) + 1, Len(mid))
  /\ dropped' = dropped + BlockLen(mid)
  /\ UNCHANGED <<pc, msgs, out>>

ResultWithoutPrefix == <<Notice>> \o mid \o <<last>>

Result == prefix \o <<Notice>> \o mid \o <<last>>

Finish ==
  /\ pc = "drop" /\ ~KeepDropping
  /\ out' = IF dropped = 0 THEN msgs ELSE Result
  /\ pc' = "done"
  /\ UNCHANGED <<msgs, mid, dropped>>

Next == Fits \/ OverBudget \/ DropBlock \/ Finish

Spec == Init /\ [][Next]_vars
-------------------------------------------------------------------------------
\* The reply at j is the last one before i and called the tool result at i.
ReplyTo(s, i, j) ==
  /\ j < i /\ s[j].role = "assistant" /\ s[i].id \in s[j].calls
  /\ \A k \in (j + 1)..(i - 1) : s[k].role = "tool"

\* What the turns of one session leave behind: the last message is the user's,
\* and between a reply and a result of it stand only results of it.
WellFormed(s) ==
  /\ s # <<>> => s[Len(s)].role # "tool"
  /\ \A i, j \in 1..Len(s) :
       s[i].role = "tool" /\ ReplyTo(s, i, j) => \A k \in (j + 1)..(i - 1) : s[k].id \in s[j].calls

\* Compaction does not turn a prompt into one the provider refuses: a tool
\* result that stands without its reply in the returned prompt stood without it
\* in the argument (heuristic.go:28, "whole tool rounds").  Rounds with an empty
\* id are excepted: the code stops at their first result without one.
WholeRounds ==
  pc = "done" /\ out # msgs =>
    \A i \in {k \in 1..Len(out) : out[k].role = "tool"} :
      \/ \E j \in 1..Len(out) : ReplyTo(out, i, j)
      \/ \A j \in 1..Len(msgs) : ReplyTo(msgs, i - 1 + dropped, j) => NoId \in msgs[j].calls

\* What is kept is the prefix, the newest part of the history without a gap,
\* and the message to be answered; the notice stands for the dropped count.
KeepsNewest ==
  pc = "done" /\ out # msgs =>
    /\ out = prefix \o <<Notice>> \o SubSeq(history, dropped + 1, Len(history)) \o <<last>>
    /\ dropped > 0

\* The returned prompt is over the budget only where the tail rule forbids to
\* drop more; the notice itself is not in the sum (heuristic.go:85).
BudgetOrTail ==
  pc = "done" =>
    LET notice == IF out = msgs THEN 0 ELSE 1
    IN \/ Tokens(out) <= MaxTokens + notice * NoticeTokens
       \/ Len(out) - PrefixLen(msgs) - 1 - notice <= MinTail

\* Nothing is dropped without need: with the last dropped block back, the
\* prompt would be over the budget and more than MinTail messages long between
\* prefix and last message (heuristic.go:85-92).
DropsOnlyNeeded ==
  pc = "done" /\ dropped > 0 =>
    LET starts == {k \in 1..dropped : history[k].role # "tool"}
        lastBlock == IF starts = {} THEN dropped
                     ELSE CHOOSE k \in starts : \A j \in starts : j <= k
        back == SubSeq(history, lastBlock, Len(history))
    IN Tokens(squash(back)) > MaxTokens /\ Len(back) > MinTail

\* "MinTail is the minimum number of messages to keep between system prefix and
\* the final message" (heuristic.go:31): dropping leaves at least as many.
KeepsMinTail == pc = "done" /\ dropped > 0 => Len(mid) >= MinTail
===============================================================================
