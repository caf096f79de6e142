----------------------------- MODULE MCCompaction -----------------------------
(***************************************************************************)
(* Small prompts for Compaction: one system message, up to MaxBlocks turns *)
(* or rounds of a history, and the user's message.  Each part is light or  *)
(* heavy, so that the budget is met after any number of drops.             *)
(***************************************************************************)
EXTENDS Compaction, SequencesExt

CONSTANTS
  MaxBlocks,  \* bound on the blocks of a history
  Trimmed     \* the session store may have cut the history inside a round

Plain(role, t) == [role |-> role, tokens |-> t, calls |-> {}, id |-> NoId]
ReplyOf(ids, t) == [role |-> "assistant", tokens |-> t, calls |-> ids, id |-> NoId]
ToolMsg(id, t) == [role |-> "tool", tokens |-> t, calls |-> {}, id |-> id]

Sizes == {1, 3}

\* The provider may leave the ids of its tool calls empty.
CallIds == Ids \cup {NoId}

\* A user message, an answer, or a round of one or two tool calls.
Blocks ==
  {<<Plain(r, t)>> : r \in {"user", "assistant"}, t \in Sizes}
    \cup {<<ReplyOf({i}, 1), ToolMsg(i, t)>> : i \in CallIds, t \in Sizes}
    \cup {<<ReplyOf({p[1], p[2]}, 1), ToolMsg(p[1], 1), ToolMsg(p[2], 1)>> :
            p \in CallIds \X CallIds}

\* A session that was trimmed inside a round starts with its tool result.
Heads == {<<>>} \cup (IF Trimmed THEN {<<ToolMsg(i, 1)>> : i \in CallIds} ELSE {})

MCPrompts ==
  {<<Plain("system", 1)>> \o head \o FlattenSeq(bs) \o <<Plain("user", 1)>> :
     head \in Heads, bs \in UNION {[1..n -> Blocks] : n \in 0..MaxBlocks}}

ASSUME MCPromptsWellFormed == \A m \in MCPrompts : WellFormed(m)
===============================================================================
