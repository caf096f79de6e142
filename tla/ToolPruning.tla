----------------------------- MODULE ToolPruning -----------------------------
(***************************************************************************)
(* Truncation of tool results (compaction.TruncateToolPruner). The loop    *)
(* prunes a result when its tool returns, and that text is stored in the    *)
(* session; every later turn prunes the stored text again for its prompt,   *)
(* under the limit of the process it runs in.                               *)
(* A text is a sequence of runes: i > 0 is the i-th rune of the result, and *)
(* -j the j-th rune of the ellipsis.                                        *)
(***************************************************************************)
EXTENDS Integers, Sequences, SequencesExt

CONSTANTS
  EllipsisLen,   \* runes of the ellipsis
  Margin,        \* runes of a result that are not worth keeping
  Limits,        \* values of TOOL_RESULT_MAX_RUNES
  MaxResult      \* bound on the runes of a result

ASSUME LengthsAssumption ==
  /\ EllipsisLen \in Nat \ {0} /\ Margin \in Nat
  /\ Limits \subseteq Nat \ {0} /\ MaxResult \in Nat

Off == 0   \* TOOL_RESULT_MAX_RUNES=off: NoopToolPruner

Ellipsis == [j \in 1..EllipsisLen |-> -j]
Runes(n) == [i \in 1..n |-> i]

VARIABLES
  limit,    \* of the running process
  result,   \* what the tool returned; empty before
  stored,   \* what the session holds of it
  given,    \* what the model was given of it last
  since     \* the limits in force since the tool returned (history)

pruningVars == <<limit, result, stored, given, since>>

PruningInit ==
  /\ limit \in Limits \cup {Off}
  /\ result = <<>> /\ stored = <<>> /\ given = <<>>
  /\ since = {}

PruneCutsEllipsis(text, max) ==
  IF max = Off \/ Len(text) <= max THEN text
  ELSE IF max < EllipsisLen THEN SubSeq(Ellipsis, 1, max)
  ELSE IF max <= EllipsisLen + Margin THEN Ellipsis
  ELSE SubSeq(text, 1, max - EllipsisLen) \o Ellipsis

\* Prune of a message of the role tool; other roles are left as they are.
Prune(text, max) ==
  IF max = Off \/ Len(text) <= max THEN text
  ELSE IF max <= EllipsisLen + Margin THEN Ellipsis
  ELSE SubSeq(text, 1, max - EllipsisLen) \o Ellipsis

\* A tool returns n runes: the loop prunes them, gives them to the model and
\* stores them at the end of the turn.
ToolReturns(n) ==
  /\ result = <<>>
  /\ result' = Runes(n)
  /\ given' = Prune(Runes(n), limit)
  /\ stored' = given'
  /\ since' = {limit}
  /\ UNCHANGED limit

\* PrepareLoop of a later turn prunes a copy of what is stored.
PrepareLoop ==
  /\ result # <<>>
  /\ given' = Prune(stored, limit)
  /\ UNCHANGED <<limit, result, stored, since>>

\* The process is started again with another limit.
NewLimit(l) ==
  /\ limit' = l
  /\ since' = IF result = <<>> THEN {} ELSE since \cup {l}
  /\ UNCHANGED <<result, stored, given>>

PruningNext ==
  \/ \E n \in 1..MaxResult : ToolReturns(n)
  \/ PrepareLoop
  \/ \E l \in Limits \cup {Off} : NewLimit(l)

PruningSpec == PruningInit /\ [][PruningNext]_pruningVars
-------------------------------------------------------------------------------
\* Whatever the limits were, the model is given the beginning of the result and
\* no more than one ellipsis, whole and at the end, never a piece of an ellipsis
\* as if the tool had returned it; and a result is given or stored shortened
\* only if it was over a limit in force since, and then the model can tell.
PruningHonest ==
  /\ \E n \in 0..Len(result) : given \in {Runes(n), Runes(n) \o Ellipsis}
  /\ \/ given = result /\ stored = result
     \/ \E l \in since \ {Off} : Len(result) > l /\ (given = result \/ IsSuffix(Ellipsis, given))
==============================================================================
