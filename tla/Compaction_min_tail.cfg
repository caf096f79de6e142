\* Prompts of up to two blocks over a small budget.
SPECIFICATION Spec
CONSTANTS
  Ids = {i1, i2}
  NoId = noid
  Prompts <- MCPrompts
  MaxBlocks = 2
  Trimmed = FALSE
  OptMaxTokens = 6
  OptMinTail = 2
  NoticeTokens = 1
INVARIANTS
  KeepsMinTail
\* MaybeCompact returns.
CHECK_DEADLOCK FALSE
