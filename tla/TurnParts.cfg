SPECIFICATION PartsSpec
CONSTANTS
  \* Compaction: prompts of up to three blocks, some with a head cut by the
  \* session store.
  Ids = {i1, i2}
  NoId = noid
  Prompts <- MCPrompts
  MaxBlocks = 3
  Trimmed = TRUE
  OptMaxTokens = 6
  OptMinTail = 2
  NoticeTokens = 1
  \* Recall: up to three memories at first, two writes or passes meanwhile.
  Limit = 2
  MatchExtra = 1
  RecentExtra = 3
  MaxFirst = 3
  MaxWrites = 2
  MaxMerged = 2
  \* Planner: two turns, two sessions, two lists of up to two tasks.
  Turns = {t1, t2}
  Sessions = {s1, s2}
  TaskIds = {a, b}
  Orders = {0, 1}
  MaxTasks = 2
  MaxPlans = 2
  \* Pruning: limits around and between the length of the ellipsis, with and
  \* without the margin, and of the result.
  EllipsisLen = 3
  Margin = 2
  Limits = {1, 3, 5, 6, 7, 9}
  MaxResult = 12
  \* Streams of up to three tool calls with up to two fragments of arguments.
  MaxCalls = 3
  MaxFrags = 2
  MaxPieces = 1
  \* Splitting: every stream of eight characters in chunks of up to four.
  Chars = {"<", "/", "t", ">"}
  tagOpen <- MCOpen
  tagClose <- MCClose
  MaxText = 8
  MaxChunk = 4
INVARIANTS
  WholeRounds
  KeepsNewest
  BudgetOrTail
  DropsOnlyNeeded
  PlacesUsed
  StaleExplained
  PruningHonest
  WholeReply
  PartialReply
  SplitRight
PROPERTIES
  DoneLeavesFocus
\* Compaction, recall, streams and splitting end.
CHECK_DEADLOCK FALSE
