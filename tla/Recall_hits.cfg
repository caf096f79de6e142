\* Three memories, nobody writes during the recall.
SPECIFICATION RecallSpec
CONSTANTS
  Limit = 2
  MatchExtra = 1
  RecentExtra = 3
  MaxFirst = 3
  MaxWrites = 0
  MaxMerged = 0
INVARIANTS
  HitsKept
\* The recall ends.
CHECK_DEADLOCK FALSE
