\* Two sessions of up to three memories, a listing of two, jobs and replies of up
\* to two items.
SPECIFICATION FairSpec
CONSTANTS
  Writers = {w1}
  NumSessions = 2
  NumKeys = 3
  MaxRowsLoad = 2
  MinRowsToRun = 2
  MaxRowsOutput = 2
  MaxItems = 2
  MaxWrites = 4
PROPERTIES
  NeverEmptied
  LossExplained
  AllOrNothing
  PassEnds
