\* A memory written while the model is asked; the LIMIT is not in play.
SPECIFICATION Spec
CONSTANTS
  Writers = {w1}
  NumSessions = 1
  NumKeys = 2
  MaxRowsLoad = 3
  MinRowsToRun = 1
  MaxRowsOutput = 1
  MaxItems = 1
  MaxWrites = 3
PROPERTIES
  NoUnseenLoss
