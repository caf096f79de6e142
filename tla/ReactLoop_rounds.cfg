\* RunStreamed, two rounds, batches of up to two calls with distinct ids and an
\* empty name: the transcript, the client's view of it and the outcome.
SPECIFICATION Spec
CONSTANTS
  OptMaxTurns = 2
  OptMaxFailures = 2
  Streamed = TRUE
  CallIds = {i1, i2}
  ToolNames = {known}
  Registered = {known}
  NoName = NoName
  MaxBatch = 2
INVARIANTS
  TypeOK
  RoundsAnswered
  FinalEndsWithAnswer
  ClientSawReplies
PROPERTIES
  TurnShrinks
  ImplementsContract
\* A turn that returned takes no further step.
CHECK_DEADLOCK FALSE
