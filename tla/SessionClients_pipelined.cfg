\* Two sessions over Redis, clients that send ahead, connections that break.
SPECIFICATION ClientsSpec
CONSTANTS
  Handlers = {h1, h2}
  Keys = {k1, k2}
  Backends = {"redis"}
  MaxMessages = 4
  DatabaseURL = TRUE
  Exclusive = FALSE
  Faults = FALSE
  Restarts = FALSE
  MaxSent = 3
  NoConn = NoConn
INVARIANTS
  AnswersOwnMessage
  ConversationInOrder
PROPERTIES
  OneTurnAtATime
\* The clients may stop sending.
CHECK_DEADLOCK FALSE
