\* In-process store, two handlers of one session.
SPECIFICATION Spec
CONSTANTS
  Handlers = {h1, h2}
  Keys = {k1}
  Backends = {"memory"}
  MaxMessages = 4
  DatabaseURL = TRUE
  Exclusive = FALSE
  Faults = FALSE
  Restarts = FALSE
  MaxSent = 2
INVARIANTS
  AnswersOwnMessage
\* The clients may stop sending.
CHECK_DEADLOCK FALSE
