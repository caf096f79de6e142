\* No PostgreSQL, one client that waits for its answer.
SPECIFICATION Spec
CONSTANTS
  Handlers = {h1, h2}
  Keys = {k1}
  Backends = {"memory"}
  MaxMessages = 4
  DatabaseURL = FALSE
  Exclusive = TRUE
  Faults = FALSE
  Restarts = FALSE
  MaxSent = 1
INVARIANTS
  NoPanic
\* The clients may stop sending.
CHECK_DEADLOCK FALSE
