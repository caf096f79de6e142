\* Either store; turns share the sessions, and the process restarts, with PostgreSQL
\* or without. Over Redis turns interleave command by command, pipelines and reads
\* fail and keys expire.
SPECIFICATION Spec
CONSTANTS
  Handlers = {h1, h2}
  Keys = {k1, k2}
  Backends = {"memory", "redis"}
  MaxMessages = 2
  DatabaseURL = TRUE
  Exclusive = FALSE
  Faults = TRUE
  Restarts = TRUE
  MaxSent = 2
INVARIANTS
  TypeOK
  StoredIsRecent
  StoreBounded
  RoundsContiguous
  OnlyAnsweredStored
\* The clients may stop sending.
CHECK_DEADLOCK FALSE
