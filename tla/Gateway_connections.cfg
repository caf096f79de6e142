\* Two connections of one IP, a budget of one message in two ticks, goroutines
\* that lose up to a tick before the lock, turns of up to a frame.
SPECIFICATION FairServerSpec
CONSTANTS
  ip1 = ip1
  Conns = {c1, c2}
  IPs = {ip1}
  clientIP <- OneAddress
  MaxPerMin = 1
  Window = 2
  MaxDelay = 1
  MaxTime = 3
  MaxMsgs = 2
  MaxFrames = 1
INVARIANTS
  OneWriter
  WindowBound
PROPERTIES
  RefusalsJustified
  ConnectionsSettled
\* All connections may be gone.
CHECK_DEADLOCK FALSE
