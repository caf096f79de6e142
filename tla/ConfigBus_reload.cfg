\* Two settings of the client and one more, two snapshots, lost
\* notices, unreadable snapshots and a restart.
SPECIFICATION FairSpec
CONSTANTS
  ClientKeys = {base, token}
  Required = {base}
  OtherKeys = {auth}
  Callbacks = {c1, c2}
  Faults = TRUE
  MaxUpdates = 2
  MaxRestarts = 1
INVARIANTS
  ClientWhole
  RebuildSucceeds
PROPERTIES
  NeverOlder
  EventuallyInSync
\* Nothing more may change.
CHECK_DEADLOCK FALSE
