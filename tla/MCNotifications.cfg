\* A notification and its replacement, and a client that remembers an id of an
\* earlier run; a bus that fails once.
CONSTANTS
  OldIds = {1}
  LocalBase = 2
  Foreground = TRUE
  MaxPushes = 2
  MaxAsked = 1
  MaxFailures = 1
SPECIFICATION FairSpec
INVARIANTS
  TypeOK
  
  TimeoutIsPending
  FreshIdsAreFree
PROPERTIES
  LeavingIsAnnounced
  EveryNotificationCloses
CHECK_DEADLOCK FALSE
