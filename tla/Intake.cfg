SPECIFICATION FairSpec
CONSTANTS
  Levels = {3, 7}
  RingSize = 2
  MaxLevelStore = 6
  Scopes <- MCScopes
  Names <- MCNames
  Program = "prog"
  Messages <- MCMessages
  QueueSize = 2
  MaxLevelSyslog = 6
INVARIANTS
  KernelOnce
  KernelMissesTold
  MessagesAsSent
PROPERTY
  Served
CHECK_DEADLOCK FALSE
