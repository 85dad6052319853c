SPECIFICATION FairSpec
CONSTANTS
  server = server
  gui = gui
  Subscribers <- MCSubscribers
  BufSize <- MCBufSize
  MaxEvents = 3
CHECK_DEADLOCK FALSE
INVARIANTS
  TypeOK
  NoPanic
  EveryEventAccountedFor
PROPERTIES
  LockIsReleased
  ReadersReleased
  ImplementsFeed
