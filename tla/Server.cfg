CONSTANTS
  Client = {1, 2, 3}
  Fd = {1, 2}
  AnswerSize = 2
  ListingSize = 3
  SocketSize = 1
  NULL = NULL
SPECIFICATION FairSpec
INVARIANTS
  TypeOK
  PoolMatches
  NothingLost
  EndsOnlyAmidAnswer
PROPERTIES
  ClosesOnlyLeft
  Served
  Reclaimed
CHECK_DEADLOCK FALSE
