CONSTANTS
  Client = {1, 2, 3}
  Fd = {1, 2}
  AnswerSize = 2
  ListingSize = 3
  SocketSize = 1
  NULL = NULL
SPECIFICATION FairSpec
PROPERTY AcceptedServed
CHECK_DEADLOCK FALSE
