CONSTANTS
  a = a
  b = b
  Request <- Mixed
  Window = 3
  MaxRequests = 3
  Listing <- Listings
  LongLen = 5
  NoText = NoText
  TooLong = TooLong
  client_max_msg = 4
  ReplyLen = 2
  k_max_args = 1
  k_max_msg = 4
  k_read = 8
  SocketSize = 6
SPECIFICATION FairSpec
INVARIANTS
  TypeOK
  FlagsFitBuffers
  FramesAligned
  AnswersAligned
PROPERTIES
  Answered
  Refines
CHECK_DEADLOCK FALSE
