CONSTANTS
  a = a
  b = b
  Request <- ShortAndLong
  Window = 1
  MaxRequests = 1
  Listing = {}
  LongLen = 4
  NoText = NoText
  TooLong = TooLong
  client_max_msg = 6
  ReplyLen = 3
  k_max_args = 1
  k_max_msg = 6
  k_read = 3
  SocketSize = 3
SPECIFICATION FairSpec
PROPERTY EveryAnswered
CHECK_DEADLOCK FALSE
