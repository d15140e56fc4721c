CONSTANTS
  a = a
  b = b
  Request <- Short
  Window = 2
  MaxRequests = 2
  Listing = {}
  LongLen = 4
  NoText = NoText
  TooLong = TooLong
  client_max_msg = 6
  ReplyLen = 4
  k_max_args = 1
  k_max_msg = 6
  k_read = 8
  SocketSize = 8
SPECIFICATION Spec
INVARIANT ExecutedAsSent
CHECK_DEADLOCK FALSE
