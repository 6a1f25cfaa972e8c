\* As HttpParse.cfg, with bodies that may arrive in pieces.
CONSTANTS
  READ_BUFFER_SIZE = 14
  Byte = 14
  NAME_SIZE = 2
  INT_MAX <- MCIntMax
  Requests <- MCRequests
  BodyInOnePiece = FALSE
SPECIFICATION Spec
INVARIANT CompleteIsAnswered
CHECK_DEADLOCK FALSE
