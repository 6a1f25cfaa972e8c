\* The requests of MCHttpParse; a buffer of 14 characters, which the login
\* form fills and one request exceeds, and a byte of as many values; names of
\* one character fit; bodies arrive in one piece.  A process that goes astray
\* stops.
CONSTANTS
  READ_BUFFER_SIZE = 14
  Byte = 14
  NAME_SIZE = 2
  INT_MAX <- MCIntMax
  Requests <- MCRequests
  BodyInOnePiece = TRUE
SPECIFICATION FairSpec
INVARIANTS Positions AnswerIsRight CredsAreOwn CompleteIsAnswered
PROPERTIES NothingLeftOver ParseEnds
CHECK_DEADLOCK FALSE
