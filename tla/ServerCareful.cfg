SPECIFICATION Spec
CONSTANTS
  Fds = {5, 6, 7}
  listenfd = 3
  pipefd = 4
  Conns = {c1, c2, c3}
  None = None
  Workers = {w1, w2}
  MAX_FD = 2
  MaxRequests = 1
  Life = 2
  Chunks = 2
  WorkerCloses = FALSE
  Prompt = TRUE
SYMMETRY Symmetry
INVARIANTS TypeOK OneOwner AnswersOwnRequest
PROPERTY TickClosesItsOwn
