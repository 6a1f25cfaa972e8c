SPECIFICATION FairSpec
CONSTANTS
  Fds = {5, 6}
  listenfd = 3
  pipefd = 4
  Conns = {c1, c2}
  None = None
  Workers = {w1}
  MAX_FD = 2
  MaxRequests = 1
  Life = 1
  Chunks = 1
  WorkerCloses = TRUE
  Prompt = FALSE
INVARIANTS NoDanglingTimer OpenHasTimer
PROPERTIES SilentIsClosed DisarmedIsSettled
