SPECIFICATION Spec
CONSTANTS
  Fds = {5}
  listenfd = 3
  pipefd = 4
  Conns = {c1}
  None = None
  Workers = {w1}
  MAX_FD = 1
  MaxRequests = 1
  Life = 1
  Chunks = 1
  WorkerCloses = TRUE
  Prompt = TRUE
INVARIANT UserCountExact
