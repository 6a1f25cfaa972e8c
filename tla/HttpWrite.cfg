\* Headers of 1 to 3 bytes, files of 0 to 2; one connection after another
\* until two have been broken off; the header is cut once at most.
CONSTANTS
  WRITE_BUFFER_SIZE = 5
  FileSizes = {0, 1, 2}
  Addresses = {a1, a2, a3}
  NULL = NULL
  MAP_FAILED = MAP_FAILED
  CutsHeaderOnce = TRUE
  MaxAborts = 2
SPECIFICATION FairSpec
INVARIANTS TypeOK RestIsDescribed SentInOrder UnmapsItsOwn LeaksAreAborts
PROPERTY WriteEnds
