SPECIFICATION FairSpec
CONSTANTS
  Writers = {w1, w2}
  flusher = flusher
  Items <- MCItems
  Consumers <- MCConsumers
  NULL = NULL
  m_max_size = 2
  m_split_lines = 2
  MaxLines = 2
  MaxDay = 1
INVARIANTS TypeOK EachLineOnce OrderKept FilesAreSplit FlushedIsInFile
PROPERTIES StaysOnToday ImplementsWorkQueue
CHECK_DEADLOCK FALSE
