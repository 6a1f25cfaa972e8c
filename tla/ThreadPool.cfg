SPECIFICATION FairSpec
CONSTANTS
  Workers = {w1, w2, w3}
  NULL = NULL
  m_max_requests = 2
  MaxAppends = 4
INVARIANTS TypeOK NoLostWakeup
PROPERTY ImplementsWorkQueue
CHECK_DEADLOCK FALSE
