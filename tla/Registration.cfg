SPECIFICATION FormsFairSpec
CONSTANTS
  Threads = {t1, t2}
  Conns = {k1, k2}
  NULL = NULL
  MaxInterrupts = 2
  Names = {n1}
  Passwords = {p1, p2}
  Absent = Absent
  UniqueNames = TRUE
  MaxForms = 3
  MaxFailures = 1
INVARIANTS
  FormsTypeOK RegisteredCanLogIn RestartKeepsAccounts
  OneUser ReserveCounts GetsConnection
PROPERTY WaiterIsServed
CHECK_DEADLOCK FALSE
