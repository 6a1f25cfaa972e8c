SPECIFICATION FormsSpec
CONSTANTS
  Threads = {t1}
  Conns = {k1}
  NULL = NULL
  MaxInterrupts = 0
  Names = {n1}
  Passwords = {p1, p2}
  Absent = Absent
  UniqueNames = TRUE
  MaxForms = 3
  MaxFailures = 1
INVARIANT WelcomeIsInTable
CHECK_DEADLOCK FALSE
