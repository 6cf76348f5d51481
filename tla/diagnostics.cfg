SPECIFICATION Spec
CONSTANTS
  t1 = t1  t2 = t2  t3 = t3
  Tool = {t1, t2, t3}
  User = User
  File = {log}
  MaxTime = 2
SYMMETRY Interchangeable
INVARIANTS RelaunchedOnce NoForeignFiles NoStrayHandler
CHECK_DEADLOCK FALSE
