SPECIFICATION Spec
CONSTANTS
  Procs = {p1, p2}
  NoProc = NoProc
INVARIANT OneSupervisor
INVARIANT LoggerOutlivesModules
PROPERTY PendingEnds
CHECK_DEADLOCK FALSE
