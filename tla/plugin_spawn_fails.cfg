CONSTANTS
  t1 = t1
  t2 = t2
  a1 = a1
  a2 = a2
  a3 = a3
  Caller = {t1, t2}
  Agent = {a1, a2, a3}
  Monitor = Monitor
  NoThread = NoThread
  InvalidHandle = InvalidHandle
  BadWait = {"exited", "blocked"}
  SpawnCanFail = TRUE
SPECIFICATION SafetySpec
SYMMETRY Interchangeable
INVARIANTS
  NoStdTerminate
