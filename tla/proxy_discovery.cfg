SPECIFICATION Spec
CONSTANTS
  t1 = t1  t2 = t2  r1 = r1  r2 = r2  r3 = r3
  Caller = {t1, t2}
  Request = {r1, r2, r3}
  Thread = Thread
  NoThread = NoThread
  NoRequest = NoRequest
  NoProxies = NoProxies
  ThreadCanFail = TRUE
  BuffersReused = TRUE
INVARIANTS EngineExclusive CallbackOnce NothingOutlives
PROPERTIES RequestsServed SyncOwnResult CallsReturn DiscoveryIsReported
