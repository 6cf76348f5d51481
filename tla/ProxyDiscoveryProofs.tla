------------------------ MODULE ProxyDiscoveryProofs ------------------------
(***************************************************************************)
(* Theorems about ProxyDiscovery, for any set of callers and any set of     *)
(* requests, whether or not the discovery thread can be created.           *)
(*                                                                         *)
(* The argument: IInv is inductive. The mutexes are held exactly in the     *)
(* sections they guard, so the engine has one user; m_threadRunning tells  *)
(* of the detached thread, so its end can be waited for; and a callback is  *)
(* stored only once and forgotten before the next one can be called.       *)
(***************************************************************************)
EXTENDS ProxyDiscovery, TLAPS

(* Every step keeps the variables in their types.                            *)
LEMMA TypeStep == TypeOK /\ RequestsFit /\ LifeFits /\ [Next]_vars => TypeOK'
  <1> SUFFICES ASSUME TypeOK, RequestsFit, LifeFits, [Next]_vars
               PROVE  TypeOK'
    OBVIOUS
  <1>types. /\ Request \subseteq Proxies /\ NoProxies \in Proxies
            /\ Caller \subseteq Owner /\ Thread \in Owner /\ NoThread \in Owner
    BY DEF Proxies, Owner
  <1>reqs. /\ \A t \in Caller : pc[t] # "idle" => req[t] \in Request
           /\ thread # "none" => url \in Request
    BY DEF TypeOK, RequestsFit, LifeFits
  <1> USE <1>types, <1>reqs DEF TypeOK, configVars, threadVars, engineVars, callVars, GoTo
  <1>1. ASSUME NEW t \in Caller, NEW r \in Request, CallAsync(t, r) \/ CallSync(t, r)
        PROVE  TypeOK'
    <2>1. CASE CallAsync(t, r)
      BY <1>1, <2>1 DEF CallAsync, New
    <2>2. CASE CallSync(t, r)
      BY <1>1, <2>2 DEF CallSync, New
    <2> QED
      BY <1>1, <2>1, <2>2
  <1>2. ASSUME NEW t \in Caller, CallerSteps(t)
        PROVE  TypeOK'
    <2>1. CASE AsyncLock(t)
      BY <1>2, <2>1 DEF AsyncLock
    <2>2. CASE AsyncStart(t)
      BY <1>2, <2>2 DEF AsyncStart, MayStart
    <2>3. CASE AsyncReturn(t)
      BY <1>2, <2>3 DEF AsyncReturn
    <2>4. CASE SyncInit(t)
      BY <1>2, <2>4 DEF SyncInit, EngineFree, ListCleared
    <2>5. CASE SyncDiscovered(t)
      BY <1>2, <2>5 DEF SyncDiscovered, Discovered, FoundByMethods
    <2>6. CASE SyncReturn(t)
      BY <1>2, <2>6 DEF SyncReturn, Answer
    <2> QED
      BY <1>2, <2>1, <2>2, <2>3, <2>4, <2>5, <2>6 DEF CallerSteps
  <1>3. CASE ThreadSteps
    <2>1. CASE ThreadInit
      BY <2>1 DEF ThreadInit, EngineFree, ListCleared
    <2>2. CASE ThreadDiscovered
      BY <2>2 DEF ThreadDiscovered, FoundByThread, Discovered, FoundByMethods
    <2>3. CASE ThreadGet
      BY <2>3 DEF ThreadGet
    <2>4. CASE ThreadNotify
      BY <2>4 DEF ThreadNotify, ConsumersFree, HasConsumer
    <2>5. CASE ThreadConsumer
      <3>1. CASE m_proxy_cb = NoRequest
        BY <2>5, <3>1 DEF ThreadConsumer
      <3>2. CASE m_proxy_cb # NoRequest
        <4>1. m_proxy_cb \in Request /\ Append(answers[m_proxy_cb], found) \in Seq(Proxies)
          BY <3>2
        <4>2. answers' \in [Request -> Seq(Proxies)]
          BY <2>5, <3>2, <4>1 DEF ThreadConsumer, Answer
        <4> QED
          BY <2>5, <3>2, <4>1, <4>2 DEF ThreadConsumer
      <3> QED
        BY <3>1, <3>2
    <2>6. CASE ThreadCalledBack
      BY <2>6 DEF ThreadCalledBack, ForgetCallback
    <2>7. CASE ThreadEnd
      BY <2>7 DEF ThreadEnd, ThreadStopped
    <2> QED
      BY <1>3, <2>1, <2>2, <2>3, <2>4, <2>5, <2>6, <2>7 DEF ThreadSteps
  <1>4. CASE Unregister
    BY <1>4 DEF Unregister, ConsumersFree
  <1>5. CASE Shutdown
    BY <1>5 DEF Shutdown
  <1>6. CASE Drain
    BY <1>6 DEF Drain, Drained
  <1>7. CASE UNCHANGED vars
    BY <1>7 DEF vars, New
  <1> QED
    BY <1>1, <1>2, <1>3, <1>4, <1>5, <1>6, <1>7 DEF Next, Teardown, Terminated

(* A mutex is held exactly inside the sections it guards.                     *)
LEMMA MutexesStep == TypeOK /\ MutexesFit /\ LifeFits /\ [Next]_vars => MutexesFit'
  <1> SUFFICES ASSUME TypeOK, MutexesFit, LifeFits, [Next]_vars
               PROVE  MutexesFit'
    OBVIOUS
  <1> USE ProxyAssumption DEF TypeOK, MutexesFit, LifeFits, Owner, configVars, threadVars,
        engineVars, callVars, GoTo
  <1>1. ASSUME NEW t \in Caller, NEW r \in Request, CallAsync(t, r) \/ CallSync(t, r)
        PROVE  MutexesFit'
    <2>1. CASE CallAsync(t, r)
      BY <1>1, <2>1 DEF CallAsync, New
    <2>2. CASE CallSync(t, r)
      BY <1>1, <2>2 DEF CallSync, New
    <2> QED
      BY <1>1, <2>1, <2>2
  <1>2. ASSUME NEW t \in Caller, CallerSteps(t)
        PROVE  MutexesFit'
    <2>1. CASE AsyncLock(t)
      BY <1>2, <2>1 DEF AsyncLock
    <2>2. CASE AsyncStart(t)
      BY <1>2, <2>2 DEF AsyncStart, MayStart
    <2>3. CASE AsyncReturn(t)
      BY <1>2, <2>3 DEF AsyncReturn
    <2>4. CASE SyncInit(t)
      BY <1>2, <2>4 DEF SyncInit, EngineFree, ListCleared
    <2>5. CASE SyncDiscovered(t)
      BY <1>2, <2>5 DEF SyncDiscovered, Discovered, FoundByMethods
    <2>6. CASE SyncReturn(t)
      BY <1>2, <2>6 DEF SyncReturn, Answer
    <2> QED
      BY <1>2, <2>1, <2>2, <2>3, <2>4, <2>5, <2>6 DEF CallerSteps
  <1>3. CASE ThreadSteps
    <2>1. CASE ThreadInit
      BY <2>1 DEF ThreadInit, EngineFree, ListCleared
    <2>2. CASE ThreadDiscovered
      BY <2>2 DEF ThreadDiscovered, FoundByThread, Discovered, FoundByMethods
    <2>3. CASE ThreadGet
      BY <2>3 DEF ThreadGet
    <2>4. CASE ThreadNotify
      BY <2>4 DEF ThreadNotify, ConsumersFree, HasConsumer
    <2>5. CASE ThreadConsumer
      BY <2>5 DEF ThreadConsumer, Answer
    <2>6. CASE ThreadCalledBack
      BY <2>6 DEF ThreadCalledBack, ForgetCallback
    <2>7. CASE ThreadEnd
      BY <2>7 DEF ThreadEnd, ThreadStopped
    <2> QED
      BY <1>3, <2>1, <2>2, <2>3, <2>4, <2>5, <2>6, <2>7 DEF ThreadSteps
  <1>4. CASE Unregister
    BY <1>4 DEF Unregister, ConsumersFree
  <1>5. CASE Shutdown
    BY <1>5 DEF Shutdown
  <1>6. CASE Drain
    BY <1>6 DEF Drain, Drained
  <1>7. CASE UNCHANGED vars
    BY <1>7 DEF vars, New
  <1> QED
    BY <1>1, <1>2, <1>3, <1>4, <1>5, <1>6, <1>7 DEF Next, Teardown, Terminated

(* The flags follow the thread and the destructors.                           *)
LEMMA LifeStep == TypeOK /\ MutexesFit /\ LifeFits /\ RequestsFit /\ [Next]_vars => LifeFits'
  <1> SUFFICES ASSUME TypeOK, MutexesFit, LifeFits, RequestsFit, [Next]_vars
               PROVE  LifeFits'
    OBVIOUS
  <1> USE ProxyAssumption DEF TypeOK, MutexesFit, LifeFits, RequestsFit, Owner, configVars,
        threadVars, engineVars, callVars, GoTo
  <1>1. ASSUME NEW t \in Caller, NEW r \in Request, CallAsync(t, r) \/ CallSync(t, r)
        PROVE  LifeFits'
    <2>1. CASE CallAsync(t, r)
      BY <1>1, <2>1 DEF CallAsync, New
    <2>2. CASE CallSync(t, r)
      BY <1>1, <2>2 DEF CallSync, New
    <2> QED
      BY <1>1, <2>1, <2>2
  <1>2. ASSUME NEW t \in Caller, CallerSteps(t)
        PROVE  LifeFits'
    <2>1. CASE AsyncLock(t)
      BY <1>2, <2>1 DEF AsyncLock
    <2>2. CASE AsyncStart(t)
      BY <1>2, <2>2 DEF AsyncStart, MayStart
    <2>3. CASE AsyncReturn(t)
      BY <1>2, <2>3 DEF AsyncReturn
    <2>4. CASE SyncInit(t)
      BY <1>2, <2>4 DEF SyncInit, EngineFree, ListCleared
    <2>5. CASE SyncDiscovered(t)
      BY <1>2, <2>5 DEF SyncDiscovered, Discovered, FoundByMethods
    <2>6. CASE SyncReturn(t)
      BY <1>2, <2>6 DEF SyncReturn, Answer
    <2> QED
      BY <1>2, <2>1, <2>2, <2>3, <2>4, <2>5, <2>6 DEF CallerSteps
  <1>3. CASE ThreadSteps
    <2>1. CASE ThreadInit
      BY <2>1 DEF ThreadInit, EngineFree, ListCleared
    <2>2. CASE ThreadDiscovered
      BY <2>2 DEF ThreadDiscovered, FoundByThread, Discovered, FoundByMethods
    <2>3. CASE ThreadGet
      BY <2>3 DEF ThreadGet
    <2>4. CASE ThreadNotify
      BY <2>4 DEF ThreadNotify, ConsumersFree, HasConsumer
    <2>5. CASE ThreadConsumer
      BY <2>5 DEF ThreadConsumer, Answer
    <2>6. CASE ThreadCalledBack
      BY <2>6 DEF ThreadCalledBack, ForgetCallback
    <2>7. CASE ThreadEnd
      BY <2>7 DEF ThreadEnd, ThreadStopped
    <2> QED
      BY <1>3, <2>1, <2>2, <2>3, <2>4, <2>5, <2>6, <2>7 DEF ThreadSteps
  <1>4. CASE Unregister
    BY <1>4 DEF Unregister, ConsumersFree
  <1>5. CASE Shutdown
    BY <1>5 DEF Shutdown
  <1>6. CASE Drain
    BY <1>6 DEF Drain, Drained
  <1>7. CASE UNCHANGED vars
    BY <1>7 DEF vars, New
  <1> QED
    BY <1>1, <1>2, <1>3, <1>4, <1>5, <1>6, <1>7 DEF Next, Teardown, Terminated

(* A request keeps its one caller until its call returns.                     *)
LEMMA RequestsStep == TypeOK /\ RequestsFit /\ [Next]_vars => RequestsFit'
  <1> SUFFICES ASSUME TypeOK, RequestsFit, [Next]_vars
               PROVE  RequestsFit'
    OBVIOUS
  <1> USE ProxyAssumption DEF TypeOK, RequestsFit, configVars, threadVars, engineVars,
        callVars, GoTo
  <1>1. ASSUME NEW t \in Caller, NEW r \in Request, CallAsync(t, r) \/ CallSync(t, r)
        PROVE  RequestsFit'
    <2>1. CASE CallAsync(t, r)
      BY <1>1, <2>1 DEF CallAsync, New
    <2>2. CASE CallSync(t, r)
      BY <1>1, <2>2 DEF CallSync, New
    <2> QED
      BY <1>1, <2>1, <2>2
  <1>2. ASSUME NEW t \in Caller, CallerSteps(t)
        PROVE  RequestsFit'
    <2>1. CASE AsyncLock(t)
      BY <1>2, <2>1 DEF AsyncLock
    <2>2. CASE AsyncStart(t)
      BY <1>2, <2>2 DEF AsyncStart, MayStart
    <2>3. CASE AsyncReturn(t)
      BY <1>2, <2>3 DEF AsyncReturn
    <2>4. CASE SyncInit(t)
      BY <1>2, <2>4 DEF SyncInit, EngineFree, ListCleared
    <2>5. CASE SyncDiscovered(t)
      BY <1>2, <2>5 DEF SyncDiscovered, Discovered, FoundByMethods
    <2>6. CASE SyncReturn(t)
      BY <1>2, <2>6 DEF SyncReturn, Answer
    <2> QED
      BY <1>2, <2>1, <2>2, <2>3, <2>4, <2>5, <2>6 DEF CallerSteps
  <1>3. CASE ThreadSteps
    <2>1. CASE ThreadInit
      BY <2>1 DEF ThreadInit, EngineFree, ListCleared
    <2>2. CASE ThreadDiscovered
      BY <2>2 DEF ThreadDiscovered, FoundByThread, Discovered, FoundByMethods
    <2>3. CASE ThreadGet
      BY <2>3 DEF ThreadGet
    <2>4. CASE ThreadNotify
      BY <2>4 DEF ThreadNotify, ConsumersFree, HasConsumer
    <2>5. CASE ThreadConsumer
      BY <2>5 DEF ThreadConsumer, Answer
    <2>6. CASE ThreadCalledBack
      BY <2>6 DEF ThreadCalledBack, ForgetCallback
    <2>7. CASE ThreadEnd
      BY <2>7 DEF ThreadEnd, ThreadStopped
    <2> QED
      BY <1>3, <2>1, <2>2, <2>3, <2>4, <2>5, <2>6, <2>7 DEF ThreadSteps
  <1>4. CASE Unregister
    BY <1>4 DEF Unregister, ConsumersFree
  <1>5. CASE Shutdown
    BY <1>5 DEF Shutdown
  <1>6. CASE Drain
    BY <1>6 DEF Drain, Drained
  <1>7. CASE UNCHANGED vars
    BY <1>7 DEF vars, New
  <1> QED
    BY <1>1, <1>2, <1>3, <1>4, <1>5, <1>6, <1>7 DEF Next, Teardown, Terminated

(* The engine's list belongs to the caller inside.                            *)
LEMMA EngineStep == TypeOK /\ MutexesFit /\ RequestsFit /\ EngineFits /\ [Next]_vars => EngineFits'
  <1> SUFFICES ASSUME TypeOK, MutexesFit, RequestsFit, EngineFits, [Next]_vars
               PROVE  EngineFits'
    OBVIOUS
  <1> USE ProxyAssumption DEF TypeOK, MutexesFit, RequestsFit, EngineFits, Owner,
        configVars, threadVars, engineVars, callVars, GoTo
  <1>1. ASSUME NEW t \in Caller, NEW r \in Request, CallAsync(t, r) \/ CallSync(t, r)
        PROVE  EngineFits'
    <2>1. CASE CallAsync(t, r)
      BY <1>1, <2>1 DEF CallAsync, New
    <2>2. CASE CallSync(t, r)
      BY <1>1, <2>2 DEF CallSync, New
    <2> QED
      BY <1>1, <2>1, <2>2
  <1>2. ASSUME NEW t \in Caller, CallerSteps(t)
        PROVE  EngineFits'
    <2>1. CASE AsyncLock(t)
      BY <1>2, <2>1 DEF AsyncLock
    <2>2. CASE AsyncStart(t)
      BY <1>2, <2>2 DEF AsyncStart, MayStart
    <2>3. CASE AsyncReturn(t)
      BY <1>2, <2>3 DEF AsyncReturn
    <2>4. CASE SyncInit(t)
      BY <1>2, <2>4 DEF SyncInit, EngineFree, ListCleared
    <2>5. CASE SyncDiscovered(t)
      BY <1>2, <2>5 DEF SyncDiscovered, Discovered, FoundByMethods
    <2>6. CASE SyncReturn(t)
      BY <1>2, <2>6 DEF SyncReturn, Answer
    <2> QED
      BY <1>2, <2>1, <2>2, <2>3, <2>4, <2>5, <2>6 DEF CallerSteps
  <1>3. CASE ThreadSteps
    <2>1. CASE ThreadInit
      BY <2>1 DEF ThreadInit, EngineFree, ListCleared
    <2>2. CASE ThreadDiscovered
      BY <2>2 DEF ThreadDiscovered, FoundByThread, Discovered, FoundByMethods
    <2>3. CASE ThreadGet
      BY <2>3 DEF ThreadGet
    <2>4. CASE ThreadNotify
      BY <2>4 DEF ThreadNotify, ConsumersFree, HasConsumer
    <2>5. CASE ThreadConsumer
      BY <2>5 DEF ThreadConsumer, Answer
    <2>6. CASE ThreadCalledBack
      BY <2>6 DEF ThreadCalledBack, ForgetCallback
    <2>7. CASE ThreadEnd
      BY <2>7 DEF ThreadEnd, ThreadStopped
    <2> QED
      BY <1>3, <2>1, <2>2, <2>3, <2>4, <2>5, <2>6, <2>7 DEF ThreadSteps
  <1>4. CASE Unregister
    BY <1>4 DEF Unregister, ConsumersFree
  <1>5. CASE Shutdown
    BY <1>5 DEF Shutdown
  <1>6. CASE Drain
    BY <1>6 DEF Drain, Drained
  <1>7. CASE UNCHANGED vars
    BY <1>7 DEF vars, New
  <1> QED
    BY <1>1, <1>2, <1>3, <1>4, <1>5, <1>6, <1>7 DEF Next, Teardown, Terminated

(* Answers come when they are due, and once.                                  *)
LEMMA AnswersStep == TypeOK /\ MutexesFit /\ RequestsFit /\ AnswersFit /\ [Next]_vars => AnswersFit'
  <1> SUFFICES ASSUME TypeOK, MutexesFit, RequestsFit, AnswersFit, [Next]_vars
               PROVE  AnswersFit'
    OBVIOUS
  <1> USE ProxyAssumption DEF TypeOK, MutexesFit, RequestsFit, AnswersFit, CallbackOnce,
        New, Owner, Proxies, configVars, threadVars, engineVars, callVars, GoTo
  <1>1. ASSUME NEW t \in Caller, NEW r \in Request, CallAsync(t, r) \/ CallSync(t, r)
        PROVE  AnswersFit'
    <2>1. CASE CallAsync(t, r)
      BY <1>1, <2>1 DEF CallAsync, New
    <2>2. CASE CallSync(t, r)
      BY <1>1, <2>2 DEF CallSync, New
    <2> QED
      BY <1>1, <2>1, <2>2
  <1>2. ASSUME NEW t \in Caller, CallerSteps(t)
        PROVE  AnswersFit'
    <2>1. CASE AsyncLock(t)
      BY <1>2, <2>1 DEF AsyncLock
    <2>2. CASE AsyncStart(t)
      BY <1>2, <2>2 DEF AsyncStart, MayStart
    <2>3. CASE AsyncReturn(t)
      BY <1>2, <2>3 DEF AsyncReturn
    <2>4. CASE SyncInit(t)
      BY <1>2, <2>4 DEF SyncInit, EngineFree, ListCleared
    <2>5. CASE SyncDiscovered(t)
      BY <1>2, <2>5 DEF SyncDiscovered, Discovered, FoundByMethods
    <2>6. CASE SyncReturn(t)
      BY <1>2, <2>6 DEF SyncReturn, Answer
    <2> QED
      BY <1>2, <2>1, <2>2, <2>3, <2>4, <2>5, <2>6 DEF CallerSteps
  <1>3. CASE ThreadSteps
    <2>1. CASE ThreadInit
      BY <2>1 DEF ThreadInit, EngineFree, ListCleared
    <2>2. CASE ThreadDiscovered
      BY <2>2 DEF ThreadDiscovered, FoundByThread, Discovered, FoundByMethods
    <2>3. CASE ThreadGet
      BY <2>3 DEF ThreadGet
    <2>4. CASE ThreadNotify
      BY <2>4 DEF ThreadNotify, ConsumersFree, HasConsumer
    <2>5. CASE ThreadConsumer
      BY <2>5 DEF ThreadConsumer, Answer
    <2>6. CASE ThreadCalledBack
      BY <2>6 DEF ThreadCalledBack, ForgetCallback
    <2>7. CASE ThreadEnd
      BY <2>7 DEF ThreadEnd, ThreadStopped
    <2> QED
      BY <1>3, <2>1, <2>2, <2>3, <2>4, <2>5, <2>6, <2>7 DEF ThreadSteps
  <1>4. CASE Unregister
    BY <1>4 DEF Unregister, ConsumersFree
  <1>5. CASE Shutdown
    BY <1>5 DEF Shutdown
  <1>6. CASE Drain
    BY <1>6 DEF Drain, Drained
  <1>7. CASE UNCHANGED vars
    BY <1>7 DEF vars, New
  <1> QED
    BY <1>1, <1>2, <1>3, <1>4, <1>5, <1>6, <1>7 DEF Next, Teardown, Terminated

LEMMA InitIInv == Init => IInv
  <1> SUFFICES ASSUME Init
               PROVE  IInv
    OBVIOUS
  <1>1. TypeOK
    <2>1. NoProxies \in Proxies /\ NoThread \in Owner
      BY DEF Proxies, Owner
    <2>2. <<>> \in Seq(Proxies)
      OBVIOUS
    <2> QED
      BY <2>1, <2>2 DEF Init, TypeOK
  <1>2. MutexesFit /\ LifeFits /\ RequestsFit /\ EngineFits
    BY ProxyAssumption DEF Init, MutexesFit, LifeFits, RequestsFit, EngineFits
  <1>3. AnswersFit
    BY ProxyAssumption DEF Init, AnswersFit, CallbackOnce, New
  <1> QED
    BY <1>1, <1>2, <1>3 DEF IInv

LEMMA StepKeepsIInv == IInv /\ [Next]_vars => IInv'
  BY TypeStep, MutexesStep, LifeStep, RequestsStep, EngineStep, AnswersStep DEF IInv

(* The inductive invariant holds in every reachable state.                    *)
THEOREM Invariance == SafetySpec => []IInv
  BY InitIInv, StepKeepsIInv, PTL DEF SafetySpec

(* Every variable keeps its type.                                             *)
THEOREM TypeCorrect == SafetySpec => []TypeOK
  <1>1. IInv => TypeOK
    BY DEF IInv
  <1> QED
    BY <1>1, Invariance, PTL

(* The engine never has two users (ProxyDiscoveryEngine.cpp:9).               *)
THEOREM EngineHasOneUser == SafetySpec => []EngineExclusive
  <1>1. IInv => EngineExclusive
    BY ProxyAssumption DEF IInv, TypeOK, MutexesFit, EngineExclusive, InEngine
  <1> QED
    BY <1>1, Invariance, PTL

(* No callback is called twice, nor kept after its call                       *)
(* (WindowsConfiguration::ProxiesDiscovered).                                 *)
THEOREM CalledBackOnce == SafetySpec => []CallbackOnce
  <1>1. IInv => CallbackOnce
    BY DEF IInv, AnswersFit
  <1> QED
    BY <1>1, Invariance, PTL

(* The detached thread and its callback end before the objects they use       *)
(* (~WindowsConfiguration, ~ThreadedProxyDiscovery).                          *)
THEOREM ObjectsOutliveThread == SafetySpec => []NothingOutlives
  <1>1. IInv => NothingOutlives
    BY DEF IInv, LifeFits, NothingOutlives
  <1> QED
    BY <1>1, Invariance, PTL

(* Who waits for a mutex: a caller for WindowsConfiguration's or the engine's, *)
(* the discovery thread for any of the three, the destructor for the          *)
(* consumers'.                                                                *)
CallerWaits(t) ==
  \/ pc[t] = "async" /\ m_proxyMutex # NoThread
  \/ pc[t] = "sync" /\ ~EngineFree
ThreadWaits ==
  \/ thread = "started" /\ ~EngineFree
  \/ thread = "notify" /\ ~ConsumersFree
  \/ thread = "consumer" /\ m_proxyMutex # NoThread

(* Who waits, waits for a thread that goes on: a caller that holds a mutex     *)
(* waits for none; the discovery thread may wait with m_consumerMutex held,    *)
(* but then for a caller. So there is always somebody who goes on, and the     *)
(* destructor waits only for the thread.                                      *)
SomebodyGoesOn ==
  /\ \A t \in Caller : m_proxyMutex = t \/ engineMutex = t => ~CallerWaits(t)
  /\ m_proxyMutex = Thread \/ engineMutex = Thread => ~ThreadWaits
  /\ ThreadWaits => \E t \in Caller : (m_proxyMutex = t \/ engineMutex = t) /\ ~CallerWaits(t)
  /\ \A t \in Caller : CallerWaits(t) =>
       \/ thread # "none" /\ ~ThreadWaits
       \/ \E u \in Caller : pc[u] # "idle" /\ ~CallerWaits(u)
  /\ ~ConsumersFree => thread \in {"consumer", "callback"}

(* However the three mutexes are nested, no circle of waiting threads arises,  *)
(* for any number of callers (WindowsConfiguration::StartProxyDiscoveryAsync,  *)
(* ProxiesDiscovered, ProxyDiscovery::NotifyConsumers, ProxyDiscoverySync).   *)
THEOREM NoCircularWait == SafetySpec => []SomebodyGoesOn
  <1>1. ASSUME IInv
        PROVE  SomebodyGoesOn
    <2> USE <1>1, ProxyAssumption
        DEF IInv, TypeOK, MutexesFit, Owner, CallerWaits, ThreadWaits, EngineFree, ConsumersFree
    <2>1. \A t \in Caller : m_proxyMutex = t \/ engineMutex = t => ~CallerWaits(t)
      OBVIOUS
    <2>2. m_proxyMutex = Thread \/ engineMutex = Thread => ~ThreadWaits
      OBVIOUS
    <2>3. ThreadWaits => \E t \in Caller : (m_proxyMutex = t \/ engineMutex = t) /\ ~CallerWaits(t)
      OBVIOUS
    <2>4. ASSUME NEW t \in Caller, CallerWaits(t)
          PROVE  \/ thread # "none" /\ ~ThreadWaits
                 \/ \E u \in Caller : pc[u] # "idle" /\ ~CallerWaits(u)
      BY <2>1, <2>2, <2>4
    <2>5. ~ConsumersFree => thread \in {"consumer", "callback"}
      OBVIOUS
    <2> QED
      BY <2>1, <2>2, <2>3, <2>4, <2>5 DEF SomebodyGoesOn
  <1> QED
    BY <1>1, Invariance, PTL

(* A synchronous discovery returns its own result                             *)
(* (WindowsConfiguration::StartProxyDiscovery).                               *)
THEOREM SyncIsSeparate == SafetySpec => SyncOwnResult
  <1> DEFINE A == \A t \in Caller : pc[t] = "get" /\ pc'[t] = "idle" =>
                   answers'[req[t]] \in {<<req[t]>>, <<NoProxies>>}
  <1>1. ASSUME IInv, [Next]_vars
        PROVE  [A]_vars
    <2> SUFFICES ASSUME NEW t \in Caller, pc[t] = "get", pc'[t] = "idle"
                 PROVE  answers'[req[t]] \in {<<req[t]>>, <<NoProxies>>}
      OBVIOUS
    <2>1. SyncReturn(t)
      BY <1>1 DEF IInv, TypeOK, Next, vars, CallerSteps, ThreadSteps, Teardown, Terminated,
        CallAsync, CallSync, AsyncLock, AsyncStart, AsyncReturn, SyncInit, SyncDiscovered,
        SyncReturn, ThreadInit, ThreadDiscovered, ThreadGet, ThreadNotify, ThreadConsumer,
        ThreadCalledBack, ThreadEnd, Unregister, Shutdown, Drain, GoTo, callVars
    <2>2. answers[req[t]] = <<>> /\ req[t] \in Request
      BY <1>1 DEF IInv, TypeOK, AnswersFit, RequestsFit
    <2>3. m_proxyList \in {req[t], NoProxies}
      BY <1>1 DEF IInv, EngineFits
    <2>4. answers'[req[t]] = Append(<<>>, m_proxyList)
      BY <1>1, <2>1, <2>2 DEF SyncReturn, Answer, IInv, TypeOK
    <2>5. Append(<<>>, m_proxyList) = <<m_proxyList>>
      OBVIOUS
    <2> QED
      BY <2>3, <2>4, <2>5
  <1> QED
    BY <1>1, Invariance, PTL DEF SafetySpec, SyncOwnResult

-----------------------------------------------------------------------------
(* The refinement of ProxyRequests.                                          *)

(* What the abstraction looks at.                                            *)
LEMMA Stutters ==
  ASSUME UNCHANGED <<returned, req, pc, answers, life>>, Waiting' = Waiting
  PROVE  UNCHANGED Abstract!requests
  BY DEF Abstract!requests, Made, Calls

LEMMA CallerRefines ==
  ASSUME IInv, NEW t \in Caller,
         CallerSteps(t) \/ \E r \in Request : CallAsync(t, r) \/ CallSync(t, r)
  PROVE  [Abstract!RequestsNext]_Abstract!requests
  <1> USE ProxyAssumption
  <1>1. /\ TypeOK /\ pc \in [Caller -> {"idle", "async", "start", "return", "sync", "init", "get"}]
        /\ req \in [Caller -> Request \cup {NoRequest}]
        /\ \A u \in Caller : pc[u] = "idle" <=> req[u] = NoRequest
        /\ \A u, v \in Caller : req[u] = req[v] /\ req[u] # NoRequest => u = v
    BY DEF IInv, TypeOK, RequestsFit
  <1>2. ASSUME NEW r \in Request, CallAsync(t, r) \/ CallSync(t, r)
        PROVE  Abstract!Make(r)
    <2>1. /\ life = "alive" /\ pc[t] = "idle" /\ r \notin Made
          /\ pc' \in {[pc EXCEPT ![t] = "async"], [pc EXCEPT ![t] = "sync"]}
          /\ req' = [req EXCEPT ![t] = r]
          /\ UNCHANGED <<m_proxy_cb, thread, returned, answers, life>>
      BY <1>2 DEF CallAsync, CallSync, GoTo, New, configVars, threadVars, Made
    <2>2. Made' = Made \cup {r}
      BY <1>1, <2>1 DEF Made
    <2>3. Calls' = Calls \cup {r}
      BY <1>1, <2>1 DEF Calls
    <2> QED
      BY <2>1, <2>2, <2>3 DEF Abstract!Make, Waiting
  <1>3. CASE AsyncLock(t)
    <2>1. /\ pc[t] = "async" /\ pc' = [pc EXCEPT ![t] = "start"] /\ m_proxy_cb' = req[t]
          /\ UNCHANGED <<thread, req, returned, answers, life>>
      BY <1>3 DEF AsyncLock, GoTo, threadVars
    <2>2. thread # "callback" /\ req[t] \in Request
      BY <1>1, <1>3 DEF AsyncLock, IInv, MutexesFit
    <2>3. req[t] \in Calls /\ Calls' = Calls \ {req[t]}
      BY <1>1, <2>1, <2>2 DEF Calls
    <2>4. Made' = Made /\ Waiting' = req[t]
      BY <2>1, <2>2 DEF Made, Waiting
    <2>5. Abstract!Wait(req[t])
      BY <2>1, <2>3, <2>4 DEF Abstract!Wait
    <2> QED
      BY <2>2, <2>5 DEF Abstract!RequestsNext
  <1>4. CASE AsyncStart(t)
    <2>1. /\ pc[t] = "start" /\ pc' = [pc EXCEPT ![t] = "return"] /\ thread' \in {thread, "started"}
          /\ UNCHANGED <<m_proxy_cb, req, returned, answers, life>>
      BY <1>4 DEF AsyncStart, GoTo, threadVars, configVars
    <2>2. thread # "callback"
      BY <1>1, <2>1 DEF IInv, MutexesFit
    <2>3. Calls' = Calls
      BY <1>1, <2>1 DEF Calls
    <2> QED
      BY <2>1, <2>2, <2>3 DEF Abstract!requests, Made, Waiting
  <1>5. CASE AsyncReturn(t)
    <2>1. /\ pc[t] = "return" /\ pc' = [pc EXCEPT ![t] = "idle"] /\ req' = [req EXCEPT ![t] = NoRequest]
          /\ returned' = returned \cup {req[t]} /\ UNCHANGED <<m_proxy_cb, thread, answers, life>>
      BY <1>5 DEF AsyncReturn, GoTo, threadVars
    <2>2. Made' = Made
      BY <1>1, <2>1 DEF Made
    <2>3. Calls' = Calls
      BY <1>1, <2>1 DEF Calls
    <2> QED
      BY <2>1, <2>2, <2>3 DEF Abstract!requests, Waiting
  <1>6. CASE SyncInit(t) \/ SyncDiscovered(t)
    <2>1. /\ pc[t] \in {"sync", "init"} /\ pc' \in {[pc EXCEPT ![t] = "init"], [pc EXCEPT ![t] = "get"]}
          /\ UNCHANGED <<m_proxy_cb, thread, req, returned, answers, life>>
      BY <1>6 DEF SyncInit, SyncDiscovered, GoTo, threadVars, configVars
    <2>2. Calls' = Calls
      BY <1>1, <2>1 DEF Calls
    <2> QED
      BY <2>1, <2>2 DEF Abstract!requests, Made, Waiting
  <1>7. CASE SyncReturn(t)
    <2>1. /\ pc[t] = "get" /\ pc' = [pc EXCEPT ![t] = "idle"] /\ req' = [req EXCEPT ![t] = NoRequest]
          /\ returned' = returned \cup {req[t]} /\ UNCHANGED <<m_proxy_cb, thread, life>>
          /\ answers' = [answers EXCEPT ![req[t]] = Append(@, m_proxyList)]
          /\ req[t] \in Request /\ m_proxyList \in {req[t], NoProxies}
      BY <1>1, <1>7 DEF SyncReturn, Answer, GoTo, threadVars, configVars, IInv, EngineFits
    <2>2. Made' = Made
      BY <1>1, <2>1 DEF Made
    <2>3. req[t] \in Calls /\ Calls' = Calls \ {req[t]}
      BY <1>1, <2>1 DEF Calls
    <2>4. Abstract!Reply(req[t])
      BY <2>1, <2>2, <2>3 DEF Abstract!Reply, Abstract!AnswerWith, Waiting
    <2> QED
      BY <2>1, <2>4 DEF Abstract!RequestsNext
  <1> QED
    BY <1>2, <1>3, <1>4, <1>5, <1>6, <1>7 DEF CallerSteps, Abstract!RequestsNext

LEMMA ThreadRefines ==
  ASSUME IInv, ThreadSteps
  PROVE  [Abstract!RequestsNext]_Abstract!requests
  <1> USE ProxyAssumption
  <1>1. CASE ThreadInit \/ ThreadDiscovered \/ ThreadGet \/ ThreadNotify \/ ThreadEnd
    BY <1>1, Stutters DEF ThreadInit, ThreadDiscovered, ThreadGet, ThreadNotify, ThreadEnd,
                          configVars, callVars, Waiting
  <1>2. CASE ThreadConsumer
    <2>1. UNCHANGED <<m_proxy_cb, callVars, life>> /\ thread = "consumer" /\ life = "alive"
          /\ found \in Proxies /\ m_proxy_cb \in Request \cup {NoRequest}
      BY <1>2 DEF ThreadConsumer, IInv, LifeFits, TypeOK
    <2>2. CASE m_proxy_cb = NoRequest
      BY <1>2, <2>1, <2>2, Stutters DEF ThreadConsumer, callVars, Waiting
    <2>3. CASE m_proxy_cb # NoRequest
      <3>1. /\ Waiting = m_proxy_cb /\ Waiting' = NoRequest /\ Made' = Made /\ Calls' = Calls
            /\ answers' = [answers EXCEPT ![m_proxy_cb] = Append(@, found)]
        BY <1>2, <2>1, <2>3 DEF ThreadConsumer, Answer, callVars, Waiting, Made, Calls
      <3>2. Abstract!Report(found)
        BY <2>1, <2>3, <3>1 DEF Abstract!Report, Abstract!AnswerWith
      <3> QED
        BY <2>1, <3>2 DEF Abstract!RequestsNext, Proxies
    <2> QED
      BY <2>2, <2>3
  <1>3. CASE ThreadCalledBack
    BY <1>3, Stutters DEF ThreadCalledBack, ForgetCallback, callVars, Waiting
  <1> QED
    BY <1>1, <1>2, <1>3 DEF ThreadSteps

LEMMA EndRefines ==
  ASSUME IInv, Unregister \/ Teardown \/ UNCHANGED vars
  PROVE  [Abstract!RequestsNext]_Abstract!requests
  <1>1. CASE Unregister
    <2>1. Calls = {} /\ UNCHANGED <<Made, Calls, Waiting, answers>> /\ life = "alive" /\ life' = "unregistered"
      BY <1>1 DEF Unregister, Calls, Made, Waiting, callVars, configVars, threadVars
    <2> QED
      BY <2>1 DEF Abstract!RequestsNext, Abstract!Close
  <1>2. CASE Teardown
    <2>1. life # "alive" /\ life' # "alive" /\ UNCHANGED <<Made, Calls, Waiting, answers>>
      BY <1>2 DEF Teardown, Shutdown, Drain, Calls, Made, Waiting, callVars, configVars, threadVars
    <2> QED
      BY <2>1 DEF Abstract!requests
  <1>3. CASE UNCHANGED vars
    BY <1>3, Stutters DEF vars, Waiting
  <1> QED
    BY <1>1, <1>2, <1>3

(* Whatever the mutexes, the detached thread and the destructors do, requests *)
(* are served as ProxyRequests says: each is answered once at most, an         *)
(* asynchronous one only while its callback is the one stored, none after the  *)
(* end (WindowsConfiguration, ThreadedProxyDiscovery, ProxyDiscovery).        *)
THEOREM ImplementsRequests == SafetySpec => RequestsServed
  <1>1. Init => Abstract!RequestsInit
    BY DEF Init, Abstract!RequestsInit, Made, Calls, Waiting
  <1>2. IInv /\ [Next]_vars => [Abstract!RequestsNext]_Abstract!requests
    <2> SUFFICES ASSUME IInv, [Next]_vars
                 PROVE  [Abstract!RequestsNext]_Abstract!requests
      OBVIOUS
    <2> QED
      BY CallerRefines, ThreadRefines, EndRefines DEF Next, Terminated
  <1> QED
    BY <1>1, <1>2, Invariance, PTL DEF SafetySpec, RequestsServed, Abstract!Requests
=============================================================================
