--------------------------- MODULE ProxyDiscovery ---------------------------
(***************************************************************************)
(* Proxy discovery in the agent: WindowsConfiguration asks for it, with a  *)
(* callback or synchronously; ThreadedProxyDiscovery runs a discovery on a *)
(* detached thread, one at a time; ProxyDiscovery lets one thread at a     *)
(* time into the engine and notifies its consumer, WindowsConfiguration,   *)
(* which calls the callback. At the end PmAgentContainer destroys          *)
(* WindowsConfiguration and then ThreadedProxyDiscovery.                   *)
(*                                                                         *)
(* What ThreadedProxyDiscovery does under its m_mutex never blocks, so each *)
(* of these sections is one step and the mutex is not modelled.            *)
(***************************************************************************)
EXTENDS Naturals, Sequences

CONSTANTS
  Caller,         (* threads of the package manager                          *)
  Request,        (* one call each: its URLs, its callback with the context  *)
  Thread,         (* the discovery thread, as owner of a mutex               *)
  NoThread,       (* owner of a free mutex                                   *)
  NoRequest,      (* nullptr, an empty callback                              *)
  NoProxies,      (* an empty list of proxies                                *)
  ThreadCanFail,  (* TRUE if creating the discovery thread can throw         *)
  BuffersReused   (* TRUE if the memory of strings that are gone is used for
                     others while the discovery thread still reads there     *)

ASSUME ProxyAssumption ==
  /\ Thread \notin Caller
  /\ NoThread \notin Caller \cup {Thread}
  /\ NoRequest \notin Request
  /\ NoProxies \notin Request
  /\ ThreadCanFail \in BOOLEAN
  /\ BuffersReused \in BOOLEAN

VARIABLES
  (* WindowsConfiguration *)
  m_proxy_cb,       (* the request whose callback and context are stored     *)
  m_proxyMutex,     (* owner of the mutex                                    *)
  (* ThreadedProxyDiscovery *)
  m_threadRunning,
  m_shutdown,
  thread,           (* where the discovery thread is                         *)
  url,              (* the request whose URL pointers it was given           *)
  found,            (* its list of proxies                                   *)
  (* ProxyDiscovery and its engine *)
  m_Consumers,      (* TRUE while WindowsConfiguration is registered         *)
  m_consumerMutex,  (* owner of the mutex                                    *)
  engineMutex,      (* owner of ProxyDiscovery::m_proxyMutex                 *)
  m_proxyList,      (* the request whose proxies the engine holds            *)
  (* the callers *)
  pc, req,          (* where each caller is, and with which request          *)
  buffers,          (* requests whose converted URL strings still exist      *)
  returned,         (* requests whose call has returned                      *)
  answers,          (* what each request was answered with                   *)
  life              (* of the objects                                        *)

configVars == <<m_proxy_cb, m_proxyMutex>>
threadVars == <<m_threadRunning, thread, url, found>>
engineVars == <<engineMutex, m_proxyList>>
callVars   == <<pc, req, buffers, returned>>
vars == <<m_proxy_cb, m_proxyMutex, m_threadRunning, m_shutdown, thread, url,
          found, m_Consumers, m_consumerMutex, engineMutex, m_proxyList, pc, req,
          buffers, returned, answers, life>>

Owner == Caller \cup {Thread, NoThread}
Proxies == Request \cup {NoProxies}

TypeOK ==
  /\ m_proxy_cb \in Request \cup {NoRequest}
  /\ m_proxyMutex \in Owner
  /\ m_threadRunning \in BOOLEAN
  /\ m_shutdown \in BOOLEAN
  /\ thread \in {"none", "started", "init", "get", "notify", "consumer",
                 "callback", "ending"}
  /\ url \in Request \cup {NoRequest}
  /\ found \in Proxies
  /\ m_Consumers \in BOOLEAN
  /\ m_consumerMutex \in {Thread, NoThread}
  /\ engineMutex \in Owner
  /\ m_proxyList \in Proxies
  /\ pc \in [Caller -> {"idle", "async", "start", "return", "sync", "init", "get"}]
  /\ req \in [Caller -> Request \cup {NoRequest}]
  /\ buffers \subseteq Request
  /\ returned \subseteq Request
  /\ answers \in [Request -> Seq(Proxies)]
  /\ life \in {"alive", "unregistered", "draining", "destroyed"}

Init ==
  /\ m_proxy_cb = NoRequest
  /\ m_proxyMutex = NoThread
  /\ m_threadRunning = FALSE
  /\ m_shutdown = FALSE
  /\ thread = "none"
  /\ url = NoRequest
  /\ found = NoProxies
  /\ m_Consumers = TRUE
  /\ m_consumerMutex = NoThread
  /\ engineMutex = NoThread
  /\ m_proxyList = NoProxies
  /\ pc = [t \in Caller |-> "idle"]
  /\ req = [t \in Caller |-> NoRequest]
  /\ buffers = {}
  /\ returned = {}
  /\ answers = [r \in Request |-> <<>>]
  /\ life = "alive"

-----------------------------------------------------------------------------
(* Pieces of the code that several actions use, some with a seeded fault.    *)

GoTo(t, label) == pc' = [pc EXCEPT ![t] = label]

Answer(r, proxies) == answers' = [answers EXCEPT ![r] = Append(@, proxies)]

(* A request that no caller has made yet.                                    *)
New(r) == r \notin returned /\ \A t \in Caller : req[t] # r

(* ProxyDiscoverySync() holds m_proxyMutex around Init() and GetProxyInfo(). *)
BugEngineUnlocked == TRUE
EngineFree == engineMutex = NoThread

(* ProxyDiscoveryEngine::Init() begins with an empty list ...                *)
BugListKept == UNCHANGED m_proxyList
ListCleared == m_proxyList' = NoProxies

(* ... to which the registry, the PAC and both kinds of WPAD may add what     *)
(* they find for the URLs; a failure adds nothing.                           *)
FoundByMethods(r) == {r, m_proxyList}

(* The list is empty again when the callback tells of the shutdown.          *)
Discovered(r) == IF m_shutdown THEN {NoProxies} ELSE FoundByMethods(r)

(* The thread may read its strings when they are gone; what it then looks up *)
(* depends on what their memory holds.                                       *)
FoundByThread ==
  IF url \in buffers \/ m_shutdown \/ ~BuffersReused THEN Discovered(url) ELSE Proxies

(* ThreadedProxyDiscovery: a thread is started only when none runs.          *)
MayStart == ~m_threadRunning

(* The thread's last section under m_mutex.                                  *)
BugRunningKept == UNCHANGED m_threadRunning
ThreadStopped == m_threadRunning' = FALSE

(* NotifyConsumers() and UnregisterForProxyNotifications() exclude each other. *)
ConsumersFree == m_consumerMutex = NoThread

(* ProxiesDiscovered() forgets the callback it has called.                   *)
BugCallbackKept == UNCHANGED m_proxy_cb
ForgetCallback == m_proxy_cb' = NoRequest

(* NotifyConsumers() is called with every list, the empty one too.           *)
BugOnlyNews == m_Consumers /\ found # NoProxies
HasConsumer == m_Consumers

(* ~ThreadedProxyDiscovery() polls until the thread is gone; 200 polls only  *)
(* log an error.                                                             *)
BugGivesUp == TRUE
Drained == ~m_threadRunning

-----------------------------------------------------------------------------
(* WindowsConfiguration::StartProxyDiscoveryAsync() with a callback.         *)

CallAsync(t, r) ==
  /\ life = "alive"
  /\ pc[t] = "idle"
  /\ New(r)
  /\ GoTo(t, "async")
  /\ req' = [req EXCEPT ![t] = r]
  /\ UNCHANGED <<configVars, threadVars, m_shutdown, m_Consumers, m_consumerMutex,
                 engineVars, buffers, returned, answers, life>>

(* The callback is stored before anyone knows whether the request is taken.  *)
AsyncLock(t) ==
  /\ pc[t] = "async"
  /\ m_proxyMutex = NoThread
  /\ m_proxyMutex' = t
  /\ m_proxy_cb' = req[t]
  /\ buffers' = buffers \cup {req[t]}
  /\ GoTo(t, "start")
  /\ UNCHANGED <<threadVars, m_shutdown, m_Consumers, m_consumerMutex, engineVars,
                 req, returned, answers, life>>

(* ThreadedProxyDiscovery::StartProxyDiscoveryAsync(): the request is dropped *)
(* if a thread runs or none can be created; the caller is not told.          *)
AsyncStart(t) ==
  /\ pc[t] = "start"
  /\ \/ m_threadRunning /\ UNCHANGED threadVars
     \/ /\ MayStart
        /\ m_threadRunning' = TRUE
        /\ thread' = "started"
        /\ url' = req[t]
        /\ UNCHANGED found
     \/ MayStart /\ ThreadCanFail /\ UNCHANGED threadVars
  /\ GoTo(t, "return")
  /\ UNCHANGED <<configVars, m_shutdown, m_Consumers, m_consumerMutex, engineVars,
                 req, buffers, returned, answers, life>>

(* The temporary strings behind the URL pointers end with the statement.     *)
AsyncReturn(t) ==
  /\ pc[t] = "return"
  /\ m_proxyMutex' = NoThread
  /\ buffers' = buffers \ {req[t]}
  /\ returned' = returned \cup {req[t]}
  /\ GoTo(t, "idle")
  /\ req' = [req EXCEPT ![t] = NoRequest]
  /\ UNCHANGED <<m_proxy_cb, threadVars, m_shutdown, m_Consumers, m_consumerMutex,
                 engineVars, answers, life>>

-----------------------------------------------------------------------------
(* WindowsConfiguration::StartProxyDiscovery(), on the caller's thread.      *)

CallSync(t, r) ==
  /\ life = "alive"
  /\ pc[t] = "idle"
  /\ New(r)
  /\ GoTo(t, "sync")
  /\ req' = [req EXCEPT ![t] = r]
  /\ buffers' = buffers \cup {r}
  /\ UNCHANGED <<configVars, threadVars, m_shutdown, m_Consumers, m_consumerMutex,
                 engineVars, returned, answers, life>>

SyncInit(t) ==
  /\ pc[t] = "sync"
  /\ EngineFree
  /\ engineMutex' = t
  /\ ListCleared
  /\ GoTo(t, "init")
  /\ UNCHANGED <<configVars, threadVars, m_shutdown, m_Consumers, m_consumerMutex,
                 req, buffers, returned, answers, life>>

SyncDiscovered(t) ==
  /\ pc[t] = "init"
  /\ m_proxyList' \in Discovered(req[t])
  /\ GoTo(t, "get")
  /\ UNCHANGED <<configVars, threadVars, m_shutdown, m_Consumers, m_consumerMutex,
                 engineMutex, req, buffers, returned, answers, life>>

SyncReturn(t) ==
  /\ pc[t] = "get"
  /\ Answer(req[t], m_proxyList)
  /\ engineMutex' = NoThread
  /\ buffers' = buffers \ {req[t]}
  /\ returned' = returned \cup {req[t]}
  /\ GoTo(t, "idle")
  /\ req' = [req EXCEPT ![t] = NoRequest]
  /\ UNCHANGED <<configVars, threadVars, m_shutdown, m_Consumers, m_consumerMutex,
                 m_proxyList, life>>

-----------------------------------------------------------------------------
(* ThreadedProxyDiscovery::DiscoveryThread().                                *)

ThreadInit ==
  /\ thread = "started"
  /\ EngineFree
  /\ engineMutex' = Thread
  /\ ListCleared
  /\ thread' = "init"
  /\ UNCHANGED <<configVars, m_threadRunning, url, found, m_shutdown, m_Consumers,
                 m_consumerMutex, callVars, answers, life>>

ThreadDiscovered ==
  /\ thread = "init"
  /\ m_proxyList' \in FoundByThread
  /\ thread' = "get"
  /\ UNCHANGED <<configVars, m_threadRunning, url, found, m_shutdown, m_Consumers,
                 m_consumerMutex, engineMutex, callVars, answers, life>>

ThreadGet ==
  /\ thread = "get"
  /\ found' = m_proxyList
  /\ engineMutex' = NoThread
  /\ thread' = "notify"
  /\ UNCHANGED <<configVars, m_threadRunning, url, m_shutdown, m_Consumers,
                 m_consumerMutex, m_proxyList, callVars, answers, life>>

(* NotifyConsumers() keeps m_consumerMutex while it calls the consumer.      *)
ThreadNotify ==
  /\ thread = "notify"
  /\ ConsumersFree
  /\ \/ /\ HasConsumer
        /\ m_consumerMutex' = Thread
        /\ thread' = "consumer"
     \/ /\ ~HasConsumer
        /\ thread' = "ending"
        /\ UNCHANGED m_consumerMutex
  /\ UNCHANGED <<configVars, m_threadRunning, url, found, m_shutdown, m_Consumers,
                 engineVars, callVars, answers, life>>

(* ProxiesDiscovered() calls the callback under WindowsConfiguration's       *)
(* m_proxyMutex ...                                                          *)
ThreadConsumer ==
  /\ thread = "consumer"
  /\ m_proxyMutex = NoThread
  /\ \/ /\ m_proxy_cb # NoRequest
        /\ m_proxyMutex' = Thread
        /\ Answer(m_proxy_cb, found)
        /\ thread' = "callback"
        /\ UNCHANGED m_consumerMutex
     \/ /\ m_proxy_cb = NoRequest
        /\ m_consumerMutex' = NoThread
        /\ thread' = "ending"
        /\ UNCHANGED <<m_proxyMutex, answers>>
  /\ UNCHANGED <<m_proxy_cb, m_threadRunning, url, found, m_shutdown, m_Consumers,
                 engineVars, callVars, life>>

(* ... and forgets it after the call.                                        *)
ThreadCalledBack ==
  /\ thread = "callback"
  /\ ForgetCallback
  /\ m_proxyMutex' = NoThread
  /\ m_consumerMutex' = NoThread
  /\ thread' = "ending"
  /\ UNCHANGED <<m_threadRunning, url, found, m_shutdown, m_Consumers, engineVars,
                 callVars, answers, life>>

ThreadEnd ==
  /\ thread = "ending"
  /\ ThreadStopped
  /\ thread' = "none"
  /\ UNCHANGED <<configVars, url, found, m_shutdown, m_Consumers, m_consumerMutex,
                 engineVars, callVars, answers, life>>

-----------------------------------------------------------------------------
(* ~PmAgentContainer(), when no caller is left.                              *)

Unregister ==
  /\ life = "alive"
  /\ \A t \in Caller : pc[t] = "idle"
  /\ ConsumersFree
  /\ m_Consumers' = FALSE
  /\ life' = "unregistered"
  /\ UNCHANGED <<configVars, threadVars, m_shutdown, m_consumerMutex, engineVars,
                 callVars, answers>>

Shutdown ==
  /\ life = "unregistered"
  /\ m_shutdown' = TRUE
  /\ life' = "draining"
  /\ UNCHANGED <<configVars, threadVars, m_Consumers, m_consumerMutex, engineVars,
                 callVars, answers>>

Drain ==
  /\ life = "draining"
  /\ Drained
  /\ life' = "destroyed"
  /\ UNCHANGED <<configVars, threadVars, m_shutdown, m_Consumers, m_consumerMutex,
                 engineVars, callVars, answers>>

Terminated == life = "destroyed" /\ UNCHANGED vars

-----------------------------------------------------------------------------
CallerSteps(t) ==
  \/ AsyncLock(t) \/ AsyncStart(t) \/ AsyncReturn(t)
  \/ SyncInit(t) \/ SyncDiscovered(t) \/ SyncReturn(t)

ThreadSteps ==
  ThreadInit \/ ThreadDiscovered \/ ThreadGet \/ ThreadNotify \/ ThreadConsumer
    \/ ThreadCalledBack \/ ThreadEnd

Teardown == Shutdown \/ Drain

Next ==
  \/ \E t \in Caller : CallerSteps(t) \/ \E r \in Request : CallAsync(t, r) \/ CallSync(t, r)
  \/ ThreadSteps
  \/ Unregister \/ Teardown
  \/ Terminated

SafetySpec == Init /\ [][Next]_vars

(* Every thread inside the code goes on; WinHTTP answers and the callback    *)
(* returns. Nobody has to make a call or to end the agent.                   *)
Fairness ==
  /\ \A t \in Caller : WF_vars(CallerSteps(t))
  /\ WF_vars(ThreadSteps)
  /\ WF_vars(Teardown)

Spec == SafetySpec /\ Fairness

-----------------------------------------------------------------------------
(* "m_proxyList is not accessed simultaneously by more than one thread"      *)
(* (ProxyDiscoveryEngine.cpp:9), though two mutexes and two entries lead to  *)
(* the engine.                                                               *)
InEngine ==
  {t \in Caller : pc[t] \in {"init", "get"}}
    \cup (IF thread \in {"init", "get"} THEN {Thread} ELSE {})

EngineExclusive == \A t, u \in InEngine : t = u

(* A synchronous discovery returns what was found for its own URLs, whatever *)
(* the discovery thread does at the same time.                               *)
SyncOwnResult ==
  [][ \A t \in Caller : pc[t] = "get" /\ pc'[t] = "idle" =>
        answers'[req[t]] \in {<<req[t]>>, <<NoProxies>>} ]_vars

(* A callback is called at most once, and once it has been called it is not  *)
(* kept for a later discovery: its context need not exist any more.           *)
CallbackOnce ==
  /\ \A r \in Request : Len(answers[r]) <= 1
  /\ m_proxy_cb \in Request /\ thread # "callback" => answers[m_proxy_cb] = <<>>

(* Nothing runs on destroyed objects: no callback into WindowsConfiguration   *)
(* once it has unregistered, and no discovery thread, detached as it is, once *)
(* ThreadedProxyDiscovery is gone.                                            *)
NothingOutlives ==
  /\ life # "alive" => thread \notin {"consumer", "callback"}
  /\ life = "destroyed" => thread = "none"

-----------------------------------------------------------------------------
(* The abstraction: a request is made once it is somebody's, a call is over   *)
(* once its callback is stored or it has its answer, and a callback that is   *)
(* being called waits no more.                                                *)
Made    == returned \cup ({req[t] : t \in Caller} \ {NoRequest})
Calls   == {req[t] : t \in {u \in Caller : pc[u] \in {"async", "sync", "init", "get"}}}
Waiting == IF thread = "callback" THEN NoRequest ELSE m_proxy_cb

Abstract == INSTANCE ProxyRequests
              WITH open <- (life = "alive"), made <- Made, calls <- Calls, waiting <- Waiting

(* Whatever the mutexes, the detached thread and the destructors do, requests *)
(* are served as ProxyRequests says.                                         *)
RequestsServed == Abstract!Requests

-----------------------------------------------------------------------------
(* The inductive invariant behind the safety properties.                     *)

(* Who holds which mutex.                                                    *)
MutexesFit ==
  /\ engineMutex = Thread <=> thread \in {"init", "get"}
  /\ m_consumerMutex = Thread <=> thread \in {"consumer", "callback"}
  /\ m_proxyMutex = Thread <=> thread = "callback"
  /\ \A t \in Caller :
       /\ engineMutex = t <=> pc[t] \in {"init", "get"}
       /\ m_proxyMutex = t <=> pc[t] \in {"start", "return"}

(* What the objects have come to.                                            *)
LifeFits ==
  /\ m_threadRunning <=> thread # "none"
  /\ thread # "none" => url \in Request
  /\ m_Consumers <=> life = "alive"
  /\ life # "alive" => /\ \A t \in Caller : pc[t] = "idle"
                       /\ thread \notin {"consumer", "callback"}
  /\ life = "destroyed" => thread = "none"

(* Every request is made by one caller, once.                                *)
RequestsFit ==
  /\ \A t \in Caller : pc[t] = "idle" <=> req[t] = NoRequest
  /\ \A t \in Caller : req[t] \notin returned
  /\ \A t, u \in Caller : req[t] = req[u] /\ req[t] # NoRequest => t = u

(* No answer is there before its time.                                       *)
AnswersFit ==
  /\ CallbackOnce
  /\ \A r \in Request : New(r) => answers[r] = <<>> /\ m_proxy_cb # r
  /\ \A t \in Caller : pc[t] \in {"async", "sync", "init", "get"} =>
       answers[req[t]] = <<>> /\ m_proxy_cb # req[t]
  /\ thread = "callback" => m_proxy_cb \in Request

(* The engine works for the caller that is inside.                           *)
EngineFits ==
  \A t \in Caller :
    /\ pc[t] = "init" => m_proxyList = NoProxies
    /\ pc[t] = "get" => m_proxyList \in {req[t], NoProxies}

IInv == TypeOK /\ MutexesFit /\ LifeFits /\ RequestsFit /\ AnswersFit /\ EngineFits

-----------------------------------------------------------------------------
(* Every call returns and the destructors come to an end: the mutexes are     *)
(* taken in an order without cycles.                                          *)
CallsReturn ==
  /\ \A t \in Caller : pc[t] # "idle" ~> pc[t] = "idle"
  /\ life = "unregistered" ~> life = "destroyed"

(* A discovery that was started ends with the call of the callback that is    *)
(* stored then, even when nothing was found, unless the agent is ending.      *)
DiscoveryIsReported ==
  thread = "started" ~> m_proxy_cb = NoRequest \/ life # "alive"
=============================================================================
