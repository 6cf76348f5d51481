-------------------------- MODULE PmControlPlugin --------------------------
(***************************************************************************)
(* The control module of the package manager, as the service sees it: the  *)
(* singleton PmControlPlugin with StartPmAgent() and StopPmAgent(), the    *)
(* PmAgentController it owns, the agents, and the service process that     *)
(* hosts them and that can crash and be started again.                     *)
(***************************************************************************)
EXTENDS PmAgentController

VARIABLES
  m_bIsProcessStarted,  (* member: StartPmAgent() succeeded                  *)
  m_mtxAgentCtrl,       (* owner of the mutex                                *)
  op                    (* what each caller is executing                     *)

pluginVars == <<m_bIsProcessStarted, m_mtxAgentCtrl, op>>
vars == <<agents, own, m_hProcess, m_hChildStdinWr, m_bIsProcessStartedByPlugin,
          m_mutex, m_threadMonitor, monitor, hWait, pc, status, terminated,
          m_bIsProcessStarted, m_mtxAgentCtrl, op>>

(* "start" and "stop": the exported functions. "unload": the StopPmAgent()  *)
(* with which the loader begins to unload the module; "destroy": the        *)
(* destructors that run when the library is then freed.                     *)
Operation == {"none", "start", "stop", "unload", "destroy"}

TypeOK ==
  /\ ControllerTypeOK
  /\ m_bIsProcessStarted \in BOOLEAN
  /\ m_mtxAgentCtrl \in Caller \cup {NoThread}
  /\ op \in [Caller -> Operation]

Init ==
  /\ ControllerInit
  /\ m_bIsProcessStarted = FALSE
  /\ m_mtxAgentCtrl = NoThread
  /\ op = [t \in Caller |-> "none"]

-----------------------------------------------------------------------------
(* The loader owns the module: nobody calls it while it is being unloaded.  *)
Loaded == \A t \in Caller : op[t] \notin {"unload", "destroy"}

Begin(t, what, label) ==
  /\ op' = [op EXCEPT ![t] = what]
  /\ GoTo(t, label)

End(t) ==
  /\ op' = [op EXCEPT ![t] = "none"]
  /\ GoTo(t, "idle")

(* m_bIsProcessStarted after StopPmAgent(): cleared only on success.        *)
BugAlwaysCleared(t) == FALSE
StartedAfterStop(t) == status[t] # "PM_OK"

(* StartPmAgent() up to the call of Start(). When already started it only   *)
(* returns PM_MODULE_ALREADY_STARTED, which changes nothing.                *)
CallStart(t) ==
  /\ Loaded
  /\ pc[t] = "idle"
  /\ m_mtxAgentCtrl = NoThread
  /\ ~m_bIsProcessStarted
  /\ m_mtxAgentCtrl' = t
  /\ Begin(t, "start", "kill")
  /\ UNCHANGED <<agentVars, handleVars, controlVars, threadVars, status,
                 terminated, m_bIsProcessStarted>>

ReturnStart(t) ==
  /\ op[t] = "start"
  /\ pc[t] = "returned"
  /\ m_bIsProcessStarted' = (status[t] = "PM_OK")
  /\ m_mtxAgentCtrl' = NoThread
  /\ End(t)
  /\ UNCHANGED <<agentVars, handleVars, controlVars, threadVars, status,
                 terminated>>

(* StopPmAgent(); when not started it only returns PM_MODULE_NOT_STARTED.   *)
CallStop(t) ==
  /\ Loaded
  /\ pc[t] = "idle"
  /\ m_mtxAgentCtrl = NoThread
  /\ m_bIsProcessStarted
  /\ m_mtxAgentCtrl' = t
  /\ Begin(t, "stop", "stop")
  /\ UNCHANGED <<agentVars, handleVars, controlVars, threadVars, status,
                 terminated, m_bIsProcessStarted>>

ReturnStop(t) ==
  /\ op[t] = "stop"
  /\ pc[t] = "returned"
  /\ m_bIsProcessStarted' = StartedAfterStop(t)
  /\ m_mtxAgentCtrl' = NoThread
  /\ End(t)
  /\ UNCHANGED <<agentVars, handleVars, controlVars, threadVars, status,
                 terminated>>

(* ~UCMCPLoader(): StopPmAgent() if the agent was started, whatever it      *)
(* returns, and then FreeLibrary(), which destroys the singleton.           *)
CallUnload(t) ==
  /\ \A u \in Caller : pc[u] = "idle"
  /\ \/ /\ m_bIsProcessStarted
        /\ m_mtxAgentCtrl' = t
        /\ Begin(t, "unload", "stop")
     \/ /\ ~m_bIsProcessStarted
        /\ Begin(t, "destroy", "stop")
        /\ UNCHANGED m_mtxAgentCtrl
  /\ UNCHANGED <<agentVars, handleVars, controlVars, threadVars, status,
                 terminated, m_bIsProcessStarted>>

FreeLibrary(t) ==
  /\ op[t] = "unload"
  /\ pc[t] = "returned"
  /\ m_bIsProcessStarted' = StartedAfterStop(t)
  /\ m_mtxAgentCtrl' = NoThread
  /\ Begin(t, "destroy", "stop")
  /\ UNCHANGED <<agentVars, handleVars, controlVars, threadVars, status,
                 terminated>>

(* ~PmAgentController() after its Stop(): cleanup(), and the destructor of  *)
(* the std::thread, which calls std::terminate if it is still joinable. The *)
(* next StartPmAgent() finds a new singleton.                               *)
Destroy(t) ==
  /\ op[t] = "destroy"
  /\ pc[t] = "returned"
  /\ Cleanup
  /\ m_bIsProcessStartedByPlugin' = FALSE
  /\ m_bIsProcessStarted' = FALSE
  /\ terminated' = m_threadMonitor
  /\ End(t)
  /\ UNCHANGED <<agentVars, threadVars, m_mutex, status, m_mtxAgentCtrl>>

(* The service process dies, its handles with it, and starts anew; the      *)
(* agents it had live on until they notice that their stdin is closed.      *)
ServiceCrash ==
  /\ m_hProcess' = InvalidHandle
  /\ m_hChildStdinWr' = InvalidHandle
  /\ m_bIsProcessStartedByPlugin' = FALSE
  /\ m_mutex' = NoThread
  /\ m_threadMonitor' = FALSE
  /\ monitor' = "none"
  /\ hWait' = InvalidHandle
  /\ own' = {}
  /\ pc' = [t \in Caller |-> "idle"]
  /\ status' = [t \in Caller |-> "PM_OK"]
  /\ terminated' = FALSE
  /\ m_bIsProcessStarted' = FALSE
  /\ m_mtxAgentCtrl' = NoThread
  /\ op' = [t \in Caller |-> "none"]
  /\ UNCHANGED agents

-----------------------------------------------------------------------------
StartSteps(t) == KillIfRunning(t) \/ StartProcess(t) \/ SpawnMonitor(t)

StopSteps(t) ==
  StopLock(t) \/ StopWaitDone(t) \/ StopWaitTimeout(t) \/ StopTerminate(t)
    \/ StopJoin(t)

PluginSteps(t) ==
  CallStart(t) \/ ReturnStart(t) \/ CallStop(t) \/ ReturnStop(t)
    \/ CallUnload(t) \/ FreeLibrary(t) \/ Destroy(t)

(* After std::terminate the process runs no further step of its own.        *)
ServiceStep ==
  /\ ~terminated
  /\ \/ \E t \in Caller : PluginSteps(t)
     \/ /\ MonitorThread \/ \E t \in Caller : StartSteps(t) \/ StopSteps(t)
        /\ UNCHANGED pluginVars

EnvironmentStep ==
  \/ ServiceCrash
  \/ (\E a \in Agent : AgentEnds(a)) /\ UNCHANGED pluginVars

Next == ServiceStep \/ EnvironmentStep

SafetySpec == Init /\ [][Next]_vars

-----------------------------------------------------------------------------
(* Safety.                                                                  *)

(* No legal sequence of calls makes the C++ runtime end the service: Start() *)
(* never assigns to a joinable std::thread and none is destroyed, although   *)
(* Stop() returns early, without joining, when stopProcess() fails.          *)
NoStdTerminate == ~terminated

(* An agent this service started and that runs is the one m_hProcess refers  *)
(* to, so Stop() can always reach it; in particular there is never a second. *)
AgentReachable == \A a \in own : Running(a) => a = m_hProcess

(* The stdin pipe of a supervised agent stays open: the agent takes its end  *)
(* for the order to stop.                                                    *)
PipeKeptOpen ==
  \A a \in own : Running(a) /\ m_bIsProcessStartedByPlugin => m_hChildStdinWr = a

(* Outside of calls, "not started" in the plugin means that nothing is left  *)
(* of the last run: no agent runs, no thread has to be joined.               *)
QuietWhenNotStarted ==
  (\A t \in Caller : op[t] = "none") /\ ~m_bIsProcessStarted =>
    /\ \A a \in own : ~Running(a)
    /\ ~m_threadMonitor
    /\ ~m_bIsProcessStartedByPlugin

(* The unlocked Start() and the restart by the monitor never overlap, nor    *)
(* does the restart with stopProcess().                                      *)
RestartAlone ==
  monitor = "restart" =>
    \A t \in Caller : pc[t] \notin {"kill", "launch", "spawn", "stopWait",
                                    "terminate"}

(* An agent is launched only by a Start() in progress or, while nobody has   *)
(* asked for the end, by the monitor; and never beside one that runs.        *)
LaunchOnlyWhenWanted ==
  [][ own' \ own # {} =>
        /\ \/ \E t \in Caller : op[t] = "start"
           \/ m_bIsProcessStarted /\ m_bIsProcessStartedByPlugin
        /\ \A a \in own : ~Running(a) ]_vars

(* The module keeps the promises of AgentSupervision: the plugin's flag is    *)
(* the phase, and the agents of this service that run are the live ones.     *)
Phase ==
  IF m_bIsProcessStarted THEN "on"
  ELSE IF \E t \in Caller : op[t] = "start" THEN "starting" ELSE "off"
Live == {a \in own : Running(a)}

Supervisor == INSTANCE AgentSupervision WITH phase <- Phase, live <- Live

Supervised == Supervisor!Supervision

-----------------------------------------------------------------------------
(* The inductive invariant behind the safety properties, as long as the     *)
(* monitor thread can be created (SpawnCanFail = FALSE). JoinIInv, the part  *)
(* of it that NoStdTerminate needs, is inductive even when it cannot.       *)

Starting(t) == pc[t] \in {"kill", "launch", "spawn"}
Stopping(t) == pc[t] \in {"stop", "stopWait", "terminate", "join"}
NoneRuns == \A a \in own : ~Running(a)

(* What a caller executes fits where it is, and only one executes anything. *)
CallsFit ==
  /\ \A t \in Caller :
       /\ op[t] = "none" <=> pc[t] = "idle"
       /\ Starting(t) => op[t] = "start"
       /\ Stopping(t) => op[t] \in {"stop", "unload", "destroy"}
       /\ op[t] \in {"start", "stop", "unload"} <=> m_mtxAgentCtrl = t
       /\ op[t] = "start" => ~m_bIsProcessStarted
       /\ op[t] \in {"stop", "unload"} => m_bIsProcessStarted
  /\ \A t, u \in Caller : op[t] # "none" /\ op[u] # "none" => t = u

(* Who holds m_mutex; under it the monitor has found the flag up.           *)
MutexFits ==
  /\ \A t \in Caller : m_mutex = t <=> pc[t] \in {"stopWait", "terminate"}
  /\ m_mutex = Monitor <=> monitor = "restart"
  /\ monitor = "restart" => m_bIsProcessStartedByPlugin

(* The flag is down from the moment Stop() takes it down.                   *)
FlagFits ==
  \A t \in Caller :
    /\ pc[t] \in {"stopWait", "terminate", "join"} => ~m_bIsProcessStartedByPlugin
    /\ pc[t] \in {"stopWait", "terminate"} => m_hProcess \in Agent /\ op[t] # "destroy"
    /\ op[t] \in {"stop", "unload"} /\ pc[t] = "returned" => ~m_bIsProcessStartedByPlugin
    /\ op[t] = "destroy" => ~m_bIsProcessStartedByPlugin
    /\ op[t] = "destroy" /\ pc[t] = "returned" => status[t] = "PM_OK"

(* When the monitor thread exists, and what follows when it does not.       *)
ThreadFits ==
  /\ monitor = "none" <=> ~m_threadMonitor
  /\ \A t \in Caller :
       /\ Starting(t) => ~m_threadMonitor
       /\ op[t] = "start" /\ pc[t] = "returned" =>
            (m_threadMonitor <=> status[t] = "PM_OK")
       /\ op[t] \in {"stop", "unload", "destroy"} /\ pc[t] = "returned"
            /\ status[t] = "PM_OK" => ~m_threadMonitor
  /\ m_threadMonitor => m_bIsProcessStarted \/ \E t \in Caller : op[t] = "start"
  /\ ~m_threadMonitor => /\ ~m_bIsProcessStartedByPlugin
                         /\ NoneRuns \/ \E t \in Caller : pc[t] = "spawn"

(* The monitor waits for the agent in m_hProcess, and beyond that wait no   *)
(* agent of this service runs.                                              *)
WaitFits ==
  /\ monitor = "waiting" => hWait \in Agent
  /\ monitor \in {"read", "waiting"} => hWait = m_hProcess \/ m_hProcess = InvalidHandle
  /\ monitor \in {"signalled", "restart", "exited", "blocked"} => NoneRuns

(* While the agent is wanted, the pipe belongs to it.                       *)
PipeFits ==
  m_bIsProcessStartedByPlugin \/ (\E t \in Caller : pc[t] = "spawn") =>
    \A a \in own : Running(a) => m_hChildStdinWr = a

(* A joinable thread belongs to a start that succeeded, and whoever destroys *)
(* the controller has joined it: a Stop() that failed has taken down the flag, *)
(* so that the destructor's Stop() goes straight to the join.                *)
JoinFits ==
  /\ m_threadMonitor => m_bIsProcessStarted \/ \E t \in Caller : op[t] = "start"
  /\ \A t \in Caller :
       /\ Starting(t) => ~m_threadMonitor
       /\ op[t] = "start" /\ pc[t] = "returned" /\ m_threadMonitor => status[t] = "PM_OK"
       /\ op[t] \in {"stop", "unload"} /\ pc[t] = "returned" =>
            IF status[t] = "PM_OK" THEN ~m_threadMonitor ELSE ~m_bIsProcessStartedByPlugin
       /\ op[t] \in {"stop", "unload"} /\ pc[t] \in {"stopWait", "terminate"} =>
            ~m_bIsProcessStartedByPlugin
       /\ op[t] = "destroy" /\ m_threadMonitor =>
            pc[t] \in {"stop", "join"} /\ ~m_bIsProcessStartedByPlugin

JoinIInv == TypeOK /\ NoStdTerminate /\ CallsFit /\ JoinFits

IInv ==
  TypeOK /\ NoStdTerminate /\ AgentReachable /\ CallsFit /\ MutexFits /\ FlagFits
    /\ ThreadFits /\ WaitFits /\ PipeFits

-----------------------------------------------------------------------------
(* Liveness.                                                                *)

(* A thread inside a call goes on; nobody is obliged to make a call.        *)
CallProceeds(t) ==
  /\ ~terminated
  /\ \/ (StartSteps(t) \/ StopSteps(t)) /\ UNCHANGED pluginVars
     \/ ReturnStart(t) \/ ReturnStop(t) \/ FreeLibrary(t) \/ Destroy(t)

MonitorProceeds == ~terminated /\ MonitorThread /\ UNCHANGED pluginVars

(* While the agent runs, m_mutex is free for as long as a process takes to   *)
(* end, and a Stop() waiting for it gets it.                                *)
StopGetsMutex(t) ==
  /\ ~terminated /\ m_hProcess \in Agent /\ Running(m_hProcess)
  /\ StopLock(t) /\ UNCHANGED pluginVars

(* The signature check does not refuse the agent for ever.                  *)
RestartIsTried ==
  /\ ~terminated /\ MonitorRestart /\ (Launched \/ LaunchFailed)
  /\ UNCHANGED pluginVars

Fairness ==
  /\ \A t \in Caller : WF_vars(CallProceeds(t)) /\ SF_vars(StopGetsMutex(t))
  /\ WF_vars(MonitorProceeds)
  /\ SF_vars(RestartIsTried)
  /\ \A a \in Agent :
       WF_vars(agents[a] = "terminating" /\ AgentEnds(a) /\ UNCHANGED pluginVars)

Spec == SafetySpec /\ Fairness

(* Stop() joins the monitor, and the monitor never ends: its wait blocks, or *)
(* it waits for an agent that an earlier Stop() could not terminate.        *)
JoinStuck ==
  /\ \E t \in Caller : pc[t] = "join"
  /\ monitor = "blocked" \/ (monitor = "waiting" /\ Running(hWait))

(* Every call into the module returns, though Stop() competes for m_mutex    *)
(* with a monitor that keeps it while it sleeps, unless the join is stuck.   *)
CallsReturn ==
  \A t \in Caller : op[t] # "none" ~> (op[t] = "none" \/ JoinStuck)

(* An agent that ends while it is supervised runs again later, unless the    *)
(* end is asked for or the launch fails for another reason than a refused    *)
(* signature check, which the code does not recover from.                    *)
AgentComesBack ==
  (monitor = "waiting" /\ m_bIsProcessStartedByPlugin /\ agents[hWait] = "dead")
    ~> \/ m_hProcess \in Agent /\ Running(m_hProcess)
       \/ m_hProcess = InvalidHandle
       \/ ~m_bIsProcessStartedByPlugin
=============================================================================
