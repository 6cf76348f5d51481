------------------------- MODULE PmAgentController -------------------------
(***************************************************************************)
(* The supervisor of the package-manager agent (csc_pm.exe): class         *)
(* PmAgentController of WindowsPackageManager/libControlModule.            *)
(*                                                                         *)
(* Start() and Stop() run on the threads of the service; monitorProcess()  *)
(* runs on a thread of its own and starts the agent again when it dies.    *)
(* A step of the model ends where another thread can interfere: at a lock, *)
(* a wait, an unlocked read, or a call into Windows.                       *)
(*                                                                         *)
(* PmControlPlugin composes these actions with the functions that call     *)
(* them and holds Init, Next and the specification.                        *)
(***************************************************************************)

CONSTANTS
  Caller,         (* threads of the service that call into the module        *)
  Agent,          (* csc_pm.exe processes; a dead one may be launched again  *)
  Monitor,        (* the monitor thread, as owner of m_mutex                 *)
  NoThread,       (* owner of a free mutex                                   *)
  InvalidHandle,  (* INVALID_HANDLE_VALUE                                    *)
  BadWait,        (* how the monitor can end up when it waits on a value that
                     is not the handle of an agent: "exited" if the wait
                     fails, "blocked" if Windows takes the value for another
                     object (INVALID_HANDLE_VALUE is also the pseudo handle
                     of the calling process, which never gets signalled)     *)
  SpawnCanFail    (* TRUE if creating the monitor thread can throw           *)

ASSUME ControllerAssumption ==
  /\ Monitor \notin Caller
  /\ NoThread \notin Caller \cup {Monitor}
  /\ InvalidHandle \notin Agent
  /\ BadWait \subseteq {"exited", "blocked"} /\ BadWait # {}
  /\ SpawnCanFail \in BOOLEAN

VARIABLES
  agents,           (* what Windows knows of each agent process              *)
  own,              (* agents alive that this instance of the service started *)
  m_hProcess,       (* member: handle of the agent                           *)
  m_hChildStdinWr,  (* member: write end of the agent's stdin pipe           *)
  m_bIsProcessStartedByPlugin,
  m_mutex,          (* owner of the mutex                                    *)
  m_threadMonitor,  (* TRUE while the std::thread member is joinable         *)
  monitor,          (* where the monitor thread is                           *)
  hWait,            (* the handle the monitor passes to WaitForSingleObject  *)
  pc,               (* where each caller is inside Start() or Stop()         *)
  status,           (* PM_STATUS its last call returned                      *)
  terminated        (* TRUE once std::terminate has been called              *)

agentVars   == <<agents, own>>
handleVars  == <<m_hProcess, m_hChildStdinWr>>
threadVars  == <<m_threadMonitor, monitor, hWait>>
controlVars == <<m_bIsProcessStartedByPlugin, m_mutex>>
callVars    == <<pc, status>>

Handle == Agent \cup {InvalidHandle}

(* Places where the monitor still supervises.                              *)
Watching == {"top", "read", "waiting", "signalled", "restart"}

Running(a) == agents[a] = "running"

GoTo(t, label) == pc' = [pc EXCEPT ![t] = label]

Return(t, result) ==
  /\ GoTo(t, "returned")
  /\ status' = [status EXCEPT ![t] = result]

ControllerTypeOK ==
  /\ agents \in [Agent -> {"dead", "running", "terminating"}]
  /\ own \subseteq Agent
  /\ m_hProcess \in Handle
  /\ m_hChildStdinWr \in Handle
  /\ m_bIsProcessStartedByPlugin \in BOOLEAN
  /\ m_mutex \in Caller \cup {Monitor, NoThread}
  /\ m_threadMonitor \in BOOLEAN
  /\ monitor \in Watching \cup {"none", "exited", "blocked"}
  /\ hWait \in Handle
  /\ pc \in [Caller -> {"idle", "kill", "launch", "spawn", "stop", "stopWait",
                        "terminate", "join", "returned"}]
  /\ status \in [Caller -> {"PM_OK", "PM_FAIL"}]
  /\ terminated \in BOOLEAN

ControllerInit ==
  /\ m_hProcess = InvalidHandle
  /\ m_hChildStdinWr = InvalidHandle
  /\ m_bIsProcessStartedByPlugin = FALSE
  /\ m_mutex = NoThread
  /\ m_threadMonitor = FALSE
  /\ monitor = "none"
  /\ hWait = InvalidHandle
  /\ agents = [a \in Agent |-> "dead"]
  /\ own = {}
  /\ pc = [t \in Caller |-> "idle"]
  /\ status = [t \in Caller |-> "PM_OK"]
  /\ terminated = FALSE

-----------------------------------------------------------------------------
(* Pieces of the code that several actions use. Before some of them stands a *)
(* seeded fault, Bug..., with which the properties are tried out.            *)

(* std::lock_guard on m_mutex can be constructed.                           *)
BugNoLockGuard == TRUE
MutexFree == m_mutex = NoThread

(* The end of its scope.                                                    *)
BugLockKept == UNCHANGED m_mutex
Unlock == m_mutex' = NoThread

(* Stop() clears the flag before it calls stopProcess().                    *)
BugFlagNotCleared == UNCHANGED m_bIsProcessStartedByPlugin
ClearFlag == m_bIsProcessStartedByPlugin' = FALSE

(* The monitor leaves its loop if the end was asked for.                    *)
BugNeverLeaves == FALSE
BugLeavesEarly == m_bIsProcessStartedByPlugin
EndAskedFor == ~m_bIsProcessStartedByPlugin

(* cleanup(): close both handles and reset the members.                     *)
Cleanup == m_hProcess' = InvalidHandle /\ m_hChildStdinWr' = InvalidHandle

(* stopProcess() when TerminateProcess() fails.                             *)
BugFailureIgnored(t) ==
  /\ m_hProcess' = InvalidHandle
  /\ GoTo(t, "join")
  /\ UNCHANGED <<agents, status>>
TerminateFails(t) ==
  /\ Return(t, "PM_FAIL")
  /\ UNCHANGED <<agents, m_hProcess>>

-----------------------------------------------------------------------------
(* startProcess(): the signature check refuses the binary and the function *)
(* returns at once; or a later step fails and cleanup() closes what the    *)
(* members hold; or the agent runs and both members are overwritten.       *)

LaunchRefused == UNCHANGED <<agentVars, handleVars>>

LaunchFailed == Cleanup /\ UNCHANGED agentVars

Launched ==
  \E a \in Agent \ {m_hProcess, m_hChildStdinWr, hWait} :
    /\ agents[a] = "dead"
    /\ agents' = [agents EXCEPT ![a] = "running"]
    /\ own' = own \cup {a}
    /\ m_hProcess' = a
    /\ m_hChildStdinWr' = a

(* Start() on a caller's thread, without m_mutex.                           *)

(* killIfRunning() ends at most one csc_pm.exe, the first it finds, and     *)
(* does not wait for its end; it may miss one that EnumProcesses did not    *)
(* return or that OpenProcess refuses, and may fail as a whole.             *)
KillIfRunning(t) ==
  /\ pc[t] = "kill"
  /\ \/ /\ \/ UNCHANGED agents
           \/ \E a \in Agent : /\ Running(a)
                               /\ agents' = [agents EXCEPT ![a] = "terminating"]
        /\ GoTo(t, "launch")
        /\ UNCHANGED status
     \/ /\ UNCHANGED agents
        /\ Return(t, "PM_FAIL")
  /\ UNCHANGED <<own, handleVars, threadVars, controlVars, terminated>>

StartProcess(t) ==
  /\ pc[t] = "launch"
  /\ \/ Launched /\ GoTo(t, "spawn") /\ UNCHANGED status
     \/ (LaunchRefused \/ LaunchFailed) /\ Return(t, "PM_FAIL")
  /\ UNCHANGED <<threadVars, controlVars, terminated>>

(* The flag is set and a std::thread assigned to m_threadMonitor. Assigning *)
(* to a joinable thread calls std::terminate. If the constructor of the     *)
(* thread throws, the exception leaves Start() with the flag set.           *)
SpawnMonitor(t) ==
  /\ pc[t] = "spawn"
  /\ m_bIsProcessStartedByPlugin' = TRUE
  /\ \/ /\ terminated' = m_threadMonitor
        /\ m_threadMonitor' = TRUE
        /\ monitor' = "top"
        /\ Return(t, "PM_OK")
        /\ UNCHANGED hWait
     \/ /\ SpawnCanFail
        /\ Return(t, "PM_FAIL")
        /\ UNCHANGED <<threadVars, terminated>>
  /\ UNCHANGED <<agentVars, handleVars, m_mutex>>

-----------------------------------------------------------------------------
(* Stop() on a caller's thread; stopProcess() runs under m_mutex.           *)

StopLock(t) ==
  /\ pc[t] = "stop"
  /\ MutexFree
  /\ ClearFlag
  /\ \/ /\ ~m_bIsProcessStartedByPlugin
        /\ GoTo(t, "join")
        /\ UNCHANGED <<m_hChildStdinWr, m_mutex, status>>
     \/ /\ m_bIsProcessStartedByPlugin
        /\ m_hChildStdinWr' = InvalidHandle
        /\ \/ /\ m_hProcess = InvalidHandle
              /\ Return(t, "PM_FAIL")
              /\ UNCHANGED m_mutex
           \/ /\ m_hProcess # InvalidHandle
              /\ GoTo(t, "stopWait")
              /\ m_mutex' = t
              /\ UNCHANGED status
  /\ UNCHANGED <<agentVars, m_hProcess, threadVars, terminated>>

(* The agent has ended by itself within the minute it is given.             *)
StopWaitDone(t) ==
  /\ pc[t] = "stopWait"
  /\ agents[m_hProcess] = "dead"
  /\ Unlock
  /\ GoTo(t, "join")
  /\ UNCHANGED <<agentVars, handleVars, threadVars, status, terminated,
                 m_bIsProcessStartedByPlugin>>

StopWaitTimeout(t) ==
  /\ pc[t] = "stopWait"
  /\ agents[m_hProcess] # "dead"
  /\ GoTo(t, "terminate")
  /\ UNCHANGED <<agentVars, handleVars, threadVars, controlVars, status,
                 terminated>>

(* TerminateProcess() fails on an agent that has ended since the timeout,   *)
(* and may fail on one that runs. It does not wait for the agent's end, yet *)
(* the handle the monitor waits on is closed.                               *)
StopTerminate(t) ==
  /\ pc[t] = "terminate"
  /\ Unlock
  /\ \/ /\ Running(m_hProcess)
        /\ agents' = [agents EXCEPT ![m_hProcess] = "terminating"]
        /\ m_hProcess' = InvalidHandle
        /\ GoTo(t, "join")
        /\ UNCHANGED status
     \/ TerminateFails(t)
  /\ UNCHANGED <<own, m_hChildStdinWr, threadVars, terminated,
                 m_bIsProcessStartedByPlugin>>

StopJoin(t) ==
  /\ pc[t] = "join"
  /\ m_threadMonitor => monitor = "exited"
  /\ m_threadMonitor' = FALSE
  /\ monitor' = "none"
  /\ Return(t, "PM_OK")
  /\ UNCHANGED <<agentVars, handleVars, hWait, controlVars, terminated>>

-----------------------------------------------------------------------------
(* monitorProcess() on the monitor thread.                                  *)

(* waitForProcess() reads m_hProcess without m_mutex ...                    *)
MonitorRead ==
  /\ monitor = "top"
  /\ hWait' = m_hProcess
  /\ monitor' = "read"
  /\ UNCHANGED <<agentVars, handleVars, m_threadMonitor, controlVars, callVars,
                 terminated>>

(* ... and then waits on what it read, unless that handle is gone.          *)
MonitorCall ==
  /\ monitor = "read"
  /\ \/ /\ hWait # InvalidHandle /\ hWait = m_hProcess
        /\ monitor' = "waiting"
        /\ UNCHANGED hWait
     \/ /\ hWait = InvalidHandle \/ hWait # m_hProcess
        /\ monitor' \in BadWait
        /\ hWait' = InvalidHandle
  /\ UNCHANGED <<agentVars, handleVars, m_threadMonitor, controlVars, callVars,
                 terminated>>

MonitorSignalled ==
  /\ monitor = "waiting"
  /\ agents[hWait] = "dead"
  /\ monitor' = "signalled"
  /\ hWait' = InvalidHandle
  /\ UNCHANGED <<agentVars, handleVars, m_threadMonitor, controlVars, callVars,
                 terminated>>

(* Closing a handle while a thread waits on it leaves the outcome of the    *)
(* wait open: it may also fail, and the loop ends.                          *)
MonitorWaitFails ==
  /\ monitor = "waiting"
  /\ hWait # m_hProcess
  /\ monitor' = "exited"
  /\ hWait' = InvalidHandle
  /\ UNCHANGED <<agentVars, handleVars, m_threadMonitor, controlVars, callVars,
                 terminated>>

(* With m_mutex: leave if the end was asked for, else sleep, keeping it.    *)
MonitorLock ==
  /\ monitor = "signalled"
  /\ MutexFree
  /\ \/ /\ ~EndAskedFor
        /\ m_mutex' = Monitor
        /\ monitor' = "restart"
     \/ /\ EndAskedFor
        /\ monitor' = "exited"
        /\ UNCHANGED m_mutex
  /\ UNCHANGED <<agentVars, handleVars, m_threadMonitor, hWait, callVars,
                 m_bIsProcessStartedByPlugin, terminated>>

(* After the restart delay; the result of startProcess() is not looked at.  *)
MonitorRestart ==
  /\ monitor = "restart"
  /\ Launched \/ LaunchRefused \/ LaunchFailed
  /\ Unlock
  /\ monitor' = "top"
  /\ UNCHANGED <<m_threadMonitor, hWait, m_bIsProcessStartedByPlugin, callVars,
                 terminated>>

MonitorThread ==
  MonitorRead \/ MonitorCall \/ MonitorSignalled \/ MonitorWaitFails
    \/ MonitorLock \/ MonitorRestart

-----------------------------------------------------------------------------
(* The agent ends: by itself, because its stdin was closed, or killed.      *)
AgentEnds(a) ==
  /\ agents[a] # "dead"
  /\ agents' = [agents EXCEPT ![a] = "dead"]
  /\ own' = own \ {a}
  /\ UNCHANGED <<handleVars, threadVars, controlVars, callVars, terminated>>

=============================================================================
