----------------------- MODULE PmControlPluginProofs -----------------------
(***************************************************************************)
(* Theorems about PmControlPlugin, for any set of callers and of agents and *)
(* whatever Windows makes of a wait on a bad handle.                       *)
(*                                                                         *)
(* The argument: IInv is inductive. A step of a caller is alone (CallsFit), *)
(* Start() finds no monitor thread (ThreadFits), and a monitor that has     *)
(* seen its wait return finds no agent of this service running (WaitFits),  *)
(* so a launch by either meets none; Stop() reaches the agent because the   *)
(* handle is given up only when the agent is being terminated.             *)
(* JoinIInv, for std::terminate, does without the assumption that the      *)
(* monitor thread can be created.                                          *)
(***************************************************************************)
EXTENDS PmControlPlugin, TLAPS

(* Every step keeps the variables in their types.                           *)
LEMMA TypeStep == TypeOK /\ [Next]_vars => TypeOK'
  <1> SUFFICES ASSUME TypeOK, [Next]_vars
               PROVE  TypeOK'
    OBVIOUS
  <1> USE ControllerAssumption DEF TypeOK, ControllerTypeOK, Handle, Watching, Operation,
        GoTo, Return, agentVars, handleVars, threadVars, controlVars, callVars, pluginVars
  <1>1. ASSUME NEW t \in Caller, StartSteps(t), UNCHANGED pluginVars
        PROVE  TypeOK'
    <2>1. CASE KillIfRunning(t)
      BY <1>1, <2>1 DEF KillIfRunning
    <2>2. CASE StartProcess(t)
      BY <1>1, <2>2 DEF StartProcess, Launched, LaunchRefused, LaunchFailed, Cleanup
    <2>3. CASE SpawnMonitor(t)
      <3>1. terminated' \in BOOLEAN /\ m_threadMonitor' \in BOOLEAN
        BY <1>1, <2>3, Zenon DEF SpawnMonitor
      <3>2. status' \in [Caller -> {"PM_OK", "PM_FAIL"}]
        BY <1>1, <2>3 DEF SpawnMonitor
      <3>3. pc' = [pc EXCEPT ![t] = "returned"]
        BY <1>1, <2>3 DEF SpawnMonitor
      <3> QED
        BY <1>1, <2>3, <3>1, <3>2, <3>3 DEF SpawnMonitor
    <2> QED
      BY <1>1, <2>1, <2>2, <2>3 DEF StartSteps
  <1>2. ASSUME NEW t \in Caller, StopSteps(t), UNCHANGED pluginVars
        PROVE  TypeOK'
    <2>1. CASE StopLock(t)
      BY <1>2, <2>1 DEF StopLock, MutexFree, ClearFlag
    <2>2. CASE StopWaitDone(t) \/ StopWaitTimeout(t)
      BY <1>2, <2>2 DEF StopWaitDone, StopWaitTimeout, Unlock
    <2>3. CASE StopTerminate(t)
      BY <1>2, <2>3 DEF StopTerminate, Unlock, TerminateFails
    <2>4. CASE StopJoin(t)
      BY <1>2, <2>4 DEF StopJoin
    <2> QED
      BY <1>2, <2>1, <2>2, <2>3, <2>4 DEF StopSteps
  <1>3. ASSUME MonitorThread, UNCHANGED pluginVars
        PROVE  TypeOK'
    <2>1. CASE MonitorRead \/ MonitorSignalled \/ MonitorWaitFails
      BY <1>3, <2>1 DEF MonitorRead, MonitorSignalled, MonitorWaitFails
    <2>2. CASE MonitorCall
      BY <1>3, <2>2 DEF MonitorCall
    <2>3. CASE MonitorLock
      BY <1>3, <2>3 DEF MonitorLock, MutexFree, EndAskedFor
    <2>4. CASE MonitorRestart
      BY <1>3, <2>4 DEF MonitorRestart, Launched, LaunchRefused, LaunchFailed, Cleanup, Unlock
    <2> QED
      BY <1>3, <2>1, <2>2, <2>3, <2>4 DEF MonitorThread
  <1>4. ASSUME NEW t \in Caller, PluginSteps(t)
        PROVE  TypeOK'
    <2>1. CASE CallStart(t) \/ CallStop(t) \/ CallUnload(t)
      BY <1>4, <2>1 DEF CallStart, CallStop, CallUnload, Begin
    <2>2. CASE ReturnStart(t) \/ ReturnStop(t) \/ FreeLibrary(t)
      BY <1>4, <2>2 DEF ReturnStart, ReturnStop, FreeLibrary, Begin, End, StartedAfterStop
    <2>3. CASE Destroy(t)
      BY <1>4, <2>3 DEF Destroy, End, Cleanup
    <2> QED
      BY <1>4, <2>1, <2>2, <2>3 DEF PluginSteps
  <1>5. ASSUME NEW a \in Agent, AgentEnds(a), UNCHANGED pluginVars
        PROVE  TypeOK'
    BY <1>5 DEF AgentEnds
  <1>6. CASE ServiceCrash
    BY <1>6 DEF ServiceCrash
  <1>7. CASE UNCHANGED vars
    BY <1>7 DEF vars
  <1> QED
    BY <1>1, <1>2, <1>3, <1>4, <1>5, <1>6, <1>7 DEF Next, ServiceStep, EnvironmentStep
(* Start() on a caller's thread keeps the invariant. *)
LEMMA StartKeepsIInv ==
  ASSUME NEW t \in Caller, IInv, SpawnCanFail = FALSE, TypeOK', StartSteps(t), UNCHANGED pluginVars
  PROVE  IInv'
  <1> USE ControllerAssumption DEF IInv, TypeOK, ControllerTypeOK, Starting, Stopping, NoneRuns, Running, Handle, Watching, Operation, GoTo, Return,
      MutexFree, Unlock, agentVars, handleVars, threadVars, controlVars, callVars, pluginVars
  <1>1. CASE KillIfRunning(t)
    BY <1>1 DEF KillIfRunning, NoStdTerminate, AgentReachable,
       CallsFit, MutexFits, FlagFits, ThreadFits, WaitFits, PipeFits
  <1>2. CASE StartProcess(t)
    <2>1. NoStdTerminate' /\ AgentReachable' /\ WaitFits' /\ PipeFits'
      BY <1>2 DEF StartProcess, Launched, LaunchRefused, LaunchFailed, Cleanup, NoStdTerminate,
         AgentReachable, CallsFit, FlagFits, ThreadFits, WaitFits, PipeFits
    <2>2. CallsFit' /\ MutexFits' /\ FlagFits'
      BY <1>2 DEF StartProcess, Launched, LaunchRefused, LaunchFailed, Cleanup,
         CallsFit, MutexFits, FlagFits, ThreadFits
    <2>3. ThreadFits'
      BY <1>2 DEF StartProcess, Launched, LaunchRefused, LaunchFailed, Cleanup,
         AgentReachable, CallsFit, MutexFits, FlagFits, ThreadFits, WaitFits
    <2> QED
      BY <2>1, <2>2, <2>3
  <1>3. CASE SpawnMonitor(t)
    <2>1. NoStdTerminate' /\ AgentReachable' /\ WaitFits' /\ PipeFits'
      BY <1>3 DEF SpawnMonitor, NoStdTerminate,
         AgentReachable, CallsFit, FlagFits, ThreadFits, WaitFits, PipeFits
    <2>2. CallsFit' /\ MutexFits' /\ FlagFits'
      BY <1>3 DEF SpawnMonitor,
         CallsFit, MutexFits, FlagFits, ThreadFits
    <2>3. ThreadFits'
      BY <1>3 DEF SpawnMonitor,
         AgentReachable, CallsFit, MutexFits, FlagFits, ThreadFits, WaitFits
    <2> QED
      BY <2>1, <2>2, <2>3
  <1> QED
    BY <1>1, <1>2, <1>3 DEF StartSteps

(* Stop() on a caller's thread keeps the invariant. *)
LEMMA StopKeepsIInv ==
  ASSUME NEW t \in Caller, IInv, SpawnCanFail = FALSE, TypeOK', StopSteps(t), UNCHANGED pluginVars
  PROVE  IInv'
  <1> USE ControllerAssumption DEF IInv, TypeOK, ControllerTypeOK, Starting, Stopping, NoneRuns, Running, Handle, Watching, Operation, GoTo, Return,
      MutexFree, Unlock, agentVars, handleVars, threadVars, controlVars, callVars, pluginVars
  <1>1. CASE StopLock(t)
    <2>1. NoStdTerminate' /\ AgentReachable' /\ WaitFits' /\ PipeFits'
      BY <1>1 DEF StopLock, ClearFlag, NoStdTerminate,
         AgentReachable, CallsFit, FlagFits, ThreadFits, WaitFits, PipeFits
    <2>2. CallsFit' /\ MutexFits' /\ FlagFits'
      BY <1>1 DEF StopLock, ClearFlag,
         CallsFit, MutexFits, FlagFits, ThreadFits
    <2>3. ThreadFits'
      BY <1>1 DEF StopLock, ClearFlag,
         AgentReachable, CallsFit, MutexFits, FlagFits, ThreadFits, WaitFits
    <2> QED
      BY <2>1, <2>2, <2>3
  <1>2. CASE StopWaitDone(t)
    BY <1>2 DEF StopWaitDone, NoStdTerminate, AgentReachable,
       CallsFit, MutexFits, FlagFits, ThreadFits, WaitFits, PipeFits
  <1>3. CASE StopWaitTimeout(t)
    BY <1>3 DEF StopWaitTimeout, NoStdTerminate, AgentReachable,
       CallsFit, MutexFits, FlagFits, ThreadFits, WaitFits, PipeFits
  <1>4. CASE StopTerminate(t)
    <2>1. NoStdTerminate' /\ AgentReachable' /\ WaitFits' /\ PipeFits'
      BY <1>4 DEF StopTerminate, TerminateFails, NoStdTerminate,
         AgentReachable, CallsFit, FlagFits, ThreadFits, WaitFits, PipeFits
    <2>2. CallsFit' /\ MutexFits' /\ FlagFits'
      BY <1>4 DEF StopTerminate, TerminateFails,
         CallsFit, MutexFits, FlagFits, ThreadFits
    <2>3. ThreadFits'
      BY <1>4 DEF StopTerminate, TerminateFails,
         AgentReachable, CallsFit, MutexFits, FlagFits, ThreadFits, WaitFits
    <2> QED
      BY <2>1, <2>2, <2>3
  <1>5. CASE StopJoin(t)
    <2>1. NoStdTerminate' /\ AgentReachable' /\ WaitFits' /\ PipeFits'
      BY <1>5 DEF StopJoin, NoStdTerminate,
         AgentReachable, CallsFit, FlagFits, ThreadFits, WaitFits, PipeFits
    <2>2. CallsFit' /\ MutexFits' /\ FlagFits'
      BY <1>5 DEF StopJoin,
         CallsFit, MutexFits, FlagFits, ThreadFits
    <2>3. ThreadFits'
      BY <1>5 DEF StopJoin,
         AgentReachable, CallsFit, MutexFits, FlagFits, ThreadFits, WaitFits
    <2> QED
      BY <2>1, <2>2, <2>3
  <1> QED
    BY <1>1, <1>2, <1>3, <1>4, <1>5 DEF StopSteps

(* The monitor thread keeps the invariant. *)
LEMMA MonitorKeepsIInv ==
  ASSUME IInv, SpawnCanFail = FALSE, TypeOK', MonitorThread, UNCHANGED pluginVars
  PROVE  IInv'
  <1> USE ControllerAssumption DEF IInv, TypeOK, ControllerTypeOK, Starting, Stopping, NoneRuns, Running, Handle, Watching, Operation, GoTo, Return,
      MutexFree, Unlock, agentVars, handleVars, threadVars, controlVars, callVars, pluginVars
  <1>1. CASE MonitorRead
    BY <1>1 DEF MonitorRead, NoStdTerminate, AgentReachable,
       CallsFit, MutexFits, FlagFits, ThreadFits, WaitFits, PipeFits
  <1>2. CASE MonitorCall
    <2>1. NoStdTerminate' /\ AgentReachable' /\ WaitFits' /\ PipeFits'
      BY <1>2 DEF MonitorCall, NoStdTerminate,
         AgentReachable, CallsFit, FlagFits, ThreadFits, WaitFits, PipeFits
    <2>2. CallsFit' /\ MutexFits' /\ FlagFits'
      BY <1>2 DEF MonitorCall,
         CallsFit, MutexFits, FlagFits, ThreadFits
    <2>3. ThreadFits'
      BY <1>2 DEF MonitorCall,
         AgentReachable, CallsFit, MutexFits, FlagFits, ThreadFits, WaitFits
    <2> QED
      BY <2>1, <2>2, <2>3
  <1>3. CASE MonitorSignalled
    BY <1>3 DEF MonitorSignalled, NoStdTerminate, AgentReachable,
       CallsFit, MutexFits, FlagFits, ThreadFits, WaitFits, PipeFits
  <1>4. CASE MonitorWaitFails
    BY <1>4 DEF MonitorWaitFails, NoStdTerminate, AgentReachable,
       CallsFit, MutexFits, FlagFits, ThreadFits, WaitFits, PipeFits
  <1>5. CASE MonitorLock
    <2>1. NoStdTerminate' /\ AgentReachable' /\ WaitFits' /\ PipeFits'
      BY <1>5 DEF MonitorLock, EndAskedFor, NoStdTerminate,
         AgentReachable, CallsFit, FlagFits, ThreadFits, WaitFits, PipeFits
    <2>2. CallsFit' /\ MutexFits' /\ FlagFits'
      BY <1>5 DEF MonitorLock, EndAskedFor,
         CallsFit, MutexFits, FlagFits, ThreadFits
    <2>3. ThreadFits'
      BY <1>5 DEF MonitorLock, EndAskedFor,
         AgentReachable, CallsFit, MutexFits, FlagFits, ThreadFits, WaitFits
    <2> QED
      BY <2>1, <2>2, <2>3
  <1>6. CASE MonitorRestart
    <2>1. NoStdTerminate' /\ AgentReachable' /\ WaitFits' /\ PipeFits'
      BY <1>6 DEF MonitorRestart, Launched, LaunchRefused, LaunchFailed, Cleanup, NoStdTerminate,
         AgentReachable, CallsFit, FlagFits, ThreadFits, WaitFits, PipeFits
    <2>2. CallsFit' /\ MutexFits' /\ FlagFits'
      BY <1>6 DEF MonitorRestart, Launched, LaunchRefused, LaunchFailed, Cleanup,
         CallsFit, MutexFits, FlagFits, ThreadFits
    <2>3. ThreadFits'
      BY <1>6 DEF MonitorRestart, Launched, LaunchRefused, LaunchFailed, Cleanup,
         AgentReachable, CallsFit, MutexFits, FlagFits, ThreadFits, WaitFits
    <2> QED
      BY <2>1, <2>2, <2>3
  <1> QED
    BY <1>1, <1>2, <1>3, <1>4, <1>5, <1>6 DEF MonitorThread

(* The exported functions and the unloading keep the invariant. *)
LEMMA PluginKeepsIInv ==
  ASSUME NEW t \in Caller, IInv, SpawnCanFail = FALSE, TypeOK', PluginSteps(t)
  PROVE  IInv'
  <1> USE ControllerAssumption DEF IInv, TypeOK, ControllerTypeOK, Starting, Stopping, NoneRuns, Running, Handle, Watching, Operation, GoTo, Return,
      MutexFree, Unlock, agentVars, handleVars, threadVars, controlVars, callVars, pluginVars
  <1>1. CASE CallStart(t)
    BY <1>1 DEF CallStart, Begin, Loaded, NoStdTerminate, AgentReachable,
       CallsFit, MutexFits, FlagFits, ThreadFits, WaitFits, PipeFits
  <1>2. CASE ReturnStart(t)
    BY <1>2 DEF ReturnStart, End, NoStdTerminate, AgentReachable,
       CallsFit, MutexFits, FlagFits, ThreadFits, WaitFits, PipeFits
  <1>3. CASE CallStop(t)
    BY <1>3 DEF CallStop, Begin, Loaded, NoStdTerminate, AgentReachable,
       CallsFit, MutexFits, FlagFits, ThreadFits, WaitFits, PipeFits
  <1>4. CASE ReturnStop(t)
    <2>1. NoStdTerminate' /\ AgentReachable' /\ WaitFits' /\ PipeFits'
      BY <1>4 DEF ReturnStop, End, StartedAfterStop, NoStdTerminate,
         AgentReachable, CallsFit, FlagFits, ThreadFits, WaitFits, PipeFits
    <2>2. CallsFit' /\ MutexFits' /\ FlagFits'
      BY <1>4 DEF ReturnStop, End, StartedAfterStop,
         CallsFit, MutexFits, FlagFits, ThreadFits
    <2>3. ThreadFits'
      BY <1>4 DEF ReturnStop, End, StartedAfterStop,
         AgentReachable, CallsFit, MutexFits, FlagFits, ThreadFits, WaitFits
    <2> QED
      BY <2>1, <2>2, <2>3
  <1>5. CASE CallUnload(t)
    <2>1. NoStdTerminate' /\ AgentReachable' /\ WaitFits' /\ PipeFits'
      BY <1>5 DEF CallUnload, Begin, NoStdTerminate,
         AgentReachable, CallsFit, FlagFits, ThreadFits, WaitFits, PipeFits
    <2>2. CallsFit' /\ MutexFits' /\ FlagFits'
      BY <1>5 DEF CallUnload, Begin,
         CallsFit, MutexFits, FlagFits, ThreadFits
    <2>3. ThreadFits'
      BY <1>5 DEF CallUnload, Begin,
         AgentReachable, CallsFit, MutexFits, FlagFits, ThreadFits, WaitFits
    <2> QED
      BY <2>1, <2>2, <2>3
  <1>6. CASE FreeLibrary(t)
    <2>1. NoStdTerminate' /\ AgentReachable' /\ WaitFits' /\ PipeFits'
      BY <1>6 DEF FreeLibrary, Begin, StartedAfterStop, NoStdTerminate,
         AgentReachable, CallsFit, FlagFits, ThreadFits, WaitFits, PipeFits
    <2>2. CallsFit' /\ MutexFits' /\ FlagFits'
      BY <1>6 DEF FreeLibrary, Begin, StartedAfterStop,
         CallsFit, MutexFits, FlagFits, ThreadFits
    <2>3. ThreadFits'
      BY <1>6 DEF FreeLibrary, Begin, StartedAfterStop,
         AgentReachable, CallsFit, MutexFits, FlagFits, ThreadFits, WaitFits
    <2> QED
      BY <2>1, <2>2, <2>3
  <1>7. CASE Destroy(t)
    <2>1. NoStdTerminate' /\ AgentReachable' /\ WaitFits' /\ PipeFits'
      BY <1>7 DEF Destroy, End, Cleanup, NoStdTerminate,
         AgentReachable, CallsFit, FlagFits, ThreadFits, WaitFits, PipeFits
    <2>2. CallsFit' /\ MutexFits' /\ FlagFits'
      BY <1>7 DEF Destroy, End, Cleanup,
         CallsFit, MutexFits, FlagFits, ThreadFits
    <2>3. ThreadFits'
      BY <1>7 DEF Destroy, End, Cleanup,
         AgentReachable, CallsFit, MutexFits, FlagFits, ThreadFits, WaitFits
    <2> QED
      BY <2>1, <2>2, <2>3
  <1> QED
    BY <1>1, <1>2, <1>3, <1>4, <1>5, <1>6, <1>7 DEF PluginSteps

(* What happens outside the service keeps the invariant.                    *)
LEMMA EnvironmentKeepsIInv ==
  ASSUME IInv, TypeOK', EnvironmentStep
  PROVE  IInv'
  <1> USE ControllerAssumption DEF IInv, TypeOK, ControllerTypeOK, Starting, Stopping,
      NoneRuns, Running, Handle, Watching, Operation
  <1>1. CASE ServiceCrash
    <2>1. NoStdTerminate' /\ AgentReachable' /\ WaitFits' /\ PipeFits'
      BY <1>1 DEF ServiceCrash, NoStdTerminate, AgentReachable, WaitFits, PipeFits
    <2>2. CallsFit' /\ MutexFits' /\ FlagFits' /\ ThreadFits'
      BY <1>1 DEF ServiceCrash, CallsFit, MutexFits, FlagFits, ThreadFits
    <2> QED
      BY <2>1, <2>2
  <1>2. ASSUME NEW a \in Agent, AgentEnds(a), UNCHANGED pluginVars
        PROVE  IInv'
    BY <1>2 DEF AgentEnds, handleVars, threadVars, controlVars, callVars, pluginVars,
       NoStdTerminate, AgentReachable, CallsFit, MutexFits, FlagFits, ThreadFits,
       WaitFits, PipeFits
  <1> QED
    BY <1>1, <1>2 DEF EnvironmentStep

(* The invariant is inductive.                                              *)
LEMMA StepKeepsIInv ==
  ASSUME SpawnCanFail = FALSE, IInv, [Next]_vars
  PROVE  IInv'
  <1>1. TypeOK'
    BY TypeStep DEF IInv
  <1>2. CASE UNCHANGED vars
    BY <1>2 DEF vars, IInv, TypeOK, ControllerTypeOK, NoStdTerminate, AgentReachable,
       CallsFit, MutexFits, FlagFits, ThreadFits, WaitFits, PipeFits, Starting,
       Stopping, NoneRuns, Running
  <1>3. CASE ServiceStep
    BY <1>1, <1>3, StartKeepsIInv, StopKeepsIInv, MonitorKeepsIInv, PluginKeepsIInv
       DEF ServiceStep
  <1>4. CASE EnvironmentStep
    BY <1>1, <1>4, EnvironmentKeepsIInv
  <1> QED
    BY <1>2, <1>3, <1>4 DEF Next

(* A service that has just started satisfies the invariant.                 *)
LEMMA InitIInv == Init => IInv
  <1> SUFFICES ASSUME Init
               PROVE  IInv
    OBVIOUS
  <1> USE ControllerAssumption DEF Init, ControllerInit
  <1>1. TypeOK
    BY DEF TypeOK, ControllerTypeOK, Handle, Watching, Operation
  <1>2. NoStdTerminate /\ AgentReachable /\ WaitFits /\ PipeFits
    BY DEF NoStdTerminate, AgentReachable, WaitFits, PipeFits
  <1>3. CallsFit /\ MutexFits /\ FlagFits /\ ThreadFits
    BY DEF CallsFit, MutexFits, FlagFits, ThreadFits, Starting, Stopping, NoneRuns
  <1> QED
    BY <1>1, <1>2, <1>3 DEF IInv

-----------------------------------------------------------------------------
(* The variables keep their types, whether or not threads can be created.   *)
THEOREM TypeCorrect == SafetySpec => []TypeOK
  <1>1. Init => TypeOK
    BY InitIInv DEF IInv
  <1> QED
    BY <1>1, TypeStep, PTL DEF SafetySpec

(* The inductive invariant holds in every reachable state.                  *)
THEOREM Invariance ==
  ASSUME SpawnCanFail = FALSE
  PROVE  SafetySpec => []IInv
  <1>1. IInv /\ [Next]_vars => IInv'
    BY StepKeepsIInv
  <1> QED
    BY InitIInv, <1>1, PTL DEF SafetySpec

(* A running agent of this service is always the one in m_hProcess, so there *)
(* is never more than one and Stop() can reach it.                           *)
THEOREM AgentStaysReachable ==
  ASSUME SpawnCanFail = FALSE
  PROVE  SafetySpec => []AgentReachable
  <1>1. IInv => AgentReachable
    BY DEF IInv
  <1> QED
    BY <1>1, Invariance, PTL

(* The pipe of a supervised agent is not closed under it.                   *)
THEOREM PipeStaysOpen ==
  ASSUME SpawnCanFail = FALSE
  PROVE  SafetySpec => []PipeKeptOpen
  <1>1. IInv => PipeKeptOpen
    BY DEF IInv, PipeFits, PipeKeptOpen
  <1> QED
    BY <1>1, Invariance, PTL

(* When the plugin says "not started" and no call is in progress, no agent   *)
(* and no thread of the last run is left.                                    *)
THEOREM NothingLeftBehind ==
  ASSUME SpawnCanFail = FALSE
  PROVE  SafetySpec => []QuietWhenNotStarted
  <1>1. IInv => QuietWhenNotStarted
    BY DEF IInv, TypeOK, ControllerTypeOK, CallsFit, ThreadFits, NoneRuns, Running,
       QuietWhenNotStarted
  <1> QED
    BY <1>1, Invariance, PTL

(* The monitor's restart is not concurrent with Start() or stopProcess().    *)
THEOREM RestartIsAlone ==
  ASSUME SpawnCanFail = FALSE
  PROVE  SafetySpec => []RestartAlone
  <1>1. IInv => RestartAlone
    BY ControllerAssumption
       DEF IInv, MutexFits, ThreadFits, Starting, RestartAlone
  <1> QED
    BY <1>1, Invariance, PTL

-----------------------------------------------------------------------------
(* Whether or not the monitor thread can be created: JoinIInv is inductive.  *)

LEMMA StartKeepsJoins ==
  ASSUME NEW t \in Caller, JoinIInv, StartSteps(t), UNCHANGED pluginVars
  PROVE  NoStdTerminate' /\ CallsFit' /\ JoinFits'
  <1> USE DEF JoinIInv, TypeOK, ControllerTypeOK, Operation, Starting, Stopping, GoTo, Return,
              pluginVars, controlVars, threadVars
  <1>1. CASE KillIfRunning(t) \/ StartProcess(t)
    BY <1>1 DEF KillIfRunning, StartProcess, CallsFit, JoinFits, NoStdTerminate
  <1>2. CASE SpawnMonitor(t)
    <2>1. /\ op[t] = "start" /\ pc[t] = "spawn" /\ ~m_threadMonitor
          /\ pc' = [pc EXCEPT ![t] = "returned"]
          /\ \A u \in Caller : u # t => op[u] = "none"
      BY <1>2 DEF SpawnMonitor, CallsFit, JoinFits
    <2>2. NoStdTerminate'
      BY <1>2, <2>1 DEF SpawnMonitor, NoStdTerminate
    <2>3. CallsFit'
      BY <1>2, <2>1 DEF SpawnMonitor, CallsFit
    <2>4. JoinFits'
      BY <1>2, <2>1 DEF SpawnMonitor, JoinFits, CallsFit
    <2> QED
      BY <2>2, <2>3, <2>4
  <1> QED
    BY <1>1, <1>2 DEF StartSteps

LEMMA StopKeepsJoins ==
  ASSUME NEW t \in Caller, JoinIInv, StopSteps(t), UNCHANGED pluginVars
  PROVE  NoStdTerminate' /\ CallsFit' /\ JoinFits'
  <1> USE DEF JoinIInv, TypeOK, ControllerTypeOK, Operation, Starting, Stopping, GoTo, Return,
              pluginVars, controlVars, threadVars
  <1>1. CASE StopLock(t)
    <2>1. NoStdTerminate' /\ CallsFit'
      BY <1>1 DEF StopLock, ClearFlag, CallsFit, NoStdTerminate
    <2>2. JoinFits'
      BY <1>1 DEF StopLock, ClearFlag, CallsFit, JoinFits
    <2> QED
      BY <2>1, <2>2
  <1>2. CASE StopWaitDone(t) \/ StopWaitTimeout(t)
    BY <1>2 DEF StopWaitDone, StopWaitTimeout, CallsFit, JoinFits, NoStdTerminate
  <1>3. CASE StopTerminate(t)
    BY <1>3 DEF StopTerminate, TerminateFails, CallsFit, JoinFits, NoStdTerminate
  <1>4. CASE StopJoin(t)
    BY <1>4 DEF StopJoin, CallsFit, JoinFits, NoStdTerminate
  <1> QED
    BY <1>1, <1>2, <1>3, <1>4 DEF StopSteps

LEMMA PluginKeepsJoins ==
  ASSUME NEW t \in Caller, JoinIInv, PluginSteps(t)
  PROVE  NoStdTerminate' /\ CallsFit' /\ JoinFits'
  <1> USE ControllerAssumption
      DEF JoinIInv, TypeOK, ControllerTypeOK, Operation, Starting, Stopping, GoTo,
          controlVars, threadVars
  <1>1. CASE CallStart(t)
    BY <1>1 DEF CallStart, Begin, Loaded, CallsFit, JoinFits, NoStdTerminate
  <1>2. CASE CallStop(t)
    BY <1>2 DEF CallStop, Begin, Loaded, CallsFit, JoinFits, NoStdTerminate
  <1>3. CASE CallUnload(t)
    BY <1>3 DEF CallUnload, Begin, CallsFit, JoinFits, NoStdTerminate
  <1>4. CASE ReturnStart(t)
    BY <1>4 DEF ReturnStart, End, CallsFit, JoinFits, NoStdTerminate
  <1>5. CASE ReturnStop(t)
    BY <1>5 DEF ReturnStop, End, StartedAfterStop, CallsFit, JoinFits, NoStdTerminate
  <1>6. CASE FreeLibrary(t)
    BY <1>6 DEF FreeLibrary, Begin, StartedAfterStop, CallsFit, JoinFits, NoStdTerminate
  <1>7. CASE Destroy(t)
    BY <1>7 DEF Destroy, End, CallsFit, JoinFits, NoStdTerminate
  <1> QED
    BY <1>1, <1>2, <1>3, <1>4, <1>5, <1>6, <1>7 DEF PluginSteps

LEMMA OthersKeepJoins ==
  ASSUME JoinIInv,
         \/ MonitorThread /\ UNCHANGED pluginVars
         \/ EnvironmentStep
         \/ UNCHANGED vars
  PROVE  NoStdTerminate' /\ CallsFit' /\ JoinFits'
  <1> USE DEF JoinIInv, CallsFit, JoinFits, NoStdTerminate, Starting, Stopping
  <1>1. CASE MonitorThread /\ UNCHANGED pluginVars
    <2>1. UNCHANGED <<pc, status, terminated, m_threadMonitor, m_bIsProcessStartedByPlugin>>
      BY <1>1 DEF MonitorThread, MonitorRead, MonitorCall, MonitorSignalled, MonitorWaitFails,
                  MonitorLock, MonitorRestart, callVars, controlVars
    <2> QED
      BY <1>1, <2>1 DEF pluginVars
  <1>2. CASE ServiceCrash
    BY <1>2, ControllerAssumption DEF ServiceCrash
  <1>3. ASSUME NEW a \in Agent, AgentEnds(a), UNCHANGED pluginVars
        PROVE  NoStdTerminate' /\ CallsFit' /\ JoinFits'
    BY <1>3 DEF AgentEnds, callVars, controlVars, threadVars, pluginVars
  <1>4. CASE UNCHANGED vars
    BY <1>4 DEF vars
  <1> QED
    BY <1>1, <1>2, <1>3, <1>4 DEF EnvironmentStep

(* No sequence of calls, crashes and agent ends makes the C++ runtime end   *)
(* the service over a joinable std::thread, even when the monitor thread     *)
(* cannot be created (PmAgentController::Start, Stop, ~PmAgentController).   *)
THEOREM NeverTerminates == SafetySpec => []NoStdTerminate
  <1>1. Init => JoinIInv
    <2>1. Init => IInv
      BY InitIInv
    <2>2. Init => JoinFits
      BY DEF Init, ControllerInit, JoinFits, Starting
    <2> QED
      BY <2>1, <2>2 DEF IInv, JoinIInv
  <1>2. JoinIInv /\ [Next]_vars => JoinIInv'
    <2> SUFFICES ASSUME JoinIInv, [Next]_vars
                 PROVE  JoinIInv'
      OBVIOUS
    <2>1. TypeOK'
      BY TypeStep DEF JoinIInv
    <2>2. NoStdTerminate' /\ CallsFit' /\ JoinFits'
      BY StartKeepsJoins, StopKeepsJoins, PluginKeepsJoins, OthersKeepJoins DEF Next, ServiceStep
    <2> QED
      BY <2>1, <2>2 DEF JoinIInv
  <1>3. JoinIInv => NoStdTerminate
    BY DEF JoinIInv
  <1> QED
    BY <1>1, <1>2, <1>3, PTL DEF SafetySpec

-----------------------------------------------------------------------------
(* Threads that wait for one another. Who waits for m_mutex waits for a       *)
(* thread that waits for no lock: Stop() for the monitor in its restart       *)
(* delay, the monitor for a Stop() that waits for the agent with a time limit. *)
(* Who joins the monitor holds nothing the monitor needs, and has told it to   *)
(* leave.                                                                     *)
WaitsEnd ==
  /\ \A t \in Caller : pc[t] = "stop" /\ ~MutexFree => m_mutex = Monitor /\ monitor = "restart"
  /\ monitor = "signalled" /\ ~MutexFree =>
       \E t \in Caller : m_mutex = t /\ pc[t] \in {"stopWait", "terminate"}
  /\ \A t \in Caller : pc[t] = "join" => MutexFree /\ EndAskedFor

(* Stop(), the join and the monitor never wait for one another in a circle    *)
(* (PmAgentController::Stop, stopProcess, monitorProcess).                    *)
THEOREM NoCircularWait ==
  ASSUME SpawnCanFail = FALSE
  PROVE  SafetySpec => []WaitsEnd
  <1>1. ASSUME IInv
        PROVE  WaitsEnd
    <2> USE <1>1 DEF IInv, TypeOK, ControllerTypeOK, MutexFits, MutexFree
    <2>1. \A t, u \in Caller : pc[t] # "idle" /\ pc[u] # "idle" => t = u
      BY DEF CallsFit, Operation
    <2>2. ASSUME NEW t \in Caller, pc[t] = "stop", ~MutexFree
          PROVE  m_mutex = Monitor /\ monitor = "restart"
      BY <2>1, <2>2
    <2>3. ASSUME monitor = "signalled", ~MutexFree
          PROVE  \E t \in Caller : m_mutex = t /\ pc[t] \in {"stopWait", "terminate"}
      BY <2>3
    <2>4. ASSUME NEW t \in Caller, pc[t] = "join"
          PROVE  MutexFree /\ EndAskedFor
      BY <2>1, <2>4 DEF FlagFits, EndAskedFor
    <2> QED
      BY <2>2, <2>3, <2>4 DEF WaitsEnd
  <1> QED
    BY <1>1, Invariance, PTL

-----------------------------------------------------------------------------
(* The safety part of AgentComesBack: while the agent is wanted, the monitor   *)
(* is lost only after a launch that failed and left no handle to wait on; the  *)
(* end of an agent, whenever it comes, never costs the supervision.           *)
MonitorLost == monitor \in {"exited", "blocked"}
LostWithoutHandle ==
  m_bIsProcessStartedByPlugin /\ MonitorLost => m_hProcess = InvalidHandle

(* PmAgentController::monitorProcess(), waitForProcess(), startProcess().      *)
THEOREM MonitorStays ==
  ASSUME SpawnCanFail = FALSE
  PROVE  SafetySpec => []LostWithoutHandle
  <1>1. Init => LostWithoutHandle
    BY DEF Init, ControllerInit, LostWithoutHandle
  <1>2. ASSUME IInv, LostWithoutHandle, [Next]_vars
        PROVE  LostWithoutHandle'
    <2> USE <1>2 DEF IInv, LostWithoutHandle, MonitorLost
    <2>1. ASSUME NEW t \in Caller, StartSteps(t)
          PROVE  LostWithoutHandle'
      <3>1. monitor = "none" \/ UNCHANGED <<m_hProcess, monitor, m_bIsProcessStartedByPlugin>>
        BY <2>1 DEF StartSteps, KillIfRunning, StartProcess, SpawnMonitor, ThreadFits, Starting,
                    handleVars, threadVars, controlVars
      <3>2. monitor' \in {monitor, "top"}
        BY <2>1 DEF StartSteps, KillIfRunning, StartProcess, SpawnMonitor, threadVars
      <3> QED
        BY <3>1, <3>2
    <2>2. ASSUME NEW t \in Caller, StopSteps(t)
          PROVE  LostWithoutHandle'
      <3>1. ~m_bIsProcessStartedByPlugin' \/ UNCHANGED <<m_hProcess, monitor, m_bIsProcessStartedByPlugin>>
        BY <2>2 DEF StopSteps, StopLock, ClearFlag, StopWaitDone, StopWaitTimeout, StopTerminate,
                    StopJoin, FlagFits, handleVars, threadVars, controlVars
      <3> QED
        BY <3>1
    <2>3. CASE MonitorThread
      <3>1. CASE MonitorRead \/ MonitorSignalled \/ MonitorRestart
        BY <3>1 DEF MonitorRead, MonitorSignalled, MonitorRestart
      <3>2. CASE MonitorCall \/ MonitorWaitFails
        <4>1. monitor \in {"read", "waiting"} /\ UNCHANGED m_hProcess
          BY <3>2 DEF MonitorCall, MonitorWaitFails, handleVars
        <4>2. monitor' = "waiting" \/ hWait = InvalidHandle \/ hWait # m_hProcess
          BY <3>2 DEF MonitorCall, MonitorWaitFails
        <4> QED
          BY <4>1, <4>2 DEF WaitFits
      <3>3. CASE MonitorLock
        BY <3>3 DEF MonitorLock, EndAskedFor
      <3> QED
        BY <2>3, <3>1, <3>2, <3>3 DEF MonitorThread
    <2>4. ASSUME NEW t \in Caller, PluginSteps(t)
          PROVE  LostWithoutHandle'
      BY <2>4 DEF PluginSteps, CallStart, ReturnStart, CallStop, ReturnStop, CallUnload,
                  FreeLibrary, Destroy, handleVars, threadVars, controlVars
    <2>5. CASE EnvironmentStep
      BY <2>5 DEF EnvironmentStep, ServiceCrash, AgentEnds, handleVars, threadVars, controlVars
    <2>6. CASE UNCHANGED vars
      BY <2>6 DEF vars
    <2> QED
      BY <2>1, <2>2, <2>3, <2>4, <2>5, <2>6 DEF Next, ServiceStep
  <1> QED
    BY <1>1, <1>2, Invariance, PTL DEF SafetySpec

-----------------------------------------------------------------------------
(* A launch happens only while a start is in progress or the agent is wanted, *)
(* and meets no running agent of this service.                               *)
THEOREM LaunchesAreWanted ==
  ASSUME SpawnCanFail = FALSE
  PROVE  SafetySpec => LaunchOnlyWhenWanted
  <1> DEFINE A == own' \ own # {} =>
                    /\ \/ \E t \in Caller : op[t] = "start"
                       \/ m_bIsProcessStarted /\ m_bIsProcessStartedByPlugin
                    /\ \A a \in own : ~Running(a)
  <1>1. ASSUME IInv, Next
        PROVE  A
    <2> USE <1>1 DEF IInv, TypeOK, ControllerTypeOK
    <2>1. ASSUME NEW t \in Caller, StartSteps(t)
          PROVE  A
      BY <2>1 DEF StartSteps, KillIfRunning, StartProcess, SpawnMonitor, agentVars,
         LaunchRefused, LaunchFailed, Launched, CallsFit, ThreadFits, Starting, Cleanup, NoneRuns
    <2>2. ASSUME NEW t \in Caller, StopSteps(t) \/ PluginSteps(t)
          PROVE  A
      BY <2>2 DEF StopSteps, PluginSteps, StopLock, StopWaitDone, StopWaitTimeout,
         StopTerminate, StopJoin, CallStart, ReturnStart, CallStop, ReturnStop,
         CallUnload, FreeLibrary, Destroy, agentVars
    <2>3. ASSUME MonitorThread
          PROVE  A
      BY <2>3 DEF MonitorThread, MonitorRead, MonitorCall, MonitorSignalled,
         MonitorWaitFails, MonitorLock, MonitorRestart, LaunchRefused, LaunchFailed,
         Launched, agentVars, MutexFits, ThreadFits, WaitFits, NoneRuns
    <2>4. ASSUME EnvironmentStep
          PROVE  A
      BY <2>4 DEF EnvironmentStep, ServiceCrash, AgentEnds
    <2> QED
      BY <2>1, <2>2, <2>3, <2>4 DEF Next, ServiceStep
  <1>2. IInv /\ [Next]_vars => [A]_vars
    BY <1>1
  <1>3. SafetySpec => [][A]_vars
    BY <1>2, Invariance, PTL DEF SafetySpec
  <1> QED
    BY <1>3 DEF LaunchOnlyWhenWanted

-----------------------------------------------------------------------------
(* The control module implements AgentSupervision.                          *)

(* What AgentSupervision calls live is empty or the agent in m_hProcess.     *)
LEMMA LiveIsOne ==
  ASSUME IInv
  PROVE  /\ Live \subseteq {m_hProcess}
         /\ NoneRuns <=> Live = {}
  BY DEF IInv, AgentReachable, Live, NoneRuns

(* A step of Start() is a launch, or invisible from outside.                *)
LEMMA StartRefines ==
  ASSUME NEW t \in Caller, IInv, SpawnCanFail = FALSE, StartSteps(t), UNCHANGED pluginVars
  PROVE  [Supervisor!SupervisionNext]_Supervisor!supervision
  <1> USE DEF IInv, TypeOK, ControllerTypeOK, Supervisor!supervision, pluginVars, agentVars
  <1>1. Phase' = Phase
    BY DEF Phase
  <1>2. NoneRuns \/ pc[t] = "spawn"
    BY DEF StartSteps, KillIfRunning, StartProcess, SpawnMonitor, CallsFit, ThreadFits,
       Starting
  <1>3. CASE SpawnMonitor(t)
    BY <1>1, <1>3 DEF SpawnMonitor, Live, Running
  <1>4. CASE KillIfRunning(t)
    <2>1. Live' = Live
      BY <1>2, <1>4 DEF KillIfRunning, Live, Running, NoneRuns
    <2> QED
      BY <1>1, <2>1
  <1>5. CASE StartProcess(t)
    <2>1. NoneRuns /\ Phase # "off"
      BY <1>2, <1>5 DEF StartProcess, CallsFit, Starting, Phase
    <2>2. CASE Launched
      <3>1. PICK a \in Agent : /\ agents[a] = "dead"
                              /\ agents' = [agents EXCEPT ![a] = "running"]
                              /\ own' = own \cup {a}
        BY <2>2 DEF Launched
      <3>2. Live' = {a}
        BY <2>1, <3>1 DEF Live, NoneRuns, Running
      <3> QED
        BY <1>1, <2>1, <3>2, LiveIsOne DEF Supervisor!SupervisionNext, Supervisor!Launch
    <2>3. CASE LaunchRefused \/ LaunchFailed
      BY <1>1, <2>3 DEF LaunchRefused, LaunchFailed, Live, Running
    <2> QED
      BY <1>5, <2>2, <2>3 DEF StartProcess
  <1> QED
    BY <1>3, <1>4, <1>5 DEF StartSteps

(* A step of Stop() ends the agent, or is invisible from outside.           *)
LEMMA StopRefines ==
  ASSUME NEW t \in Caller, IInv, SpawnCanFail = FALSE, StopSteps(t), UNCHANGED pluginVars
  PROVE  [Supervisor!SupervisionNext]_Supervisor!supervision
  <1> USE DEF IInv, TypeOK, ControllerTypeOK, Supervisor!supervision, pluginVars, agentVars
  <1>1. Phase' = Phase
    BY DEF Phase
  <1>2. CASE UNCHANGED agentVars
    BY <1>1, <1>2 DEF Live, Running
  <1>3. CASE StopTerminate(t) /\ agents' # agents
    <2>1. agents' = [agents EXCEPT ![m_hProcess] = "terminating"] /\ own' = own
      BY <1>3 DEF StopTerminate, TerminateFails
    <2>2. Live' = {}
      BY <2>1, LiveIsOne DEF Live, Running
    <2> QED
      BY <1>1, <2>2, LiveIsOne DEF Supervisor!SupervisionNext, Supervisor!AgentEnd
  <1> QED
    BY <1>2, <1>3 DEF StopSteps, StopLock, StopWaitDone, StopWaitTimeout, StopTerminate,
       StopJoin, TerminateFails

(* A step of the monitor is a launch, or invisible from outside.            *)
LEMMA MonitorRefines ==
  ASSUME IInv, SpawnCanFail = FALSE, MonitorThread, UNCHANGED pluginVars
  PROVE  [Supervisor!SupervisionNext]_Supervisor!supervision
  <1> USE DEF IInv, TypeOK, ControllerTypeOK, Supervisor!supervision, pluginVars, agentVars
  <1>1. Phase' = Phase
    BY DEF Phase
  <1>2. CASE UNCHANGED agentVars
    BY <1>1, <1>2 DEF Live, Running
  <1>3. CASE MonitorRestart /\ Launched
    <2>1. NoneRuns /\ Phase # "off"
      BY <1>3 DEF MonitorRestart, WaitFits, ThreadFits, Phase
    <2>2. PICK a \in Agent : /\ agents[a] = "dead"
                            /\ agents' = [agents EXCEPT ![a] = "running"]
                            /\ own' = own \cup {a}
      BY <1>3 DEF Launched
    <2>3. Live' = {a}
      BY <2>1, <2>2 DEF Live, NoneRuns, Running
    <2> QED
      BY <1>1, <2>1, <2>3, LiveIsOne DEF Supervisor!SupervisionNext, Supervisor!Launch
  <1> QED
    BY <1>2, <1>3 DEF MonitorThread, MonitorRead, MonitorCall, MonitorSignalled,
       MonitorWaitFails, MonitorLock, MonitorRestart, LaunchRefused, LaunchFailed

(* Calls and returns of the exported functions change the phase only.       *)
LEMMA PluginRefines ==
  ASSUME NEW t \in Caller, IInv, SpawnCanFail = FALSE, PluginSteps(t)
  PROVE  [Supervisor!SupervisionNext]_Supervisor!supervision
  <1> USE DEF IInv, TypeOK, ControllerTypeOK, Supervisor!supervision, agentVars, Operation,
          Begin, End, GoTo
  <1>1. Live' = Live
    BY DEF PluginSteps, CallStart, ReturnStart, CallStop, ReturnStop, CallUnload,
       FreeLibrary, Destroy, Live, Running
  <1>2. CASE CallStart(t)
    <2>1. Phase = "off"
      BY <1>2, ControllerAssumption DEF CallStart, CallsFit, Phase
    <2>2. op'[t] = "start" /\ ~m_bIsProcessStarted'
      BY <1>2 DEF CallStart
    <2>3. Phase' = "starting"
      BY <2>2 DEF Phase
    <2> QED
      BY <1>1, <2>1, <2>3 DEF Supervisor!SupervisionNext, Supervisor!BeginStart
  <1>3. CASE ReturnStart(t)
    <2>1. Phase = "starting"
      BY <1>3 DEF ReturnStart, CallsFit, Phase
    <2>2. CASE status[t] = "PM_OK"
      <3>1. Phase' = "on"
        BY <1>3, <2>2 DEF ReturnStart, Phase
      <3> QED
        BY <1>1, <2>1, <3>1 DEF Supervisor!SupervisionNext, Supervisor!EndStart
    <2>3. CASE status[t] # "PM_OK"
      <3>1. Phase' = "off"
        BY <1>3, <2>3 DEF ReturnStart, CallsFit, Phase
      <3>2. NoneRuns
        BY <1>3, <2>3 DEF ReturnStart, CallsFit, ThreadFits, Starting
      <3> QED
        BY <1>1, <2>1, <3>1, <3>2, LiveIsOne
           DEF Supervisor!SupervisionNext, Supervisor!EndStart
    <2> QED
      BY <2>2, <2>3
  <1>4. CASE CallStop(t) \/ CallUnload(t)
    <2>1. Phase' = Phase
      BY <1>4 DEF CallStop, CallUnload, CallsFit, Phase
    <2> QED
      BY <1>1, <2>1
  <1>5. CASE ReturnStop(t) \/ FreeLibrary(t)
    <2>1. Phase = "on" /\ Phase' \in {"on", "off"}
      BY <1>5 DEF ReturnStop, FreeLibrary, CallsFit, Phase
    <2>2. Phase' = "off" => NoneRuns
      BY <1>5 DEF ReturnStop, FreeLibrary, StartedAfterStop, CallsFit, ThreadFits,
         Starting, Phase
    <2> QED
      BY <1>1, <2>1, <2>2, LiveIsOne DEF Supervisor!SupervisionNext, Supervisor!Off
  <1>6. CASE Destroy(t)
    <2>1. Phase' = "off" /\ Phase \in {"on", "off"}
      BY <1>6 DEF Destroy, CallsFit, Phase
    <2>2. NoneRuns
      BY <1>6 DEF Destroy, CallsFit, FlagFits, ThreadFits, Starting
    <2> QED
      BY <1>1, <2>1, <2>2, LiveIsOne DEF Supervisor!SupervisionNext, Supervisor!Off
  <1> QED
    BY <1>2, <1>3, <1>4, <1>5, <1>6 DEF PluginSteps

(* An agent's end and the loss of the service are steps of the abstract one. *)
LEMMA EnvironmentRefines ==
  ASSUME IInv, EnvironmentStep
  PROVE  [Supervisor!SupervisionNext]_Supervisor!supervision
  <1> USE DEF IInv, TypeOK, ControllerTypeOK, Supervisor!supervision, Operation
  <1>1. CASE ServiceCrash
    <2>1. Phase' = "off" /\ Live' = {}
      BY <1>1 DEF ServiceCrash, Phase, Live
    <2> QED
      BY <2>1 DEF Supervisor!SupervisionNext, Supervisor!Lost
  <1>2. ASSUME NEW a \in Agent, AgentEnds(a), UNCHANGED pluginVars
        PROVE  [Supervisor!SupervisionNext]_Supervisor!supervision
    <2>1. Phase' = Phase
      BY <1>2 DEF Phase, pluginVars
    <2>2. Live' = Live \ {a}
      BY <1>2 DEF AgentEnds, Live, Running
    <2>3. CASE a \in Live
      <3>1. Live # {} /\ Live' = {}
        BY <2>2, <2>3, LiveIsOne
      <3> QED
        BY <2>1, <3>1 DEF Supervisor!SupervisionNext, Supervisor!AgentEnd
    <2>4. CASE a \notin Live
      BY <2>1, <2>2, <2>4
    <2> QED
      BY <2>3, <2>4
  <1> QED
    BY <1>1, <1>2 DEF EnvironmentStep

(* Seen through the plugin's flag and the running agents of this service, the *)
(* threads, handles and locks of the module do what AgentSupervision says.   *)
THEOREM ImplementsSupervision ==
  ASSUME SpawnCanFail = FALSE
  PROVE  SafetySpec => Supervised
  <1>1. Init => Supervisor!SupervisionInit
    BY DEF Init, ControllerInit, Supervisor!SupervisionInit, Phase, Live
  <1>2. IInv /\ [Next]_vars => [Supervisor!SupervisionNext]_Supervisor!supervision
    <2> SUFFICES ASSUME IInv, [Next]_vars
                 PROVE  [Supervisor!SupervisionNext]_Supervisor!supervision
      OBVIOUS
    <2>1. CASE ServiceStep
      BY <2>1, StartRefines, StopRefines, MonitorRefines, PluginRefines DEF ServiceStep
    <2>2. CASE EnvironmentStep
      BY <2>2, EnvironmentRefines
    <2>3. CASE UNCHANGED vars
      BY <2>3 DEF vars, Supervisor!supervision, Phase, Live, Running
    <2> QED
      BY <2>1, <2>2, <2>3 DEF Next
  <1> QED
    BY <1>1, <1>2, Invariance, PTL DEF SafetySpec, Supervised, Supervisor!Supervision
=============================================================================
