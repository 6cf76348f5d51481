------------------------------ MODULE UcService ------------------------------
(***************************************************************************)
(* The life of the service: the process that the service control manager   *)
(* (SCM) starts, the thread on which ServiceMain() runs, the control       *)
(* handler on the dispatcher's thread, the two module loaders, the logger  *)
(* and the crash handler of the process, and the program run by hand that  *)
(* installs and removes the service.  A process that has reported          *)
(* SERVICE_STOPPED lives on until its destructors are through, and the SCM *)
(* may start the next one meanwhile; so there are several processes.       *)
(***************************************************************************)
EXTENDS Naturals

CONSTANTS Procs,   \* processes of the service; one that has ended may come again
          NoProc   \* nobody

ASSUME NoProcAssumption == NoProc \notin Procs

Modules == {"ucid", "ucmcp"}

VARIABLES
  entry,     \* the service's entry in the SCM's data base: "none", "there", "marked" for deletion
  status,    \* the state of the service as the SCM knows it
  owner,     \* the process this state is about
  closing,   \* Windows shuts down
  tool,      \* where UCService.exe -install or -remove is
  main,      \* where the main thread of each process is
  svc,       \* where its thread in ServiceMain() is
  handler,   \* the processes with a crash handler
  logging,   \* those whose ServiceLogManager is alive
  lib,       \* <<process, module>>: m_controlLib
  loaded,    \* m_isModuleLoaded: m_context holds the functions of the module
  release,   \* m_releaseModule, of modules marked as loaded; that of others is never called
  started,   \* the module runs: it supervises its process
  excused    \* history: processes in which a stop failed, or that were told of a shutdown

scmVars    == <<entry, status, owner, closing, tool>>
loaderVars == <<lib, loaded, release, started, excused>>
procVars   == <<main, svc, handler, logging>>
vars       == <<scmVars, procVars, loaderVars>>

Of(p) == {p} \X Modules

Statuses == {"STOPPED", "START_PENDING", "RUNNING", "STOP_PENDING"}
MainPcs  == {"off", "crash_handler", "logging", "connect", "dispatch",
             "stop_ucmcp", "stop_ucid", "report_stopped",
             "dtor_ucmcp", "dtor_ucid", "dtor_base", "exit", "hung", "in_stop"}
SvcPcs   == {"off", "main", "config", "ucid", "ucmcp", "report", "stopped", "hung"}

\* Every variable has its type.
TypeOK ==
  /\ entry \in {"none", "there", "marked"} /\ status \in Statuses
  /\ owner \in Procs \union {NoProc} /\ closing \in BOOLEAN
  /\ tool \in {"off", "start", "poll", "delete"}
  /\ main \in [Procs -> MainPcs] /\ svc \in [Procs -> SvcPcs]
  /\ handler \subseteq Procs /\ logging \subseteq Procs /\ excused \subseteq Procs
  /\ lib \subseteq Procs \X Modules /\ release \subseteq Procs \X Modules
  /\ loaded \subseteq Procs \X Modules /\ started \subseteq Procs \X Modules

Init ==
  /\ entry = "none" /\ status = "STOPPED" /\ owner = NoProc
  /\ closing = FALSE /\ tool = "off"
  /\ main = [p \in Procs |-> "off"] /\ svc = [p \in Procs |-> "off"]
  /\ handler = {} /\ logging = {}
  /\ lib = {} /\ loaded = {} /\ release = {} /\ started = {}
  /\ excused = {}

\* Mutant: the logger goes first.
BugBaseFirst == "dtor_base"

\* The members of UCService go before those of ServiceBase.
AfterDispatch == "dtor_ucmcp"

MainAt(p, from, to) == main[p] = from /\ main' = [main EXCEPT ![p] = to]
SvcAt(p, from, to)  == svc[p] = from /\ svc' = [svc EXCEPT ![p] = to]

\* SetServiceStatus(): the last process the SCM has started speaks for the service.
Report(p, s) == status' = IF owner = p THEN s ELSE status

(***************************************************************************)
(* The end of a process.                                                   *)
(***************************************************************************)

\* Windows takes back what the process had; a service that ends is stopped.
ProcessEnds(p) ==
  /\ main' = [main EXCEPT ![p] = "off"] /\ svc' = [svc EXCEPT ![p] = "off"]
  /\ Report(p, "STOPPED")
  /\ handler' = handler \ {p} /\ logging' = logging \ {p}
  /\ lib' = lib \ Of(p) /\ loaded' = loaded \ Of(p)
  /\ release' = release \ Of(p) /\ started' = started \ Of(p)
  /\ excused' = excused \ {p}
  /\ UNCHANGED <<entry, owner, closing, tool>>

\* MinidumpCompletedCallback() holds s_mutex and calls CrashHandled(), which locks
\* it once more; under HandleAborts() it is held already.  To lock a std::mutex twice
\* is undefined: the thread may stay here for good, or get through.
HandlerBlocks(p) ==
  /\ p \in handler
  /\ UNCHANGED <<scmVars, handler, logging, loaderVars>>

CrashInMain(p) == \/ ProcessEnds(p)
                  \/ HandlerBlocks(p) /\ main' = [main EXCEPT ![p] = "hung"] /\ UNCHANGED svc
CrashInSvc(p)  == \/ ProcessEnds(p)
                  \/ HandlerBlocks(p) /\ svc' = [svc EXCEPT ![p] = "hung"] /\ UNCHANGED main

\* Killed from outside, at any time.
Killed(p) == main[p] # "off" /\ ProcessEnds(p)

(***************************************************************************)
(* Control modules: UCIDLoader and UCMCPLoader, alike but for the option   *)
(* that hands the logger to the second module.                             *)
(***************************************************************************)

\* No registry value, a path without directory, a signature that is not Cisco's,
\* a library that cannot be loaded.
NotLoaded == UNCHANGED loaderVars

\* The library is loaded and has CreateModuleInstance(); hasRelease is FALSE when
\* ReleaseModuleInstance() is missing, which LoadDll() throws and its caller swallows.
\* CreateModuleInstance() or fpStart() may fail: the library stays, and nothing is marked
\* as loaded.  What fpSetOption() returns is only logged.
LoadedUpTo(p, m, hasRelease, isStarted) ==
  /\ lib' = lib \union {<<p, m>>}
  /\ loaded' = IF isStarted THEN loaded \union {<<p, m>>} ELSE loaded
  /\ started' = IF isStarted THEN started \union {<<p, m>>} ELSE started
  /\ release' = IF isStarted /\ hasRelease THEN release \union {<<p, m>>} ELSE release
  /\ UNCHANGED excused

LoadControlModule(p, m) ==
  /\ <<p, m>> \notin loaded
  /\ \/ NotLoaded
     \/ \E hasRelease, isStarted \in BOOLEAN : LoadedUpTo(p, m, hasRelease, isStarted)

\* fpStop() does not come back: that of the package manager's module joins a thread that
\* waits for the agent, in PmAgentController::Stop().
StopHangs(p, m) == <<p, m>> \in loaded /\ UNCHANGED loaderVars

\* fpStop() fails: what follows is left out.
StopFails(p) == excused' = excused \union {p} /\ UNCHANGED <<lib, loaded, release, started>>

\* After fpStop() the module is released; a failure leaves it marked as loaded.
Released(p, m) ==
  /\ started' = started \ {<<p, m>>}
  /\ loaded' \in {loaded, loaded \ {<<p, m>>}}
  /\ release' = release \intersect loaded'
  /\ UNCHANGED <<lib, excused>>

UnloadControlModule(p, m, returns) ==
  \/ ~returns /\ StopHangs(p, m)
  \/ returns /\ <<p, m>> \notin loaded /\ UNCHANGED loaderVars
  \/ returns /\ <<p, m>> \in loaded /\ StopFails(p)
  \/ returns /\ <<p, m>> \in loaded \intersect release /\ Released(p, m)

\* The stopped module is released through a null pointer.
NullRelease(p, m) == <<p, m>> \in loaded \ release

\* ~UCIDLoader(), ~UCMCPLoader(): UnloadControlModule(), then UnloadDll().  A module that
\* still could not be stopped ends with its library, and what the loader knew with the loader.
DestroyLoader(p, m, returns) ==
  \/ ~returns /\ StopHangs(p, m)
  \/ /\ returns
     /\ lib' = lib \ {<<p, m>>} /\ loaded' = loaded \ {<<p, m>>}
     /\ release' = release \ {<<p, m>>} /\ started' = started \ {<<p, m>>}
     /\ UNCHANGED excused

(***************************************************************************)
(* The main thread: wmain(), the constructors, the dispatcher with the     *)
(* control handler, the destructors.                                       *)
(***************************************************************************)

\* StartCrashHandler(): the handler is there unless AMP's registry has no pipe name.
StartCrashHandler(p) ==
  /\ MainAt(p, "crash_handler", "logging")
  /\ handler' \in {handler, handler \union {p}}
  /\ UNCHANGED <<scmVars, svc, logging, loaderVars>>

InitializeLogging(p) ==
  /\ MainAt(p, "logging", "connect")
  /\ logging' = logging \union {p}
  /\ UNCHANGED <<scmVars, svc, handler, loaderVars>>

\* Start() of the log manager throws when its thread cannot be created, with m_running
\* set: its destructor joins a thread that is none, and the runtime ends the process.
LoggingFails(p) == main[p] = "logging" /\ CrashInMain(p)

\* Run(): StartServiceCtrlDispatcher() connects to the SCM and starts ServiceMain().
Run(p) ==
  /\ MainAt(p, "connect", "dispatch")
  /\ SvcAt(p, "off", "main")
  /\ UNCHANGED <<scmVars, handler, logging, loaderVars>>

RunFails(p) ==
  /\ MainAt(p, "connect", AfterDispatch)
  /\ UNCHANGED <<scmVars, svc, handler, logging, loaderVars>>

\* Stop() of the service unloads the modules in the reverse order and swallows what fails.
StopModule(p, m, from, to) ==
  /\ main[p] = from
  /\ \/ /\ \E returns \in BOOLEAN :
             /\ UnloadControlModule(p, m, returns)
             /\ main' = [main EXCEPT ![p] = IF returns THEN to ELSE "in_stop"]
        /\ UNCHANGED <<scmVars, svc, handler, logging>>
     \/ NullRelease(p, m) /\ CrashInMain(p)

OnStop(p) == \/ StopModule(p, "ucmcp", "stop_ucmcp", "stop_ucid")
             \/ StopModule(p, "ucid", "stop_ucid", "report_stopped")

\* The last service of the process has stopped: the dispatcher returns.
ReportStopped(p) ==
  /\ MainAt(p, "report_stopped", AfterDispatch)
  /\ Report(p, "STOPPED")
  /\ UNCHANGED <<entry, owner, closing, tool, svc, handler, logging, loaderVars>>

DispatcherReturns(p) ==
  /\ svc[p] = "stopped" /\ MainAt(p, "dispatch", AfterDispatch)
  /\ svc' = [svc EXCEPT ![p] = "off"]
  /\ UNCHANGED <<scmVars, handler, logging, loaderVars>>

DestroyMember(p, m, from, to) ==
  \/ /\ \E returns \in BOOLEAN :
          /\ DestroyLoader(p, m, returns)
          /\ MainAt(p, from, IF returns THEN to ELSE "in_stop")
     /\ UNCHANGED <<scmVars, svc, handler, logging>>
  \/ main[p] = from /\ NullRelease(p, m) /\ CrashInMain(p)

DestroyLoaders(p) == \/ DestroyMember(p, "ucmcp", "dtor_ucmcp", "dtor_ucid")
                     \/ DestroyMember(p, "ucid", "dtor_ucid", "dtor_base")

\* ~ServiceBase(): the logger is freed, SIGABRT gets its default back.
DestroyBase(p) ==
  /\ MainAt(p, "dtor_base", "exit")
  /\ logging' = logging \ {p} /\ handler' = handler \ {p}
  /\ UNCHANGED <<scmVars, svc, loaderVars>>

Exit(p) == main[p] = "exit" /\ ProcessEnds(p)

(***************************************************************************)
(* ServiceMain() on its thread.                                            *)
(***************************************************************************)

\* Without a control handler an exception nobody catches leaves the thread.
ServiceMain(p) ==
  \/ /\ SvcAt(p, "main", "config")
     /\ Report(p, "START_PENDING")
     /\ UNCHANGED <<entry, owner, closing, tool, main, handler, logging, loaderVars>>
  \/ svc[p] = "main" /\ CrashInSvc(p)

\* Mutant: the exception is swallowed without a word to the SCM.
BugSilentFailure(p) == SvcAt(p, "config", "off") /\ UNCHANGED status

\* OnStart() throws when the bootstrap file is not there, and Start() reports the end.
StartFails(p) == SvcAt(p, "config", "stopped") /\ Report(p, "STOPPED")

FindBootstrap(p) ==
  \/ /\ SvcAt(p, "config", "ucid")
     /\ UNCHANGED <<scmVars, main, handler, logging, loaderVars>>
  \/ /\ StartFails(p)
     /\ UNCHANGED <<entry, owner, closing, tool, main, handler, logging, loaderVars>>

\* CreateModuleInstance() is missing: LoadDll() throws, the caller goes on and calls it.
NullCreate(p, m) == <<p, m>> \notin loaded

LoadModule(p, m, to) ==
  /\ svc[p] = m
  /\ \/ /\ LoadControlModule(p, m)
        /\ svc' = [svc EXCEPT ![p] = to]
        /\ UNCHANGED <<scmVars, main, handler, logging>>
     \/ NullCreate(p, m) /\ CrashInSvc(p)

LoadModules(p) == LoadModule(p, "ucid", "ucmcp") \/ LoadModule(p, "ucmcp", "report")

\* FixUcdtShortcut() cannot fail the start.
ReportRunning(p) ==
  /\ SvcAt(p, "report", "off")
  /\ Report(p, "RUNNING")
  /\ UNCHANGED <<entry, owner, closing, tool, main, handler, logging, loaderVars>>

(***************************************************************************)
(* The SCM, Windows, and the program that installs the service.            *)
(***************************************************************************)

StartProcess(p) ==
  /\ status = "STOPPED" /\ ~closing
  /\ MainAt(p, "off", "crash_handler")
  /\ owner' = p /\ status' = "START_PENDING"

ScmStarts(p) ==
  /\ entry = "there" /\ StartProcess(p)
  /\ UNCHANGED <<entry, closing, tool, svc, handler, logging, loaderVars>>

\* Mutant: the end is reported before the modules are stopped.
BugReportsFirst == "STOPPED"

\* What Stop() reports before it calls OnStop().
StopBegins == "STOP_PENDING"

\* A control reaches ServiceCtrlHandler() while the service runs; the SCM refuses it
\* while a start or a stop is pending.
DeliverStop(p) ==
  /\ status = "RUNNING" /\ owner = p
  /\ MainAt(p, "dispatch", "stop_ucmcp")
  /\ status' = StopBegins
  /\ UNCHANGED <<svc, handler, logging, loaderVars>>

StopControl(p) == DeliverStop(p) /\ UNCHANGED <<entry, owner, closing, tool>>

\* Shutdown() reports the end at once; the modules are stopped by the destructors.
ShutdownControl(p) ==
  /\ status = "RUNNING" /\ owner = p
  /\ MainAt(p, "dispatch", AfterDispatch)
  /\ closing' = TRUE /\ status' = "STOPPED"
  /\ excused' = excused \union {p}
  /\ UNCHANGED <<entry, owner, tool, svc, handler, logging, lib, loaded, release, started>>

InstallService ==
  /\ tool = "off" /\ entry = "none"
  /\ entry' = "there" /\ tool' = "start"
  /\ UNCHANGED <<status, owner, closing, procVars, loaderVars>>

InstallStarts(p) ==
  /\ tool = "start" /\ tool' = "off" /\ StartProcess(p)
  /\ UNCHANGED <<entry, closing, svc, handler, logging, loaderVars>>

InstallEnds ==
  /\ tool = "start" /\ tool' = "off"
  /\ UNCHANGED <<entry, status, owner, closing, procVars, loaderVars>>

\* UninstallService() asks for the stop, and waits only if it is granted.
UninstallStops(p) ==
  /\ tool = "off" /\ entry = "there"
  /\ DeliverStop(p) /\ tool' = "poll"
  /\ UNCHANGED <<entry, owner, closing>>

UninstallRefused ==
  /\ tool = "off" /\ entry = "there" /\ status # "RUNNING"
  /\ tool' = "delete"
  /\ UNCHANGED <<entry, status, owner, closing, procVars, loaderVars>>

UninstallPolls ==
  /\ tool = "poll" /\ status # "STOP_PENDING"
  /\ tool' = "delete"
  /\ UNCHANGED <<entry, status, owner, closing, procVars, loaderVars>>

\* DeleteService() marks the entry; it goes when the service has stopped.
UninstallDeletes ==
  /\ tool = "delete" /\ tool' = "off"
  /\ entry' = "marked"
  /\ UNCHANGED <<status, owner, closing, procVars, loaderVars>>

EntryGoes ==
  /\ entry = "marked" /\ status = "STOPPED" /\ tool = "off"
  /\ entry' = "none"
  /\ UNCHANGED <<status, owner, closing, tool, procVars, loaderVars>>

Main(p) ==
  \/ StartCrashHandler(p) \/ InitializeLogging(p) \/ LoggingFails(p)
  \/ Run(p) \/ RunFails(p) \/ OnStop(p) \/ ReportStopped(p) \/ DispatcherReturns(p)
  \/ DestroyLoaders(p) \/ DestroyBase(p) \/ Exit(p)

Svc(p) == ServiceMain(p) \/ FindBootstrap(p) \/ LoadModules(p) \/ ReportRunning(p)

Tool == InstallEnds \/ UninstallPolls \/ UninstallDeletes

Next ==
  \/ \E p \in Procs :
       \/ Main(p) \/ Svc(p) \/ Killed(p)
       \/ ScmStarts(p) \/ StopControl(p) \/ ShutdownControl(p)
       \/ InstallStarts(p) \/ UninstallStops(p)
  \/ Tool \/ InstallService \/ UninstallRefused \/ EntryGoes

\* The two threads of a process are scheduled, and the program run by hand ends.
Fairness ==
  /\ \A p \in Procs : WF_vars(Main(p)) /\ WF_vars(Svc(p))
  /\ WF_vars(Tool)

Spec == Init /\ [][Next]_vars /\ Fairness

(***************************************************************************)
(* Properties.                                                             *)
(***************************************************************************)

\* One service's module at a time supervises the agent: a process that lives on after
\* SERVICE_STOPPED has stopped its modules, unless a stop failed or Windows shut down.
OneSupervisor ==
  \A p, q \in Procs \ excused : \A m \in Modules :
      <<p, m>> \in started /\ <<q, m>> \in started => p = q

\* The package manager module logs through the logger of the service, which it got by
\* fpSetOption(): it must be gone before the logger, on every way out.
LoggerOutlivesModules == \A e \in started : e[1] \in logging

\* The process that owes the answer is in a crash handler that blocks, or in the stop of a
\* module that does not come back; the latter only when it is asked to stop.
Stuck ==
  \E p \in Procs :
    /\ owner = p
    /\ \/ main[p] = "hung" \/ svc[p] = "hung"
       \/ main[p] = "in_stop" /\ status = "STOP_PENDING"

\* A start or a stop that is pending is answered, even when the process dies of it.  The SCM
\* is kept waiting only by a crash handler that blocks, or on a stop by a module whose fpStop()
\* does not return.
PendingEnds == status \in {"START_PENDING", "STOP_PENDING"} ~> (status \in {"STOPPED", "RUNNING"} \/ Stuck)
=============================================================================
