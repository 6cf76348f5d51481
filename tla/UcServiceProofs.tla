--------------------------- MODULE UcServiceProofs ---------------------------
(***************************************************************************)
(* Proofs about the life of the service, for any number of processes.      *)
(***************************************************************************)
EXTENDS UcService, TLAPS

Starting == {"main", "config", "ucid", "ucmcp", "report"}
Unlogged == {"off", "crash_handler", "logging", "exit", "hung"}

\* What the place of a thread says of its process.
PcOK ==
  \A p \in Procs :
    /\ main[p] \in {"off", "crash_handler", "logging", "connect"} => svc[p] = "off"
    /\ main[p] \in {"crash_handler", "logging", "connect"} => owner = p /\ status = "START_PENDING"
    /\ svc[p] \in Starting => owner = p /\ status = "START_PENDING" /\ main[p] = "dispatch"
    /\ main[p] \in {"stop_ucmcp", "stop_ucid", "report_stopped"} => svc[p] \notin Starting
    /\ main[p] \notin Unlogged => p \in logging

\* What the place of a thread says of the modules.
ModulesOK ==
  \A p \in Procs :
    /\ main[p] \in {"off", "crash_handler", "logging", "connect"} \/ svc[p] \in {"main", "config", "stopped"}
         => <<p, "ucid">> \notin loaded /\ <<p, "ucmcp">> \notin loaded
    /\ svc[p] = "ucid" => <<p, "ucmcp">> \notin started
    /\ main[p] \in {"stop_ucid", "report_stopped"} => <<p, "ucmcp">> \notin started \/ p \in excused
    /\ main[p] = "report_stopped" => <<p, "ucid">> \notin started \/ p \in excused
    /\ main[p] \in {"dtor_ucid", "dtor_base", "exit"} => <<p, "ucmcp">> \notin started
    /\ main[p] \in {"dtor_base", "exit"} => <<p, "ucid">> \notin started

\* Whoever may still supervise is the process the SCM deals with.
StartedOK ==
  /\ started \subseteq loaded
  /\ \A p \in Procs, m \in Modules : <<p, m>> \in started =>
       /\ p \in logging
       /\ p \notin excused => owner = p /\ status # "STOPPED"

IInv == TypeOK /\ PcOK /\ ModulesOK /\ StartedOK

LEMMA InitIInv == Init => IInv
  BY NoProcAssumption DEF Init, IInv, TypeOK, PcOK, ModulesOK, StartedOK, Modules, MainPcs, SvcPcs,
     Statuses, Starting, Unlogged

(* The end of a process, on whatever way.                                      *)
LEMMA EndStep == ASSUME IInv, NEW p \in Procs, ProcessEnds(p) PROVE IInv'
  <1> USE DEF IInv, ProcessEnds, Report, Of
  <1>1. TypeOK'
    BY DEF TypeOK, MainPcs, SvcPcs, Statuses
  <1>2. PcOK'
    BY DEF TypeOK, PcOK, Starting, Unlogged
  <1>3. ModulesOK'
    BY DEF TypeOK, ModulesOK, Modules
  <1>4. StartedOK'
    BY DEF TypeOK, StartedOK
  <1> QED
    BY <1>1, <1>2, <1>3, <1>4

LEMMA StartCrashHandlerStep == ASSUME IInv, NEW p \in Procs, StartCrashHandler(p) PROVE IInv'
  <1> USE DEF IInv, StartCrashHandler, MainAt, scmVars, loaderVars
  <1>1. TypeOK'
    BY DEF TypeOK, MainPcs, SvcPcs, Statuses
  <1>2. PcOK'
    BY DEF TypeOK, PcOK, Starting, Unlogged
  <1>3. ModulesOK'
    BY DEF TypeOK, ModulesOK, Modules
  <1>4. StartedOK'
    BY DEF TypeOK, StartedOK, PcOK, ModulesOK, Modules, Starting, Unlogged
  <1> QED
    BY <1>1, <1>2, <1>3, <1>4

LEMMA InitializeLoggingStep == ASSUME IInv, NEW p \in Procs, InitializeLogging(p) PROVE IInv'
  <1> USE DEF IInv, InitializeLogging, MainAt, scmVars, loaderVars
  <1>1. TypeOK'
    BY DEF TypeOK, MainPcs, SvcPcs, Statuses
  <1>2. PcOK'
    BY DEF TypeOK, PcOK, Starting, Unlogged
  <1>3. ModulesOK'
    BY DEF TypeOK, ModulesOK, Modules
  <1>4. StartedOK'
    BY DEF TypeOK, StartedOK, PcOK, ModulesOK, Modules, Starting, Unlogged
  <1> QED
    BY <1>1, <1>2, <1>3, <1>4

LEMMA RunStep == ASSUME IInv, NEW p \in Procs, Run(p) PROVE IInv'
  <1> USE DEF IInv, Run, MainAt, SvcAt, scmVars, loaderVars
  <1>1. TypeOK'
    BY DEF TypeOK, MainPcs, SvcPcs, Statuses
  <1>2. PcOK'
    BY DEF TypeOK, PcOK, Starting, Unlogged
  <1>3. ModulesOK'
    BY DEF TypeOK, ModulesOK, Modules
  <1>4. StartedOK'
    BY DEF TypeOK, StartedOK, PcOK, ModulesOK, Modules, Starting, Unlogged
  <1> QED
    BY <1>1, <1>2, <1>3, <1>4

LEMMA RunFailsStep == ASSUME IInv, NEW p \in Procs, RunFails(p) PROVE IInv'
  <1> USE DEF IInv, RunFails, MainAt, AfterDispatch, scmVars, loaderVars
  <1>1. TypeOK'
    BY DEF TypeOK, MainPcs, SvcPcs, Statuses
  <1>2. PcOK'
    BY DEF TypeOK, PcOK, Starting, Unlogged
  <1>3. ModulesOK'
    BY DEF TypeOK, ModulesOK, Modules
  <1>4. StartedOK'
    BY DEF TypeOK, StartedOK, PcOK, ModulesOK, Modules, Starting, Unlogged
  <1> QED
    BY <1>1, <1>2, <1>3, <1>4

LEMMA ReportStoppedStep == ASSUME IInv, NEW p \in Procs, ReportStopped(p) PROVE IInv'
  <1> USE DEF IInv, ReportStopped, MainAt, AfterDispatch, Report, scmVars, loaderVars
  <1>1. TypeOK'
    BY DEF TypeOK, MainPcs, SvcPcs, Statuses
  <1>2. PcOK'
    BY DEF TypeOK, PcOK, Starting, Unlogged
  <1>3. ModulesOK'
    BY DEF TypeOK, ModulesOK, Modules
  <1>4. StartedOK'
    BY DEF TypeOK, StartedOK, PcOK, ModulesOK, Modules, Starting, Unlogged
  <1> QED
    BY <1>1, <1>2, <1>3, <1>4

LEMMA DispatcherReturnsStep == ASSUME IInv, NEW p \in Procs, DispatcherReturns(p) PROVE IInv'
  <1> USE DEF IInv, DispatcherReturns, MainAt, AfterDispatch, scmVars, loaderVars
  <1>1. TypeOK'
    BY DEF TypeOK, MainPcs, SvcPcs, Statuses
  <1>2. PcOK'
    BY DEF TypeOK, PcOK, Starting, Unlogged
  <1>3. ModulesOK'
    BY DEF TypeOK, ModulesOK, Modules
  <1>4. StartedOK'
    BY DEF TypeOK, StartedOK, PcOK, ModulesOK, Modules, Starting, Unlogged
  <1> QED
    BY <1>1, <1>2, <1>3, <1>4

LEMMA DestroyBaseStep == ASSUME IInv, NEW p \in Procs, DestroyBase(p) PROVE IInv'
  <1> USE DEF IInv, DestroyBase, MainAt, scmVars, loaderVars
  <1>1. TypeOK'
    BY DEF TypeOK, MainPcs, SvcPcs, Statuses
  <1>2. PcOK'
    BY DEF TypeOK, PcOK, Starting, Unlogged
  <1>3. ModulesOK'
    BY DEF TypeOK, ModulesOK, Modules
  <1>4. StartedOK'
    BY DEF TypeOK, StartedOK, PcOK, ModulesOK, Modules, Starting, Unlogged
  <1> QED
    BY <1>1, <1>2, <1>3, <1>4

LEMMA ReportRunningStep == ASSUME IInv, NEW p \in Procs, ReportRunning(p) PROVE IInv'
  <1> USE DEF IInv, ReportRunning, SvcAt, Report, scmVars, loaderVars
  <1>1. TypeOK'
    BY DEF TypeOK, MainPcs, SvcPcs, Statuses
  <1>2. PcOK'
    BY DEF TypeOK, PcOK, Starting, Unlogged
  <1>3. ModulesOK'
    BY DEF TypeOK, ModulesOK, Modules
  <1>4. StartedOK'
    BY DEF TypeOK, StartedOK, PcOK, ModulesOK, Modules, Starting, Unlogged
  <1> QED
    BY <1>1, <1>2, <1>3, <1>4

LEMMA ScmStartsStep == ASSUME IInv, NEW p \in Procs, ScmStarts(p) PROVE IInv'
  <1> USE DEF IInv, ScmStarts, StartProcess, MainAt, scmVars, loaderVars
  <1>1. TypeOK'
    BY DEF TypeOK, MainPcs, SvcPcs, Statuses
  <1>2. PcOK'
    BY DEF TypeOK, PcOK, Starting, Unlogged
  <1>3. ModulesOK'
    BY DEF TypeOK, ModulesOK, Modules
  <1>4. StartedOK'
    BY DEF TypeOK, StartedOK, PcOK, ModulesOK, Modules, Starting, Unlogged
  <1> QED
    BY <1>1, <1>2, <1>3, <1>4

LEMMA InstallStartsStep == ASSUME IInv, NEW p \in Procs, InstallStarts(p) PROVE IInv'
  <1> USE DEF IInv, InstallStarts, StartProcess, MainAt, scmVars, loaderVars
  <1>1. TypeOK'
    BY DEF TypeOK, MainPcs, SvcPcs, Statuses
  <1>2. PcOK'
    BY DEF TypeOK, PcOK, Starting, Unlogged
  <1>3. ModulesOK'
    BY DEF TypeOK, ModulesOK, Modules
  <1>4. StartedOK'
    BY DEF TypeOK, StartedOK, PcOK, ModulesOK, Modules, Starting, Unlogged
  <1> QED
    BY <1>1, <1>2, <1>3, <1>4

LEMMA StopControlStep == ASSUME IInv, NEW p \in Procs, StopControl(p) PROVE IInv'
  <1> USE DEF IInv, StopControl, DeliverStop, MainAt, StopBegins, scmVars, loaderVars
  <1>1. TypeOK'
    BY DEF TypeOK, MainPcs, SvcPcs, Statuses
  <1>2. PcOK'
    BY DEF TypeOK, PcOK, Starting, Unlogged
  <1>3. ModulesOK'
    BY DEF TypeOK, ModulesOK, Modules
  <1>4. StartedOK'
    BY DEF TypeOK, StartedOK, PcOK, ModulesOK, Modules, Starting, Unlogged
  <1> QED
    BY <1>1, <1>2, <1>3, <1>4

LEMMA UninstallStopsStep == ASSUME IInv, NEW p \in Procs, UninstallStops(p) PROVE IInv'
  <1> USE DEF IInv, UninstallStops, DeliverStop, MainAt, StopBegins, scmVars, loaderVars
  <1>1. TypeOK'
    BY DEF TypeOK, MainPcs, SvcPcs, Statuses
  <1>2. PcOK'
    BY DEF TypeOK, PcOK, Starting, Unlogged
  <1>3. ModulesOK'
    BY DEF TypeOK, ModulesOK, Modules
  <1>4. StartedOK'
    BY DEF TypeOK, StartedOK, PcOK, ModulesOK, Modules, Starting, Unlogged
  <1> QED
    BY <1>1, <1>2, <1>3, <1>4

LEMMA ShutdownControlStep == ASSUME IInv, NEW p \in Procs, ShutdownControl(p) PROVE IInv'
  <1> USE DEF IInv, ShutdownControl, MainAt, AfterDispatch, scmVars, loaderVars
  <1>1. TypeOK'
    BY DEF TypeOK, MainPcs, SvcPcs, Statuses
  <1>2. PcOK'
    BY DEF TypeOK, PcOK, Starting, Unlogged
  <1>3. ModulesOK'
    BY DEF TypeOK, ModulesOK, Modules
  <1>4. StartedOK'
    BY DEF TypeOK, StartedOK, PcOK, ModulesOK, Modules, Starting, Unlogged
  <1> QED
    BY <1>1, <1>2, <1>3, <1>4

(* A crash: the process ends, or its thread stays in the crash handler.         *)
LEMMA HangInMain ==
  ASSUME IInv, NEW p \in Procs, main[p] # "off", svc[p] \notin Starting,
         HandlerBlocks(p), main' = [main EXCEPT ![p] = "hung"], UNCHANGED svc
  PROVE  IInv'
  <1> USE DEF IInv, HandlerBlocks, scmVars, loaderVars
  <1>1. TypeOK'
    BY DEF TypeOK, MainPcs, SvcPcs, Statuses, Modules
  <1>2. PcOK'
    BY DEF TypeOK, PcOK, Starting, Unlogged
  <1>3. ModulesOK'
    BY DEF TypeOK, ModulesOK, PcOK, StartedOK, Modules, Starting, Unlogged
  <1>4. StartedOK'
    BY DEF TypeOK, StartedOK, PcOK, ModulesOK, Modules, Starting, Unlogged
  <1> QED
    BY <1>1, <1>2, <1>3, <1>4

LEMMA HangInSvc ==
  ASSUME IInv, NEW p \in Procs, svc[p] \in Starting,
         HandlerBlocks(p), svc' = [svc EXCEPT ![p] = "hung"], UNCHANGED main
  PROVE  IInv'
  <1> USE DEF IInv, HandlerBlocks, scmVars, loaderVars
  <1>1. TypeOK'
    BY DEF TypeOK, MainPcs, SvcPcs, Statuses, Modules
  <1>2. PcOK'
    BY DEF TypeOK, PcOK, Starting, Unlogged
  <1>3. ModulesOK'
    BY DEF TypeOK, ModulesOK, PcOK, StartedOK, Modules, Starting, Unlogged
  <1>4. StartedOK'
    BY DEF TypeOK, StartedOK, PcOK, ModulesOK, Modules, Starting, Unlogged
  <1> QED
    BY <1>1, <1>2, <1>3, <1>4

LEMMA CrashInMainStep ==
  ASSUME IInv, NEW p \in Procs, CrashInMain(p), main[p] # "off", svc[p] \notin Starting
  PROVE  IInv'
  BY EndStep, HangInMain DEF CrashInMain

LEMMA CrashInSvcStep ==
  ASSUME IInv, NEW p \in Procs, CrashInSvc(p), svc[p] \in Starting
  PROVE  IInv'
  BY EndStep, HangInSvc DEF CrashInSvc

LEMMA LoggingFailsStep == ASSUME IInv, NEW p \in Procs, LoggingFails(p) PROVE IInv'
  <1>1. main[p] # "off" /\ svc[p] \notin Starting
    BY DEF LoggingFails, IInv, PcOK, Starting
  <1> QED
    BY <1>1, CrashInMainStep DEF LoggingFails

(* Loading and unloading.                                                       *)
LEMMA UnloadStep ==
  ASSUME IInv, NEW p \in Procs, NEW m \in Modules, NEW to,
         \/ m = "ucmcp" /\ main[p] = "stop_ucmcp" /\ to = "stop_ucid"
         \/ m = "ucid" /\ main[p] = "stop_ucid" /\ to = "report_stopped",
         UnloadControlModule(p, m, TRUE), main' = [main EXCEPT ![p] = to],
         UNCHANGED <<scmVars, svc, handler, logging>>
  PROVE  IInv'
  <1> USE DEF IInv, UnloadControlModule, StopFails, Released, scmVars, loaderVars
  <1>1. TypeOK'
    BY DEF TypeOK, MainPcs, SvcPcs, Statuses, Modules
  <1>2. PcOK'
    BY DEF TypeOK, PcOK, Starting, Unlogged
  <1>3. ModulesOK'
    BY DEF TypeOK, ModulesOK, PcOK, StartedOK, Modules, Starting, Unlogged
  <1>4. StartedOK'
    BY DEF TypeOK, StartedOK, PcOK, ModulesOK, Modules, Starting, Unlogged
  <1> QED
    BY <1>1, <1>2, <1>3, <1>4

(* A module whose fpStop() does not return: nothing is reported any more.       *)
LEMMA StopHangsStep ==
  ASSUME IInv, NEW p \in Procs, NEW m \in Modules,
         main[p] \in {"stop_ucmcp", "stop_ucid", "dtor_ucmcp", "dtor_ucid"},
         StopHangs(p, m), main' = [main EXCEPT ![p] = "in_stop"],
         UNCHANGED <<scmVars, svc, handler, logging>>
  PROVE  IInv'
  <1> USE DEF IInv, StopHangs, scmVars, loaderVars
  <1>1. TypeOK'
    BY DEF TypeOK, MainPcs, SvcPcs, Statuses, Modules
  <1>2. PcOK'
    BY DEF TypeOK, PcOK, Starting, Unlogged
  <1>3. ModulesOK'
    BY DEF TypeOK, ModulesOK
  <1>4. StartedOK'
    BY DEF TypeOK, StartedOK
  <1> QED
    BY <1>1, <1>2, <1>3, <1>4

LEMMA OnStopStep == ASSUME IInv, NEW p \in Procs, OnStop(p) PROVE IInv'
  <1>1. main[p] \in {"stop_ucmcp", "stop_ucid"}
    BY DEF OnStop, StopModule
  <1>2. main[p] # "off" /\ svc[p] \notin Starting
    BY <1>1 DEF IInv, PcOK
  <1>3. ASSUME NEW m \in Modules, UnloadControlModule(p, m, FALSE),
               main' = [main EXCEPT ![p] = "in_stop"], UNCHANGED <<scmVars, svc, handler, logging>>
        PROVE  IInv'
    BY <1>1, <1>3, StopHangsStep DEF UnloadControlModule
  <1> QED
    BY <1>2, <1>3, UnloadStep, CrashInMainStep DEF OnStop, StopModule, Modules

LEMMA DestroyStep ==
  ASSUME IInv, NEW p \in Procs, NEW m \in Modules, NEW from, NEW to,
         \/ m = "ucmcp" /\ from = "dtor_ucmcp" /\ to = "dtor_ucid"
         \/ m = "ucid" /\ from = "dtor_ucid" /\ to = "dtor_base",
         MainAt(p, from, to), DestroyLoader(p, m, TRUE), UNCHANGED <<scmVars, svc, handler, logging>>
  PROVE  IInv'
  <1> USE DEF IInv, MainAt, DestroyLoader, scmVars, loaderVars
  <1>1. TypeOK'
    BY DEF TypeOK, MainPcs, SvcPcs, Statuses, Modules
  <1>2. PcOK'
    BY DEF TypeOK, PcOK, Starting, Unlogged
  <1>3. ModulesOK'
    BY DEF TypeOK, ModulesOK, PcOK, StartedOK, Modules, Starting, Unlogged
  <1>4. StartedOK'
    BY DEF TypeOK, StartedOK, PcOK, ModulesOK, Modules, Starting, Unlogged
  <1> QED
    BY <1>1, <1>2, <1>3, <1>4

LEMMA DestroyLoadersStep == ASSUME IInv, NEW p \in Procs, DestroyLoaders(p) PROVE IInv'
  <1>1. main[p] \in {"dtor_ucmcp", "dtor_ucid"}
    BY DEF DestroyLoaders, DestroyMember, MainAt
  <1>2. main[p] # "off" /\ svc[p] \notin Starting
    BY <1>1 DEF IInv, PcOK
  <1>3. ASSUME NEW m \in Modules, NEW from, MainAt(p, from, "in_stop"), DestroyLoader(p, m, FALSE),
               UNCHANGED <<scmVars, svc, handler, logging>>
        PROVE  IInv'
    BY <1>1, <1>3, StopHangsStep DEF DestroyLoader, MainAt
  <1> QED
    BY <1>2, <1>3, DestroyStep, CrashInMainStep DEF DestroyLoaders, DestroyMember, Modules

LEMMA LoadStep ==
  ASSUME IInv, NEW p \in Procs, NEW m \in Modules, NEW to,
         \/ m = "ucid" /\ to = "ucmcp"
         \/ m = "ucmcp" /\ to = "report",
         svc[p] = m, LoadControlModule(p, m), svc' = [svc EXCEPT ![p] = to],
         UNCHANGED <<scmVars, main, handler, logging>>
  PROVE  IInv'
  <1> USE DEF IInv, LoadControlModule, NotLoaded, LoadedUpTo, scmVars, loaderVars
  <1>1. TypeOK'
    BY DEF TypeOK, MainPcs, SvcPcs, Statuses, Modules
  <1>2. PcOK'
    BY DEF TypeOK, PcOK, Starting, Unlogged
  <1>3. ModulesOK'
    <2>1. svc[p] \in Starting /\ main[p] = "dispatch" /\ main' = main /\ excused' = excused
      BY DEF PcOK, Starting
    <2>2. started' \subseteq started \union {<<p, m>>} /\ loaded' \subseteq loaded \union {<<p, m>>}
      OBVIOUS
    <2>3. \A q \in Procs : q # p => svc'[q] = svc[q]
      BY DEF TypeOK
    <2>4. svc'[p] = to
      BY DEF TypeOK
    <2> QED
      BY <2>1, <2>2, <2>3, <2>4 DEF ModulesOK, Modules
  <1>4. StartedOK'
    BY DEF TypeOK, StartedOK, PcOK, ModulesOK, Modules, Starting, Unlogged
  <1> QED
    BY <1>1, <1>2, <1>3, <1>4

LEMMA LoadModulesStep == ASSUME IInv, NEW p \in Procs, LoadModules(p) PROVE IInv'
  <1>1. svc[p] \in Starting
    BY DEF LoadModules, LoadModule, Starting
  <1> QED
    BY <1>1, LoadStep, CrashInSvcStep DEF LoadModules, LoadModule, Modules

(* ServiceMain() before the modules.                                            *)
LEMMA EnterStep ==
  ASSUME IInv, NEW p \in Procs, SvcAt(p, "main", "config"), Report(p, "START_PENDING"),
         UNCHANGED <<entry, owner, closing, tool, main, handler, logging, loaderVars>>
  PROVE  IInv'
  <1> USE DEF IInv, SvcAt, Report, scmVars, loaderVars
  <1>1. TypeOK'
    BY DEF TypeOK, MainPcs, SvcPcs, Statuses, Modules
  <1>2. PcOK'
    BY DEF TypeOK, PcOK, Starting, Unlogged
  <1>3. ModulesOK'
    BY DEF TypeOK, ModulesOK, PcOK, StartedOK, Modules, Starting, Unlogged
  <1>4. StartedOK'
    BY DEF TypeOK, StartedOK, PcOK, ModulesOK, Modules, Starting, Unlogged
  <1> QED
    BY <1>1, <1>2, <1>3, <1>4

LEMMA ServiceMainStep == ASSUME IInv, NEW p \in Procs, ServiceMain(p) PROVE IInv'
  BY EnterStep, CrashInSvcStep DEF ServiceMain, Starting

LEMMA FindBootstrapStep == ASSUME IInv, NEW p \in Procs, FindBootstrap(p) PROVE IInv'
  <1> USE DEF IInv, FindBootstrap, StartFails, SvcAt, Report, scmVars, loaderVars
  <1>1. TypeOK'
    BY DEF TypeOK, MainPcs, SvcPcs, Statuses, Modules
  <1>2. PcOK'
    BY DEF TypeOK, PcOK, Starting, Unlogged
  <1>3. ModulesOK'
    BY DEF TypeOK, ModulesOK, PcOK, StartedOK, Modules, Starting, Unlogged
  <1>4. StartedOK'
    BY DEF TypeOK, StartedOK, PcOK, ModulesOK, Modules, Starting, Unlogged
  <1> QED
    BY <1>1, <1>2, <1>3, <1>4

(* Steps that leave the processes alone.                                        *)
LEMMA ToolStep ==
  ASSUME IInv, Tool \/ InstallService \/ UninstallRefused \/ EntryGoes \/ UNCHANGED vars
  PROVE  IInv'
  <1>1. UNCHANGED <<status, owner, closing, procVars, loaderVars>>
    BY DEF Tool, InstallService, UninstallRefused, EntryGoes, InstallEnds, UninstallPolls,
           UninstallDeletes, vars, scmVars
  <1>2. entry' \in {"none", "there", "marked"} /\ tool' \in {"off", "start", "poll", "delete"}
    BY DEF Tool, InstallService, UninstallRefused, EntryGoes, InstallEnds, UninstallPolls,
           UninstallDeletes, vars, scmVars, IInv, TypeOK
  <1> QED
    BY <1>1, <1>2 DEF IInv, TypeOK, PcOK, ModulesOK, StartedOK, procVars, loaderVars

(* Each module's state and each thread's place fit together, in every behaviour. *)
THEOREM Invariance == Spec => []IInv
  <1>1. Init => IInv
    BY InitIInv
  <1>2. IInv /\ [Next]_vars => IInv'
    <2> SUFFICES ASSUME IInv, [Next]_vars
                 PROVE  IInv'
      OBVIOUS
    <2>1. ASSUME NEW p \in Procs, Main(p) PROVE IInv'
      BY <2>1, StartCrashHandlerStep, InitializeLoggingStep, LoggingFailsStep, RunStep, RunFailsStep,
         OnStopStep, ReportStoppedStep, DispatcherReturnsStep, DestroyLoadersStep, DestroyBaseStep,
         EndStep DEF Main, Exit
    <2>2. ASSUME NEW p \in Procs, Svc(p) PROVE IInv'
      BY <2>2, ServiceMainStep, FindBootstrapStep, LoadModulesStep, ReportRunningStep DEF Svc
    <2>3. ASSUME NEW p \in Procs, Killed(p) \/ ScmStarts(p) \/ StopControl(p) \/ ShutdownControl(p)
                                   \/ InstallStarts(p) \/ UninstallStops(p)
          PROVE  IInv'
      BY <2>3, EndStep, ScmStartsStep, StopControlStep, ShutdownControlStep, InstallStartsStep,
         UninstallStopsStep DEF Killed
    <2> QED
      BY <2>1, <2>2, <2>3, ToolStep DEF Next
  <1> QED
    BY <1>1, <1>2, PTL DEF Spec

(* No two processes of the service supervise the same module's process at a time, *)
(* unless a stop failed or Windows shut down.                                   *)
THEOREM ServiceIsAlone == Spec => []OneSupervisor
  <1>1. IInv => OneSupervisor
    BY DEF IInv, StartedOK, OneSupervisor
  <1> QED
    BY <1>1, Invariance, PTL

(* The logger a module was given outlives the module, on every way out.         *)
THEOREM LoggerOutlives == Spec => []LoggerOutlivesModules
  <1>1. IInv => LoggerOutlivesModules
    BY DEF IInv, TypeOK, StartedOK, LoggerOutlivesModules
  <1> QED
    BY <1>1, Invariance, PTL

(* Every variable keeps its type.                                               *)
THEOREM TypeCorrect == Spec => []TypeOK
  <1>1. IInv => TypeOK
    BY DEF IInv
  <1> QED
    BY <1>1, Invariance, PTL
(***************************************************************************)
(* Why a pending state is answered: the safety part of PendingEnds, without *)
(* its bound on the processes.                                             *)
(***************************************************************************)

\* Where the process is that still owes the SCM the answer to a start.
StartAnswered(p) ==
  \/ main[p] \in {"crash_handler", "logging", "connect"} /\ svc[p] = "off"
  \/ main[p] = "dispatch" /\ svc[p] \in Starting \union {"hung"}
  \/ /\ main[p] \in {"dtor_ucmcp", "dtor_ucid", "dtor_base", "exit", "hung"} /\ svc[p] = "off"
     /\ \A m \in Modules : <<p, m>> \notin loaded

\* Whatever is pending, the process the SCM deals with is on its way to an answer, or hangs: in
\* its crash handler, or, asked to stop, in the stop of a module that is loaded.  A process that
\* still owes the answer to a start meets no such stop: it has nothing loaded when it destroys
\* its loaders.  A service that says it runs is where a control reaches it.
AnswerComes ==
  /\ status # "STOPPED" => owner \in Procs
  /\ status = "START_PENDING" => StartAnswered(owner)
  /\ status = "RUNNING" => main[owner] = "dispatch" /\ svc[owner] = "off"
  /\ status = "STOP_PENDING" =>
       /\ main[owner] \in {"stop_ucmcp", "stop_ucid", "report_stopped", "hung", "in_stop"}
       /\ svc[owner] = "off"
       /\ main[owner] = "in_stop" => \E m \in Modules : <<owner, m>> \in loaded

(* A process that has ended owes nothing: the SCM has heard of it.              *)
LEMMA EndAnswers == ASSUME IInv, AnswerComes, NEW p \in Procs, ProcessEnds(p) PROVE AnswerComes'
  <1> USE DEF IInv, TypeOK, AnswerComes, StartAnswered, Starting, ProcessEnds, Report, Statuses
  <1>1. CASE owner = p
    BY <1>1
  <1>2. CASE owner # p
    BY <1>2 DEF Of
  <1> QED
    BY <1>1, <1>2

LEMMA MainAnswers == ASSUME IInv, AnswerComes, NEW p \in Procs, Main(p) PROVE AnswerComes'
  <1> USE DEF IInv, TypeOK, PcOK, AnswerComes, StartAnswered, Starting, MainAt, AfterDispatch,
              scmVars, loaderVars
  <1>1. CASE StartCrashHandler(p) \/ InitializeLogging(p) \/ DestroyBase(p)
    BY <1>1 DEF StartCrashHandler, InitializeLogging, DestroyBase
  <1>2. CASE Run(p)
    BY <1>2 DEF Run, SvcAt
  <1>3. CASE RunFails(p) \/ DispatcherReturns(p)
    BY <1>3 DEF RunFails, DispatcherReturns, ModulesOK, Modules
  <1>4. CASE OnStop(p) \/ DestroyLoaders(p) \/ LoggingFails(p) \/ Exit(p)
    <2>1. CASE ProcessEnds(p)
      BY <2>1, EndAnswers
    <2>2. CASE CrashInMain(p) /\ main[p] \in {"logging", "stop_ucmcp", "stop_ucid", "dtor_ucmcp", "dtor_ucid"}
      <3>1. CASE HandlerBlocks(p) /\ main' = [main EXCEPT ![p] = "hung"] /\ UNCHANGED svc
        BY <2>2, <3>1 DEF HandlerBlocks, ModulesOK, Modules
      <3> QED
        BY <2>1, <2>2, <3>1 DEF CrashInMain
    <2>3. ASSUME NEW m \in Modules, NEW to, UNCHANGED <<svc, status, owner>>,
                 \/ main[p] = "stop_ucmcp" /\ to = "stop_ucid"
                 \/ main[p] = "stop_ucid" /\ to = "report_stopped",
                 NEW returns \in BOOLEAN, UnloadControlModule(p, m, returns),
                 main' = [main EXCEPT ![p] = IF returns THEN to ELSE "in_stop"]
          PROVE  AnswerComes'
      <3>1. loaded' \subseteq loaded /\ (~returns => loaded' = loaded /\ <<p, m>> \in loaded)
        BY <2>3 DEF UnloadControlModule, StopHangs, StopFails, Released
      <3>2. owner = p => status \in {"STOP_PENDING", "STOPPED"}
        BY <2>3 DEF Statuses
      <3>3. CASE owner = p
        BY <2>3, <3>1, <3>2, <3>3
      <3>4. CASE owner # p
        <4>1. owner \in Procs => main'[owner] = main[owner]
          BY <2>3, <3>4
        <4>2. owner \in Procs => (main[owner] = "in_stop" =>
                \A k \in Modules : <<owner, k>> \in loaded => <<owner, k>> \in loaded')
          BY <2>3, <3>4 DEF UnloadControlModule, StopHangs, StopFails, Released
        <4> QED
          BY <2>3, <3>1, <3>4, <4>1, <4>2
      <3> QED
        BY <3>3, <3>4
    <2>4. ASSUME NEW m \in Modules, UNCHANGED <<svc, status, owner>>,
                 NEW from, NEW to,
                 \/ from = "dtor_ucmcp" /\ to = "dtor_ucid"
                 \/ from = "dtor_ucid" /\ to = "dtor_base",
                 NEW returns \in BOOLEAN, DestroyLoader(p, m, returns),
                 MainAt(p, from, IF returns THEN to ELSE "in_stop")
          PROVE  AnswerComes'
      BY <2>4 DEF DestroyLoader, StopHangs
    <2>5. CASE OnStop(p)
      BY <2>2, <2>3, <2>5 DEF OnStop, StopModule, Modules
    <2>6. CASE DestroyLoaders(p)
      BY <2>2, <2>4, <2>6 DEF DestroyLoaders, DestroyMember, Modules
    <2> QED
      BY <1>4, <2>1, <2>2, <2>5, <2>6 DEF LoggingFails, Exit
  <1>5. CASE ReportStopped(p)
    BY <1>5 DEF ReportStopped, Report
  <1> QED
    BY <1>1, <1>2, <1>3, <1>4, <1>5 DEF Main

LEMMA SvcAnswers == ASSUME IInv, AnswerComes, NEW p \in Procs, Svc(p) PROVE AnswerComes'
  <1> USE DEF IInv, TypeOK, PcOK, AnswerComes, StartAnswered, Starting, SvcAt, Report, scmVars,
              loaderVars
  <1>0. svc[p] \in Starting /\ owner = p /\ status = "START_PENDING" /\ main[p] = "dispatch"
    BY DEF Svc, ServiceMain, FindBootstrap, StartFails, LoadModules, LoadModule, ReportRunning
  <1>1. CASE ProcessEnds(p)
    BY <1>1, EndAnswers
  <1>2. CASE ServiceMain(p) \/ LoadModules(p)
    <2>1. \/ ProcessEnds(p)
          \/ /\ UNCHANGED <<main, status, owner>>
             /\ \E to \in {"config", "ucmcp", "report", "hung"} : svc' = [svc EXCEPT ![p] = to]
      BY <1>0, <1>2 DEF ServiceMain, LoadModules, LoadModule, CrashInSvc, HandlerBlocks
    <2> QED
      BY <1>0, <1>1, <2>1
  <1>3. CASE FindBootstrap(p) \/ ReportRunning(p)
    BY <1>0, <1>3 DEF FindBootstrap, StartFails, ReportRunning
  <1> QED
    BY <1>2, <1>3 DEF Svc

LEMMA ScmAnswers ==
  ASSUME IInv, AnswerComes, NEW p \in Procs,
         Killed(p) \/ ScmStarts(p) \/ StopControl(p) \/ ShutdownControl(p)
           \/ InstallStarts(p) \/ UninstallStops(p)
  PROVE  AnswerComes'
  <1> USE DEF IInv, TypeOK, PcOK, AnswerComes, StartAnswered, Starting, MainAt
  <1>1. CASE Killed(p)
    BY <1>1, EndAnswers DEF Killed
  <1>2. CASE ScmStarts(p) \/ InstallStarts(p)
    BY <1>2 DEF ScmStarts, InstallStarts, StartProcess
  <1>3. CASE StopControl(p) \/ UninstallStops(p)
    BY <1>3 DEF StopControl, UninstallStops, DeliverStop, StopBegins
  <1>4. CASE ShutdownControl(p)
    BY <1>4 DEF ShutdownControl
  <1> QED
    BY <1>1, <1>2, <1>3, <1>4

LEMMA ToolLeaves ==
  ASSUME Tool \/ InstallService \/ UninstallRefused \/ EntryGoes \/ UNCHANGED vars
  PROVE  UNCHANGED <<status, owner, procVars, loaded>>
  BY DEF Tool, InstallService, UninstallRefused, EntryGoes, InstallEnds, UninstallPolls,
         UninstallDeletes, vars, scmVars, loaderVars

(* In START_PENDING and STOP_PENDING somebody is about to report, unless it hangs in the   *)
(* crash handler or, on a stop only, in a module whose fpStop() does not return; and in    *)
(* RUNNING the service takes controls (ServiceBase::Start, Stop, ServiceMain, the          *)
(* loaders' UnloadControlModule), for any number of processes.                             *)
THEOREM AnswerIsComing == Spec => []AnswerComes
  <1>1. Init => AnswerComes
    BY DEF Init, AnswerComes
  <1>2. IInv /\ AnswerComes /\ [Next]_vars => AnswerComes'
    <2> SUFFICES ASSUME IInv, AnswerComes, [Next]_vars
                 PROVE  AnswerComes'
      OBVIOUS
    <2>1. CASE UNCHANGED <<status, owner, procVars, loaded>>
      BY <2>1 DEF AnswerComes, StartAnswered, procVars
    <2> QED
      BY <2>1, MainAnswers, SvcAnswers, ScmAnswers, ToolLeaves DEF Next
  <1> QED
    BY <1>1, <1>2, Invariance, PTL DEF Spec

\* The order in which the service goes through its states.
InOrder ==
  [][status' # status =>
       <<status, status'>> \in {<<"STOPPED", "START_PENDING">>, <<"START_PENDING", "RUNNING">>,
                               <<"START_PENDING", "STOPPED">>, <<"RUNNING", "STOP_PENDING">>,
                               <<"RUNNING", "STOPPED">>, <<"STOP_PENDING", "STOPPED">>}]_vars

(* However late the threads report, the SCM never hears that a service runs which it has   *)
(* already stopped, nor anything of a process that is not the last it started.             *)
THEOREM StatesComeInOrder == Spec => InOrder
  <1> DEFINE A == status' # status =>
       <<status, status'>> \in {<<"STOPPED", "START_PENDING">>, <<"START_PENDING", "RUNNING">>,
                               <<"START_PENDING", "STOPPED">>, <<"RUNNING", "STOP_PENDING">>,
                               <<"RUNNING", "STOPPED">>, <<"STOP_PENDING", "STOPPED">>}
  <1>1. ASSUME IInv, [Next]_vars
        PROVE  A
    <2> SUFFICES ASSUME status' # status
                 PROVE  A
      OBVIOUS
    <2>0. status \in Statuses
      BY <1>1 DEF IInv, TypeOK
    <2>1. CASE status' = "STOPPED"
      BY <2>0, <2>1 DEF Statuses
    <2>2. ASSUME NEW p \in Procs, ServiceMain(p) \/ ReportRunning(p), status' # "STOPPED"
          PROVE  A
      BY <1>1, <2>2 DEF ServiceMain, ReportRunning, SvcAt, Report, CrashInSvc, ProcessEnds,
                        HandlerBlocks, scmVars, IInv, PcOK, Starting
    <2>3. ASSUME NEW p \in Procs, ScmStarts(p) \/ InstallStarts(p) \/ StopControl(p) \/ UninstallStops(p)
          PROVE  A
      BY <2>3 DEF ScmStarts, InstallStarts, StartProcess, StopControl, UninstallStops, DeliverStop,
                  StopBegins
    <2>4. ASSUME NEW p \in Procs,
                 \/ Main(p) \/ FindBootstrap(p) \/ LoadModules(p) \/ Killed(p) \/ ShutdownControl(p)
          PROVE  status' \in {status, "STOPPED"}
      BY <2>4 DEF Main, StartCrashHandler, InitializeLogging, LoggingFails, Run, RunFails, OnStop,
                  StopModule, ReportStopped, DispatcherReturns, DestroyLoaders, DestroyMember,
                  DestroyBase, Exit, FindBootstrap, StartFails, LoadModules, LoadModule, Killed,
                  ShutdownControl, CrashInMain, CrashInSvc, ProcessEnds, HandlerBlocks, Report, scmVars
    <2> QED
      BY <1>1, <2>1, <2>2, <2>3, <2>4, ToolLeaves DEF Next, Svc
  <1>2. Spec => [][A]_vars
    BY <1>1, Invariance, PTL DEF Spec
  <1> QED
    BY <1>2 DEF InOrder
=============================================================================
