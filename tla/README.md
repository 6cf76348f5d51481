# Verification of the Windows Unified Connector

TLA+ models of the Windows Unified Connector (the sources under `src/`), TLC
configurations that check them on small instances, and proofs of the main
safety properties for every value of the constants, checked with TLAPS.
`PROJECT.json` is the index: components, runs, the source lines each definition
models, findings, hazards and theorems.

## 1. The system

The Unified Connector is a Windows service that hosts two plugins, one of which
keeps a package manager agent alive; the agent installs and updates packages.

    Windows service control manager
       |  start, stop, shutdown
    UCService / ServiceBase ........ ServiceLogManager thread, crash handler
       |  UCIDLoader   UCMCPLoader  (LoadLibrary, CreateModuleInstance)
       |                  |  fpStart, fpStop
       |              PmControlPlugin       (singleton in the DLL)
       |                  |  Start, Stop
       |              PmAgentController --- monitor thread
       |                  |  CreateProcess, stdin pipe, TerminateProcess
    -- process boundary ------------------------------------------------
                      csc_pm.exe: PmAgentContainer, PmAgent, package manager library
                          |- WindowsConfiguration - UCIDApiDll (identity), WinCertLoader
                          |     |- ThreadedProxyDiscovery - discovery thread
                          |           |- ProxyDiscovery - ProxyDiscoveryEngine - WinHTTP
                          |- WindowsComponentManager - installers, MSI
                          |- PackageDiscovery - registry, MSI
    -- started by the user or by the agent -----------------------------
    csc_cmdt.exe: DiagTool (archives of log files), CToastNotificationPlugin
    -- run by Windows Installer ----------------------------------------
    InstallerCustomActions, dllCaSupport: the plugin in Secure Client's directory, events

### Inventory

| Component | State | Operations | Talks to | What is hard | What makes it correct |
|---|---|---|---|---|---|
| `PmAgentController` | handles of agent and stdin pipe, started flag, monitor thread, `m_mutex` | `Start`, `Stop`, `monitorProcess`, `killIfRunning`, `startProcess`, `stopProcess`, destructor | Windows processes, called by `PmControlPlugin` | a monitor thread that restarts the agent against callers that stop it; an unlocked read of a handle; timeouts; a join; failures half way | never two agents; none nobody wants; a running agent is reachable; no `std::terminate`; calls return |
| `PmControlPlugin` | started flag, `m_mtxAgentCtrl` | `StartPmAgent`, `StopPmAgent` | loader above, controller below | its flag and the controller's can disagree after a failed stop | "not started" means nothing is left |
| `WindowsConfiguration` (proxy part) | stored callback and context, `m_proxyMutex` | `StartProxyDiscovery`, `StartProxyDiscoveryAsync`, `ProxiesDiscovered` | `ThreadedProxyDiscovery`, package manager | callback under locks, replaced by a second request | one callback per request, and to the one stored last |
| `ThreadedProxyDiscovery` | thread running, shutdown | async start, thread body, destructor | `ProxyDiscovery` | a detached thread that must end before its object | destructor outlasts the thread; flag is cleared |
| `ProxyDiscovery`, engine | consumers, list of proxies, two mutexes | discover, notify, register, unregister | WinHTTP, consumer | shared list, nested mutexes | one user at a time, own results |
| `ProxyStringParser` | none | parse | engine | formats with and without scheme and port | parses what it should |
| `WindowsConfiguration` (identity), `UCIDApiDll` | cached id, token and URLs, function pointers, loaded flag, `m_ucidMutex` | get identity, token and URLs, refresh | identity library | partial loads, pointers into a freed library, results that hide a failure | URLs returned with true are real; no call through a bad pointer; the library is released |
| `WinCertLoader` | certificates, two mutexes | load, unload, reload, copies | Windows certificate store | a reload in two calls beside threads that take copies | an empty copy only while there is nothing to load |
| `WindowsComponentManager` | none of its own; installers in flight | update, deploy configuration, run package, MSI | installers, signature verifier, Windows installer | timeouts that leave the installer running, bounded waits | a reported success is that of the process this call has started |
| `PackageDiscovery` | cached inventory | discover packages | registry, MSI | a list read index by index while installers change it | the inventory is what is installed |
| `UCService`, `ServiceBase` | service status | `OnStart`, `OnStop`, `Shutdown`, install, remove | loaders, service control manager | failures while starting, shutdown without stop, a process that outlives its report of the end | one supervisor; pending states end |
| `UCIDLoader`, `UCMCPLoader`, `ControlModulePlugin` | library handle, functions, loaded flag | load, unload | service, control module | failures half way leave library and flag apart | no call through a null function; create and release match |
| `ServiceLogManager`, `UcConfig` | running flag, level, modification time | start, stop, follow the file | logger, file | lost wakeup, granularity of time | stop returns; the level follows the file |
| `UcLogFile`, loggers | log file | init, write, deinit, reconfigure | every thread | check and use without a lock | no write to a closed log |
| `CrashHandlerClient` | exception handler, one static mutex | set up, remove, callbacks | breakpad, signals | callbacks re-enter the mutex | a crash is written and ends |
| `LibVerifier` | none | verify a signature | Windows | several ways to trust a file | a file of another signer is refused |
| `libWindowsUtilities` | none | Windows calls | Windows | - | - |
| `DiagTool` | files named after the clock | collect, archive, extract, elevate | file system, other tools | tools that run at the same time, parents that are gone | own files in a directory; one question for rights |
| `CToastNotificationPlugin` | toast, three tokens | show, reset | Windows notifications | registrations that fail half way | every handler can be removed |
| installer actions | plugin, properties, resources | copy and remove the plugin, checks, events | Windows Installer, Secure Client | actions that Windows Installer does not take back; a removal inside an upgrade | plugin and events fit the installed product |
| version plugin, tests, build | - | - | - | no state of the program | - |

The hazards, each at its line with the properties that would show it, are in
`PROJECT.json`.

## 2. Plan

The modules, in the order in which they were written; what each leaves out is in section 7.

1. **Agent supervision**: `AgentSupervision` (abstract), `PmAgentController`,
   `PmControlPlugin`, with proofs. The heart of the service: threads, processes
   and failures meet here.
2. **Proxy discovery**: `ProxyRequests` (abstract), `ProxyDiscovery`, with proofs: several threads
   share state.
3. **Service log and configuration**: `ServiceLog`, with proofs.
4. **Identity cache**: `UcidIdentity`, with proofs.
5. **Service, loaders and crash handler**: `UcService`, with proofs: processes of the
   service against the service control manager, every error path of loading.
6. **Installer**: `InstallerActions`, with proofs, and a finding.
7. **The agent's updates and certificates**: `AgentUpdates` and `AgentCertificates`,
   composed in `AgentPlatform`, with proofs.
8. **Package discovery**: `PackageDiscovery`, with proofs in `AgentPlatformProofs`.
9. **Diagnostics and toasts**: `Toast`, extended by `Diagnostics`, with proofs.

What would come next: a service that relies on `AgentSupervision` for its module in the
place of the set `started` of `UcService`, and a file of diagnostics that the user names.

## 3. The modules

### Agent supervision

`PmAgentController` models the class of that name. Its members are variables under
their own names; `agents` is what Windows knows of each `csc_pm.exe`, `own` the
live ones that this instance of the service has started. `pc[t]` is where caller `t` is
inside `Start()` or `Stop()`, `monitor` where the monitor thread is. A step ends
where another thread can interfere: at a lock, a wait, an unlocked read or a call
into Windows.

| Code | Actions |
|---|---|
| `Start()` | `KillIfRunning`, `StartProcess`, `SpawnMonitor` |
| `startProcess()` | `LaunchRefused` (signature check: returns at once), `LaunchFailed` (`graceful_exit`: `cleanup()`), `Launched` |
| `Stop()`, `stopProcess()` | `StopLock`, `StopWaitDone`, `StopWaitTimeout`, `StopTerminate`, `StopJoin` |
| `monitorProcess()`, `waitForProcess()` | `MonitorRead`, `MonitorCall`, `MonitorSignalled`, `MonitorWaitFails`, `MonitorLock`, `MonitorRestart` |
| end of a process | `AgentEnds` (environment) |

`PmControlPlugin` extends it with `StartPmAgent()` (`CallStart`, `ReturnStart`),
`StopPmAgent()` (`CallStop`, `ReturnStop`), the loader's destructor (`CallUnload`,
`FreeLibrary`, `Destroy`) and a crash of the service (`ServiceCrash`), and holds
`Init`, `Next`, the specification and the properties. The early returns for
"already started" and "not started" change nothing and are not steps.

Two outcomes are left to Windows and are therefore choices: what a wait on a value
that is no agent's handle does (`BadWait`: it fails, or it blocks, because
`INVALID_HANDLE_VALUE` is also the pseudo handle of the calling process), and what
happens to a wait whose handle is closed under it (`MonitorWaitFails`, or it goes
on and is signalled). Times (60 s for the agent to end, 30 s before a restart) are
not measured: a timeout is a step that may come at any moment while what it waits
for has not happened.

`AgentSupervision` is what the service may rely on, without threads and handles: a
phase (off, starting, on) and the set of live agents. `Supervised` is the refinement,
with the plugin's flag and the calls in progress as the phase.

### Proxy discovery

`ProxyDiscovery` models the path from `WindowsConfiguration` to the engine and back.

| Code | Actions |
|---|---|
| `WindowsConfiguration::StartProxyDiscoveryAsync` | `CallAsync`, `AsyncLock`, `AsyncReturn` |
| `ThreadedProxyDiscovery::StartProxyDiscoveryAsync` | `AsyncStart` |
| `WindowsConfiguration::StartProxyDiscovery`, `ProxyDiscoverySync` | `CallSync`, `SyncInit`, `SyncDiscovered`, `SyncReturn` |
| `DiscoveryThread`, `NotifyConsumers`, `ProxiesDiscovered` | `ThreadInit`, `ThreadDiscovered`, `ThreadGet`, `ThreadNotify`, `ThreadConsumer`, `ThreadCalledBack`, `ThreadEnd` |
| `~WindowsConfiguration`, `~ThreadedProxyDiscovery` | `Unregister`, `Shutdown`, `Drain` |

A list of proxies is the request for whose URLs it was found, or `NoProxies`; so a
result that belongs to other URLs can be told from the right one. `Discovered` leaves
open whether anything is found. The discovery thread reads the strings of its
request through pointers; once the strings are gone (`buffers`), and if their memory is used again
(`BuffersReused`), it may find proxies for any URL. The mutex of
`ThreadedProxyDiscovery` guards sections that never block; each is one step and the
mutex is not a variable.

`ProxyRequests` is what the package manager may rely on, without threads, mutexes or an engine: one
callback waits at a time, the one stored last; a result goes to it once; who asks synchronously gets
the proxies of its own URLs or none; after the end there are no answers. `RequestsServed` is the
refinement: a request waits while it is in `m_proxy_cb`, and `Calls` are those under way.

### Service log and configuration

`ServiceLog` models `ServiceLogManager` with its `UcConfig` and the level of its
`UcLogger`, beside a file and a clock that go their own way (`FileChanges`, `Tick`).

| Code | Actions |
|---|---|
| `ServiceLogManager::Start()` | `Start`, then a load, then `StartThread` |
| `Stop()` | `StopFlag`, `StopNotify`, `StopJoin`, `StopFree` |
| `UpdateLogLevelThread()`, `wait_for` | `ThreadCheck`, `ThreadPredicate`, `ThreadBlock`, `ThreadSpuriousWake`, `ThreadTimeout` |
| `UpdateLogLevel()`: `LoadConfig()`, `SetLogLevel()` | `ConfigExists`, `ConfigStat`, `ConfigRead`, `ConfigParse`, `SetLogLevel` |

A load is five steps because the file may change between any two looks at it. The
contents of the file are what the code tells apart: a level, an integer that is no
level, or anything `GetJsonFromFile()` rejects. `TimesGrow` says whether two changes
may carry the same time. A notification reaches the thread only in its wait; the
predicate and the wait are separate steps, since `Stop()` does not take the mutex.

### Identity cache

`UcidIdentity` models `WindowsConfiguration`'s calls about the identity and
`UCIDApiDll`. Each public call holds `m_ucidMutex` from `Lock` to `Return`.

| Code | Actions |
|---|---|
| `GetIdentityToken`, `GetUcIdentity`, `GetPmUrls`, `RefreshIdentity` | `Call`, `Lock`, `Return` |
| `UpdateUCID()` | `UpdateLoad`, `RefreshToken`, `GetToken`, `GetId`, `GetUrls`, `UpdateUnload` |
| `LoadApi()` with `LoadDll()`, `UnloadApi()` with `UnloadDll()` | operators of those names |
| destructors | `Destroy` |

Values are known by their age: `new` if the update in progress or the last one
fetched them, `old`, `none`, or `garbage` for a buffer that the library did not write.
A function pointer is `null`, `bound` or `stale` (into a freed library); calling
one that is not bound may end the process (`crashed`). The library
is external, and everything about it may fail: it may be missing or lack functions (`complete` is the
history of that), any call into it may fail, also between length and value, and the first call,
without a buffer, may answer with success (`Fetched`). A call with a buffer that succeeds is taken to have
written a value. A call for which the library could not be loaded ends in the place `skipped`.

### Service, loaders and crash handler

`UcService` is the life of the service as the service control manager (SCM) sees it, with the
processes behind it: a process that has reported `SERVICE_STOPPED` still runs its destructors
when the next one may start, so the state is per process, and `owner` is the process the SCM
means. `main` is the thread of the dispatcher, on which controls arrive, `svc` the thread
in `ServiceMain()`.

| Code | Actions |
|---|---|
| `wmain`, constructors, `Run()` | `StartCrashHandler`, `InitializeLogging`, `LoggingFails`, `Run`, `RunFails` |
| `ServiceMain()`, `Start()`, `OnStart()` | `ServiceMain`, `FindBootstrap`, `LoadModules`, `ReportRunning` |
| `Stop()`, `OnStop()`, `Shutdown()` | `StopControl`, `OnStop`, `ReportStopped`, `ShutdownControl` |
| destructors | `DispatcherReturns`, `DestroyLoaders`, `DestroyBase`, `Exit` |
| `LoadControlModule()`, `UnloadControlModule()`, `UnloadDll()` of both loaders | operators of those names, `LoadedUpTo`, `StopFails`, `Released`, `NullCreate`, `NullRelease`, `DestroyLoader` |
| `InstallService()`, `UninstallService()` | `InstallService`, `InstallStarts`, `InstallEnds`, `UninstallStops`, `UninstallRefused`, `UninstallPolls`, `UninstallDeletes` |
| Windows | `ScmStarts`, `EntryGoes`, `Killed`, `ProcessEnds` |

The crash handler takes a `std::mutex` twice. That is undefined, so a crash either ends the
process or leaves the thread where it is (`HandlerBlocks`). `fpStop()` of a module may not return
(`StopHangs`): that of the package manager's plugin ends in the join of `PmAgentController::Stop()`. The main thread
then stays in `OnStop()` or in the destructor.

### Installer

`InstallerActions` is a session of Windows Installer with the custom actions of
`Product.wxs` in their order, and the session nested in an upgrade that removes the old
product. Each action may fail, and a failure leads to `Rollback`, which restores files and
products but not the plugin in Secure Client's directory, of which Windows Installer knows
nothing.

| Code | Actions |
|---|---|
| `ExtractCaResources`, `RemoveCaResources` | actions of those names |
| `CollectUCData`, `SendEventOnUninstallComplete`, `SendEventOnUninstallError` | actions of those names |
| `DetectOlderBuildVersion`, `DetectValidWindowsVersion` | actions of those names, `IsOlderBuild`, `IsValidWindows` |
| `SetupRemoveCscPluginData` with `RemoveCscPlugin`, `SetupCopyCscPluginData` with `CopyCscPlugin` | `RemoveCscPlugin`, `CopyCscPlugin`, `HasPaths` |
| Windows Installer (`MajorUpgrade`) | `Begin`, `MoveFiles`, `RemoveExistingProducts`, `InstallFinalize`, `NestedFails`, `Rollback` |

A version is its first three fields, in their order, and the build, which Windows Installer
ignores. `intact` and `blind` are history: whether the last session succeeded, and whether a
version could not be read, in which case the comparison is skipped by the code as well.

### The agent's updates and certificates

`AgentUpdates` is the one thread that installs: `UpdateComponent()` or `DeployConfiguration()` asks
`CodesignVerifier` whether to go on, unless no signer is named (`Verdicts`), then starts a process and waits.
What is verified and what is started need not be the same file (section 5), so the model carries no "verified" along.

| Code | Actions |
|---|---|
| `UpdateComponent()`, `DeployConfiguration()` | `UpdateComponent`, `DeployConfiguration`, `Return` |
| `UpdateMsi()` | `UpdateMsi`, `Sleep` |
| `RunPackage()` | `RunPackage`, `InstallerHasEnded`, `WaitEnds` |
| installers, Windows Installer, other programs | `BeginsMsi`, `InstallerEnds`, `OtherInstalls` |

An installer the agent has given up keeps running and may keep Windows Installer busy for the
next call. `AgentCertificates` counts certificates; a reload is two calls of
`WinCertLoader` under `m_certMutex`. `AgentPlatform` is both together.

### Package discovery

`PackageDiscovery` follows `DiscoverInstalledPackages()`.

| Code | Actions |
|---|---|
| `MsiApi::QueryProducts()`, `FindRelatedProducts()` | `DiscoverInstalledPackages`, `NextProduct`, `ProductSkipped`, `QueryEnds` |
| `GetProductInformation()`, `QueryProperty()` | `QueryState`, `QueryVersion` |
| `ApplyDiscoveryMethods()` and the methods | `NextRule`, `DiscoverByMsiRules`, `DiscoverByRegistry` |
| the loops of `DiscoverInstalledPackages()`, `CachedInventory()` | `AddToInventory`, `RuleEnds`, `ReturnInventory` |
| installers | `Change` |

A `Place` is where Windows Installer may have something: a product code in a context of a user or of the
machine. A component may be installed in several places at once, and each of its products joins the
inventory. Windows Installer is taken to list each place once if nothing changes; after a change the indices not
yet reached may be those of any products. Any query may fail: a property is then the empty string, the enumeration ends early or
a related product is skipped. A failure and a change count alike as a disturbance (`disturbed`, at most
`Disturbances` in one discovery). `MsiQueryProductState()` is asked by product code and not by place;
`advertised` may be set for each place on its own, which includes what the code can see.
`DiscoverPackageConfigurables` is the pure part, the configuration files of a package: which files exist is chosen
anew for each package. `Expected` and `counted` are what the results are compared with.

### Diagnostics and toasts

`Diagnostics` has several processes of `csc_cmdt.exe` at the same time, each from its start to
its end; they meet at archives that are named after the second. `Toast` is the plugin
inside each.

| Code | Actions |
|---|---|
| `wmain`, `RunElevated()` | `UserStarts`, `RunElevated`, `WaitEnds`, `Begin` |
| `CreateDiagnosticPackage()`, `CreateDiagnosticFiles()` | `CreateArchiveFile`, `AddFileToArchive`, `CloseArchiveFile`, `ExtractArchive`, `RemoveArchive` |
| `NotifySystemRestart()`, `SendToast()` | `NotifySystemRestart`, `SendToast` |
| `createToast()`, `resetToast()`, `displayToast()`, the destructor | `CreateToast`, `ResetToast`, `OnlyReset`, `NotCreated`, `DeletePlugin` |
| Windows | `ToastEvent`, `Killed`, `Tick` |

The temporary archive of `-d` is named by the first `rand()` after `srand(time)`. That two
seconds give two names is a fact about the generator of the C library for short times, stated as
`RandAssumption`.

### Fault operators

Operators named `Bug...` stand before the definition they distort; no action uses
them. They name the plausible mistakes (a dropped lock, a flag cleared too early, a
reset forgotten) that the properties have been tried against, as listed under `mutants`
in `PROJECT.json`.

## 4. The runs

| Run | Instance | Shows |
|---|---|---|
| `plugin_supervision` | 2 callers, 3 agents, crashes | a running agent is the one in `m_hProcess`; its pipe is open; "not started" leaves nothing; restart and `Start()` never overlap; launches are wanted; refinement of `AgentSupervision`; every call returns or is in a join that cannot end; an agent that ends comes back |
| `plugin_spawn_fails` | the same, thread creation may throw | no `std::terminate` for any sequence of calls |
| `proxy_discovery` | 2 callers, 3 requests, thread creation may fail, memory reused | exclusive engine, own results of synchronous calls, one callback, nothing outlives its object; refinement of `ProxyRequests`; calls and destructors end; a started discovery is reported |
| `log_follow` | 2 levels, 3 seconds, growing times | a recorded time never hides a change; stop is heeded and returns; no use of a freed logger; the level follows the file |
| `identity` | 2 callers, every failure of the library | the stale pointer is never called; no caller frees the library under another; it is released; URLs are handed over only when all are there |
| `identity_refresh` | as `identity` | the second finding of section 5 |
| `service_lifecycle` | 2 processes | one of them supervises; the logger outlives the modules; a pending start or stop is answered, unless the crash handler or a module's stop does not return |
| `installer_sessions` | 2 releases, 2 builds, 6 machines | after a success the plugin is that of the product; events are true; no older build gets in |
| `agent_updates` | 2 installers, 2 polls, 2 threads, 2 certificates | a success is that of this call's own process; every call returns although installers hang; no empty copy during a reload |
| `package_discovery` | 2 components, one with 2 places, 2 versions, 1 disturbance in each discovery | the inventory names no version that was not there, and is exactly what is installed if nothing was disturbed; each configuration file is listed once |
| `diagnostics` | 3 tools, 1 file, 2 seconds | rights are asked for once; no foreign files; no handler left |
| `installer_rollback` | as `installer_sessions` | the first finding of section 5 |

The types and the inductive invariants are not among the runs: they are theorems (section 6).

**Bounds.** Two callers are enough for every race on `m_mtxAgentCtrl` or on the
discovery's mutexes: a third would wait like the second. Three agents let one
run, one be on its way out and one be left by a crashed service at the same time; a dead one may
be launched again, so the number of restarts is not bounded. Three requests allow one
running, one replacing its callback and one synchronous; the calls of one run are
bounded by the requests, since each is made once. There are no counters there. The
clock of `ServiceLog` is bounded by `MaxTime`: three seconds give a file that was
there at the start, one change while a load looks at it, and one after it; the file
may change any number of times when times need not grow. The
identity cache is bounded by nothing but the number of callers. Two processes
of the service are one that is on its way out and one that starts; a process that has ended may be
started again. Two releases with two builds each have an upgrade, a side grade in both
directions and a downgrade, and sessions follow each other without bound. Two installers are
one given up and one waited for; two polls of `UpdateMsi()` show the same loop as its 30. In the discovery one component has two places (a user and
the machine, or two product codes under one upgrade code) and the other one a registry key; one disturbance in each discovery
moves, removes or replaces a product, or is the one query that fails. A second disturbance or a third place takes TLC beyond
five minutes; the theorem covers them. Three tools are a parent, its child and a grandchild, or three strangers; two seconds are the same
second or another. The proofs do not need these bounds.

**Fairness.** A thread inside a call, the monitor and the discovery thread are
scheduled (weak fairness): Windows does not starve a ready thread. Nobody is obliged to
call, to crash or to end an agent, except that a process being terminated does end. Two
assumptions are strong. `StopGetsMutex`: a `Stop()` that waits for `m_mutex` gets it
if the mutex keeps being free while the agent runs; the monitor holds it only between
the end of an agent and its restart. `RestartIsTried`: the signature check does not
refuse the agent for ever. Without the first a `Stop()` could lose to an agent that crashes
at once each time, without the second an agent would legitimately stay away.
In
`ServiceLog` steps of both threads are weakly fair, `ThreadTimeout` strongly: the
deadline of `wait_for` is fixed at its start, so that spurious wakeups, which are
allowed any number of times, do not put it off. The file need not change and nobody
has to stop the service. In `UcService` the two threads of each process are scheduled and the
program that installs or removes goes on, which while the service is in `SERVICE_STOP_PENDING` means that it asks
again; controls, crashes and kills need not come, and a stop of a module need not return. `AgentUpdates`
assumes only that the agent's thread runs: the timeout of a wait is its own step, and
installers may hang for ever. The other modules state no fairness, and no liveness.

**Deadlock** is checked in every run but two; where the objects end for good, or the process
does, the final state is given a stuttering step (`Terminated`). In `service_lifecycle` Windows
may shut down, and in `diagnostics` every tool may have ended: the system stops there.

## 5. Findings and observations

**`installer_rollback`.** A comment in `Product.wxs` says that a failed upgrade also takes back
the removal of the installed product. `RemoveCscPlugin` of the nested removal and
`CopyCscPlugin` move away the plugin in Secure Client's directory, and neither has a rollback action: after the
rollback the product is installed, and Secure Client has no plugin, or the wrong one. `PluginFits` therefore speaks of
the time after a success.

**`identity_refresh`.** `WindowsConfiguration.h:32` says of `RefreshIdentity()` that it refreshes the UCID and the UCID
token. `UpdateUCID()` returns true without having fetched anything when the library cannot be loaded, and without having
changed a value when the library answers the first call, which asks for the length, with success.

The following is no disagreement with a statement of the repository, or has no run because
it follows from a few lines of code; each is the reason why a property is stated as it is.

- *Supervision.* A restart whose launch fails is not noticed (`PmAgentController.cpp:100`): the agent is no
  longer watched while both flags say it is started. After one failed `TerminateProcess()` the
  next `Stop()` only joins a monitor that waits for the agent. A monitor that waits on
  `INVALID_HANDLE_VALUE` after a failed launch waits for its own process. `CallsReturn` excepts a join that cannot
  end, `AgentComesBack` a launch that failed.
- *Proxies.* A request in the window between notification and the clearing of
  `m_threadRunning` is accepted and never answered; a second request replaces the callback of the first and is
  answered with the first one's result; the discovery thread is given pointers into temporaries
  (`BuffersReused`).
- *Log.* Two changes of the configuration with the same modification time, with a load in between,
  leave the second one unread (`TimesGrow`).
- *Identity.* When the second call into the library fails, `GetId()` and `GetToken()` store a buffer that was never
  written (`Unwritten`); the update returns false, but the next `GetUcIdentity()` finds a cached value and returns it with true.
  After an update that fetched the identity but not the token, `GetIdentityToken()` returns true with an empty token. Nothing
  is claimed about served identities and tokens therefore. `GetUrls()` assigns only on success, so that of the URLs it can
  be: `ServedUrlsAreReal` excepts only a call for which the library could not be loaded, whose result stays true.
- *Updates.* `DeployConfiguration()` verifies `installLocation\verifyBinPath` and starts `verifyBinPath` alone, which
  Windows looks up by its own rules; and a package or configuration without a signer's name is not verified at all
  (`WindowsComponentManager.cpp:64-72, 116-133`). `SuccessIsReal` therefore says whose exit code a success is, and nothing about
  who signed it.
- *Discovery.* `QueryProperty()` makes an empty string of every error, so that a product that is there can be listed with an empty
  version; a failed query of its state makes an advertised product count as installed, one of its name hides it.
- *Service.* `SERVICE_RUNNING` is reported even when no module could be loaded, and `SERVICE_STOPPED` at a
  shutdown before anything was stopped; `UninstallService()` deletes the service without waiting
  while a start is pending. When the stop of a module does not return, the service stays in `SERVICE_STOP_PENDING`:
  `PendingEnds` excepts that, and a crash handler that blocks. A module without `ReleaseModuleInstance()` runs, and stopping it calls
  a null pointer.
- *Diagnostics.* Tools of one second share an archive, in the temporary directory and on the desktop.
  `ExtractArchive()` counts a file that cannot be written as a success. `setTextValues()` reports what became of
  the last line only. The toast's event handler starts with one reference of its own
  (`ToastEventHandler.cpp:24`), which nobody gives back: it is leaked with every toast.

## 6. Proofs

Eight modules (`...Proofs`) prove, for all constants that satisfy the assumptions, what the
passing runs check of safety: every invariant (but `FilesListedOnce`, see below), every action property and both refinements. In each the
properties follow from an inductive invariant with the types as its first part; both are listed as
theorems. Where a run checks a liveness property, the part of it that is safety is a theorem as well.

**Agent supervision** (assumes `ControllerAssumption`, and `SpawnCanFail = FALSE` except where said). The
properties are not inductive by themselves: that `Start()` does not assign to a
joinable thread follows from the plugin's flag, the flag from the outcome of the last
`Stop()`, that from where the failed `Stop()` left thread and flag. `IInv` ties these
together: `CallsFit` (who executes what; one at a time), `MutexFits` (who holds `m_mutex`; the
monitor restarts only with the flag up), `FlagFits` (the flag is down from `StopLock`
on), `ThreadFits` (when the thread exists; without it no agent of ours runs),
`WaitFits` (the monitor waits for the agent in `m_hProcess`; beyond the wait none runs) and
`PipeFits`. There is one lemma per conjunct or group, with a step per action.
`ImplementsSupervision` maps every step to a step of `AgentSupervision` or a stutter.

When the thread cannot be created, an agent runs that nobody watches, and `ThreadFits` and what rests on
it are false by design. `NeverTerminates` and `TypeCorrect` hold all the same, for both values of
`SpawnCanFail`. `JoinIInv` is the invariant for that: with `JoinFits` a joinable
thread belongs to a start that succeeded, and whoever destroys the controller has either joined
it or taken down the flag, so that the destructor's `Stop()` goes straight to the join.

`NoCircularWait` and `MonitorStays` are the safety behind `CallsReturn` and `AgentComesBack`: who waits for
`m_mutex` waits for a thread that waits for no lock (`WaitsEnd`), and while the agent is wanted the monitor is lost
only after a launch that left no handle (`LostWithoutHandle`).

**Proxy discovery** (assumes `ProxyAssumption`). `IInv` consists of `MutexesFit` (who
holds which mutex), `LifeFits` (thread, flag and lifetime of the objects), `RequestsFit` (a request has
one caller), `AnswersFit` (no answer before its time, none twice) and `EngineFits` (the
list inside the engine belongs to the one who is inside). `SyncIsSeparate` follows as an
action property. `ImplementsRequests` is the refinement, one lemma per kind of step; that a result goes to
the callback stored last needs `MutexesFit`, since `ThreadCalledBack` forgets a callback that
`AsyncLock` must not have replaced in between. `NoCircularWait` shows that of all who wait somebody waits
for a thread that goes on (`SomebodyGoesOn`), although the consumer's mutex is held while `m_proxyMutex` is awaited.

**Service log** (assumes `LogAssumption`). `LoadedFits` says that a file whose time is
the recorded one need not be read again. To be inductive it needs what holds in the middle of a
load: what was read belongs to the recorded time (`ReadFits`), and a finished load left
level and time in agreement (`AppliedFits`); that no file is younger than its last change (`StampsFit`);
and who loads when (`ThreadFits`), from which the lifetime of the logger follows. `StopComesCloser` gives
`StopReturns` its measure: once the flag is down, every step of the thread, spurious wakeups
included, lowers a number that is at most 6 (`ThreadRunsOut`).

**Identity cache** (assumes `IdentityAssumption`, and nothing about the library). The
pointer that `UnloadDll()` forgets is the interesting one: it is safe only because
`refreshToken` is called first and bound before it. `StaleFits` states that: while `getUrl` is stale,
`refreshToken` is null, and no update gets beyond its first call with a null
`refreshToken`. `PointersAreGood` holds whatever the library lacks; a call through a null pointer happens only while an
incomplete library is loaded (`CallsAreBound`).
`UrlsFit` carries a success through the update, `DllFits` ties flag, library
and pointers together, and `MutexFits` leaves one caller inside.

**Service** (`UcServiceProofs`). `PcOK` says what the place of a thread means for the SCM's view and for the
logger, `ModulesOK` which modules cannot run at a place, `StartedOK` that whoever still supervises is the
process the SCM means, unless it is excused. `ServiceIsAlone` needs all three: a new process starts only when the SCM
has heard `SERVICE_STOPPED`, which `ReportStopped` says only after both modules are stopped or a stop has failed.
`AnswerIsComing` is the safety of `PendingEnds`: while a state is pending, the owner is on its way to the answer,
hangs in its crash handler, or waits for a module's stop that does not return. `StatesComeInOrder` lists the changes of state that the SCM can hear.

**Installer** (`InstallerProofs`, assumes `VersionAssumption`). A session goes through its places in one
order, so `IInv` says for each place what is settled by then: `NestOK` (when a nested session
runs), `FitOK` (how the package fits the product), `PluginOK` (whose plugin is in place) and `EventOK`.
`NeverDowngraded` follows as an action property: the product changes only at the end of a session, whose
package has been compared by then.

**Updates and certificates** (`AgentPlatformProofs`). `ProcOK` ties the process the call has started to
the handle it waits on, so that the end of an older installer is never taken for the end of this one;
`WaitFails` that the code of a timeout is no success. `CertIInv`: without the mutex held, a successful load means there are
certificates. `PlatformTypes` are the types of both parts. `CallComesCloser` gives `CallsReturn` its measure: a call
is at most `2 * Polls + 3` steps of its thread from its return, and no installer puts it off (`CallRunsOut`).

**Package discovery** (in `AgentPlatformProofs`, assumes `DiscoveryAssumption`). `InventoryIsTrue` makes two claims,
and `DiscoveryIInv` has a part for each. What is reported was there at some time, whatever changed, or its version is empty and
something was disturbed: `SeenOK` says so of the
vector, the cache, the packages found and the inventory alike. And it is exact if nothing was disturbed:
`ListOK` says that the vector and the places left are what is asked for, `CacheOK` that the whole list was read, and
`ExactOK` that the rules which are done have found what `Expected` says, each place once, while those to come have found
nothing. The
inventory is a sequence that only grows at its end, so that no induction over data is needed: the
invariant describes all of its elements, and each step adds one.

**Diagnostics and toasts** (`DiagnosticsProofs`). `ChildrenOK` and `RelaunchedOnce` together are inductive for the
processes, `NamesOK` and `ArchivesOK` (what is in an archive was packed in the second of its name) for the
files, `NoStrayHandler` by itself, since `resetToast()` removes exactly what it has tokens of.

**Only model-checked.** Liveness, since fairness and ENABLED are out of the prover's reach: `CallsReturn` (of the
plugin, of proxy discovery and of the updates), `AgentComesBack`, `DiscoveryIsReported`, `StopReturns`, `LevelFollowsFile` and
`PendingEnds`. `FilesListedOnce` is about files that are all chosen within one step: its run goes through every input, and
a proof would do no more. `FailedUpgradeRestores` and `RefreshIsFresh` are no theorems: they are violated (section 5). With
`SpawnCanFail = TRUE` nothing is claimed of the supervision but its types and `NoStdTerminate`.

## 7. Not modelled

- The package manager library, whose submodule is empty, and the start-up glue around it (`PmAgent`,
  `WinPackageManager`). What its callbacks do while they are called is open.
- `ProxyStringParser`, the log file and the other loggers, the version plugin: parsing, formatting and output
  without state that a property would be about. The life of the service's logger is in `ServiceLog` and `UcService`.
- `libWindowsUtilities` apart from `MsiApi`, and `UserImpersonator`: calls into Windows, which appear by their outcomes.
- Of the agent: `UpdateCertStoreForUrl()`, `InstallComponent()` and `UninstallComponent()` (which only return an
  error), `DiscoverByMsi()` (which nobody calls), the padding of version numbers.
- Of the service: pause, continue and other controls, which it does not accept.
- Of the installer: `TryKillProcessByName()`, the actions that are commented out of `Product.wxs`, how an event is
  built and sent.
- Of the tools: an archive whose name the user gives (`-o`), which two tools may share at will, and the
  callbacks of the toast plugin, which nobody sets.
- What Windows does beyond the outcomes the code distinguishes; leaks of handles; the loader lock during the
  destruction of the singleton; a configuration file that is put back with an older time; and an identity
  that changes in the library between two fetches of one update.
