------------------------- MODULE AgentPlatformProofs -------------------------
(***************************************************************************)
(* A success is real, no thread gets an empty copy of certificates that    *)
(* were loaded, and the inventory is true, whatever the number of          *)
(* processes, polls, threads, certificates, components and changes.        *)
(***************************************************************************)
EXTENDS AgentPlatform, PackageDiscovery, TLAPS, FiniteSetTheorems

\* A call that waits has a process of its own, which nobody else ends or takes, and which is of
\* the kind the call is for.
CallOK == at = "wait" => mine \in Proc /\ proc[mine].state # "free" /\ proc[mine].job = job
ProcOK == proc = [i \in Proc |-> proc[i]]
ResultOK ==
  (at = "idle" /\ result \in {"success", "reboot"}) =>
     /\ mine \in Proc /\ proc[mine].state = "ended" /\ proc[mine].job = job
     /\ PmInstallResult(proc[mine].code) = result
     /\ result = "reboot" => job # "config"

\* The inductive invariant of the updates.
IInv == CallOK /\ ProcOK /\ ResultOK

\* The inductive invariant of the certificates: they are missing only while somebody reloads
\* them or after a load that failed.
CertIInv == CertTypeOK /\ (certMutex = NoUser /\ lastLoad = "ok" => certCount # 0)

USE UpdatesAssumption, CertificatesAssumption, DiscoveryAssumption

\* What Windows is asked never makes a success of a wait that failed.
LEMMA WaitFails == Result(WaitError) = "failure"
  BY DEF Result, PmInstallResult, Reboot, WaitError

LEMMA ResultOfCode ==
  ASSUME NEW code, Result(code) \in {"success", "reboot"}
  PROVE  PmInstallResult(code) = Result(code) /\ (Result(code) = "reboot" => job # "config")
  BY DEF Result, PmInstallResult, Reboot

LEMMA InitInv == Init => IInv
  BY DEF Init, IInv, CallOK, ProcOK, ResultOK, Free

\* A call that ends leaves its process behind for a success only.
LEMMA ReturnFails ==
  ASSUME ProcOK, UNCHANGED proc, Return("failure")
  PROVE  IInv'
  BY DEF IInv, CallOK, ProcOK, ResultOK, Return

LEMMA StartCallInv ==
  ASSUME IInv, NEW j, NEW goesOn, StartCall(j, goesOn)
  PROVE  IInv'
  <1>1. proc' = NoHandle
    BY DEF StartCall
  <1>2. CallOK'
    BY DEF StartCall, CallOK
  <1>3. ProcOK'
    BY <1>1, Zenon DEF NoHandle, ProcOK, IInv, Free
  <1>4. ResultOK'
    BY DEF StartCall, ResultOK
  <1> QED
    BY <1>2, <1>3, <1>4 DEF IInv

LEMMA AgentInv ==
  ASSUME IInv, Agent
  PROVE  IInv'
  <1>1. CASE UpdateMsi
    <2>1. CASE Return("failure")
      BY <1>1, <2>1, ReturnFails DEF UpdateMsi, world, IInv
    <2>2. CASE ~Return("failure")
      BY <1>1, <2>2 DEF UpdateMsi, world, call, IInv, CallOK, ProcOK, ResultOK
    <2> QED
      BY <2>1, <2>2
  <1>2. CASE Sleep
    BY <1>2 DEF Sleep, world, call, IInv, CallOK, ProcOK, ResultOK
  <1>3. CASE RunPackage
    <2>1. CASE Return("failure") /\ UNCHANGED proc
      BY <2>1, ReturnFails DEF IInv
    <2>2. ASSUME NEW i \in Proc, proc' = [proc EXCEPT ![i] = Running(job)],
                 mine' = i, at' = "wait", job' = job
          PROVE  IInv'
      <3>1. ProcOK'
        BY <2>2, Zenon DEF ProcOK, IInv
      <3>2. proc'[i] = Running(job)
        BY <2>2, Zenon DEF ProcOK, IInv
      <3> QED
        BY <2>2, <3>1, <3>2 DEF IInv, CallOK, ResultOK, Running
    <2> QED
      BY <1>3, <2>1, <2>2 DEF RunPackage
  <1>4. CASE InstallerHasEnded
    <2>1. CASE Return("failure")
      BY <1>4, <2>1, ReturnFails DEF InstallerHasEnded, world, IInv
    <2>2. CASE Return(Result(proc[mine].code)) /\ Result(proc[mine].code) # "failure"
      <3>1. /\ at = "wait" /\ mine \in Proc /\ proc[mine].state = "ended"
            /\ mine' = mine /\ proc' = proc /\ at' = "idle"
            /\ result' = Result(proc[mine].code) /\ job' = job /\ proc[mine].job = job
        BY <1>4, <2>2 DEF InstallerHasEnded, world, IInv, CallOK, Return
      <3>2. result' \in {"success", "reboot"} =>
              PmInstallResult(proc[mine].code) = result' /\ (result' = "reboot" => job # "config")
        BY <3>1, ResultOfCode
      <3> QED
        BY <3>1, <3>2 DEF IInv, CallOK, ProcOK, ResultOK, PmInstallResult
    <2> QED
      BY <1>4, <2>1, <2>2 DEF InstallerHasEnded
  <1>5. CASE WaitEnds
    BY <1>5, WaitFails, ReturnFails DEF WaitEnds, world, IInv
  <1> QED
    BY <1>1, <1>2, <1>3, <1>4, <1>5 DEF Agent

\* Windows changes a process that runs, and nothing of the agent.
LEMMA EndInv ==
  ASSUME IInv, NEW i \in Proc, proc[i].state = "running", NEW code, End(i, code),
         UNCHANGED <<at, call>>
  PROVE  IInv'
  <1>1. ProcOK'
    BY Zenon DEF End, ProcOK, IInv, Ended, Free
  <1>2. at = "idle" /\ result \in {"success", "reboot"} => mine # i /\ proc'[mine] = proc[mine]
    BY DEF End, IInv, ResultOK, ProcOK
  <1>3. at = "wait" => proc'[mine].state # "free" /\ proc'[mine].job = job
    BY DEF End, IInv, CallOK, ProcOK, Ended
  <1> QED
    BY <1>1, <1>2, <1>3 DEF IInv, CallOK, ResultOK, call, PmInstallResult

LEMMA WindowsInv ==
  ASSUME IInv, Windows
  PROVE  IInv'
  <1>1. ASSUME UNCHANGED <<proc, at, call>> PROVE IInv'
    BY <1>1 DEF IInv, CallOK, ProcOK, ResultOK, call, PmInstallResult
  <1>2. ASSUME NEW i \in Proc, BeginsMsi(i) PROVE IInv'
    BY <1>1, <1>2, EndInv DEF BeginsMsi, IsMsi
  <1>3. ASSUME NEW i \in Proc, InstallerEnds(i) PROVE IInv'
    BY <1>3, EndInv DEF InstallerEnds
  <1>4. CASE OtherInstalls
    BY <1>1, <1>4 DEF OtherInstalls
  <1> QED
    BY <1>2, <1>3, <1>4 DEF Windows

LEMMA NextInv ==
  ASSUME IInv, [Next]_vars
  PROVE  IInv'
  <1>1. CASE UpdateComponent
    BY <1>1, StartCallInv DEF UpdateComponent
  <1>2. CASE DeployConfiguration
    BY <1>2, StartCallInv DEF DeployConfiguration
  <1>3. CASE UNCHANGED vars
    BY <1>3 DEF vars, world, call, IInv, CallOK, ProcOK, ResultOK, PmInstallResult
  <1> QED
    BY <1>1, <1>2, <1>3, AgentInv, WindowsInv DEF Next

\* The invariant holds in every state of the composition.
THEOREM UpdatesInvariance == PlatformSpec => []IInv
  <1>1. PlatformInit => IInv
    BY InitInv DEF PlatformInit
  <1>2. IInv /\ [PlatformNext]_<<vars, certVars>> => IInv'
    BY NextInv DEF PlatformNext
  <1> QED
    BY <1>1, <1>2, PTL DEF PlatformSpec

\* SuccessIsReal for any number of processes and polls: UpdateComponent() and
\* DeployConfiguration() report no success but that of the process they have themselves started
\* and waited for, never that of an older one they gave up.
THEOREM SuccessesAreReal == PlatformSpec => []SuccessIsReal
  <1>1. IInv => SuccessIsReal
    BY DEF IInv, ProcOK, ResultOK, SuccessIsReal
  <1> QED
    BY <1>1, UpdatesInvariance, PTL

\* A call in progress works on something.
JobOK == at # "idle" => job \in Job

LEMMA ProcState ==
  ASSUME TypeOK, NEW i \in Proc
  PROVE  /\ proc[i].state \in {"free", "running", "ended"}
         /\ proc[i].state # "free" => proc[i].job \in Job
  BY DEF TypeOK, Free, Running, Ended

LEMMA ResultIsOne ==
  ASSUME NEW code
  PROVE  Result(code) \in {"success", "reboot", "failure"}
  BY DEF Result, PmInstallResult

LEMMA StartCallType ==
  ASSUME TypeOK, NEW j \in Job, NEW goesOn, StartCall(j, goesOn)
  PROVE  TypeOK'
  <1>1. /\ msi' = msi /\ mine' = None /\ polls' = 0 /\ job' = j
        /\ at' \in {"idle", "poll", "launch"} /\ result' \in {"none", "failure"} /\ proc' = NoHandle
    BY DEF StartCall
  <1>2. NoHandle \in [Proc -> {Free} \union {Running(k) : k \in Job}
                       \union {Ended(k, c) : k \in Job, c \in ExitCode \union {Busy}}]
    BY DEF TypeOK, NoHandle
  <1> QED
    BY <1>1, <1>2 DEF TypeOK

LEMMA EndType ==
  ASSUME TypeOK, NEW i \in Proc, proc[i].state = "running", NEW code \in ExitCode \union {Busy}, End(i, code)
  PROVE  proc' \in [Proc -> {Free} \union {Running(k) : k \in Job}
                       \union {Ended(k, c) : k \in Job, c \in ExitCode \union {Busy}}]
  <1>1. proc[i].job \in Job
    BY ProcState
  <1> QED
    BY <1>1 DEF TypeOK, End

LEMMA ReturnType ==
  ASSUME TypeOK, NEW res \in {"success", "reboot", "failure"}, Return(res), UNCHANGED world
  PROVE  TypeOK'
  BY DEF TypeOK, Return, world

LEMMA UpdatesType ==
  ASSUME TypeOK, JobOK, Next
  PROVE  TypeOK'
  <1>1. CASE UpdateComponent \/ DeployConfiguration
    BY <1>1, StartCallType DEF UpdateComponent, DeployConfiguration, Job
  <1>2. CASE UpdateMsi
    <2>1. CASE Return("failure")
      BY <1>2, <2>1, ReturnType DEF UpdateMsi
    <2>2. CASE polls < Polls /\ at' = "sleep" /\ polls' = NextPoll(polls) /\ UNCHANGED <<world, job, mine, result>>
      BY <2>2 DEF TypeOK, NextPoll, world
    <2>3. CASE at' = "launch" /\ UNCHANGED <<world, call>>
      BY <2>3 DEF TypeOK, world, call
    <2> QED
      BY <1>2, <2>1, <2>2, <2>3 DEF UpdateMsi
  <1>3. CASE Sleep
    BY <1>3 DEF Sleep, TypeOK, world, call
  <1>4. CASE RunPackage
    <2>1. CASE Return("failure") /\ UNCHANGED proc
      BY <1>4, <2>1, ReturnType DEF RunPackage, world
    <2>2. ASSUME NEW i \in Proc, proc' = [proc EXCEPT ![i] = Running(job)], mine' = i, at' = "wait",
                 UNCHANGED <<msi, job, polls, result>>
          PROVE  TypeOK'
      <3>1. job \in Job
        BY <1>4 DEF JobOK, RunPackage
      <3> QED
        BY <2>2, <3>1 DEF TypeOK
    <2> QED
      BY <1>4, <2>1, <2>2 DEF RunPackage
  <1>5. CASE InstallerHasEnded \/ WaitEnds
    BY <1>5, ResultIsOne, ReturnType DEF InstallerHasEnded, WaitEnds
  <1>6. ASSUME NEW i \in Proc, BeginsMsi(i)
        PROVE  TypeOK'
    BY <1>6, EndType DEF BeginsMsi, IsMsi, TypeOK, call
  <1>7. ASSUME NEW i \in Proc, InstallerEnds(i)
        PROVE  TypeOK'
    BY <1>7, EndType DEF InstallerEnds, TypeOK, call
  <1>8. CASE OtherInstalls
    BY <1>8 DEF OtherInstalls, TypeOK, call
  <1> QED
    BY <1>1, <1>2, <1>3, <1>4, <1>5, <1>6, <1>7, <1>8 DEF Next, Agent, Windows

LEMMA JobStays ==
  ASSUME JobOK, Next
  PROVE  JobOK'
  <1>2. CASE UpdateComponent \/ DeployConfiguration
    BY <1>2 DEF UpdateComponent, DeployConfiguration, StartCall, Job, JobOK
  <1>3. CASE Agent
    BY <1>3 DEF Agent, UpdateMsi, Sleep, RunPackage, InstallerHasEnded, WaitEnds, Return, JobOK, call
  <1>4. CASE Windows
    BY <1>4 DEF Windows, BeginsMsi, InstallerEnds, OtherInstalls, JobOK, call
  <1> QED
    BY <1>2, <1>3, <1>4 DEF Next

LEMMA CertNextInv ==
  ASSUME CertIInv, [CertNext]_certVars
  PROVE  CertIInv'
  <1> USE DEF CertIInv, CertTypeOK, NoCopy
  <1>1. ASSUME NEW t \in User, GetSslCertificates(t) PROVE CertIInv'
    BY <1>1 DEF GetSslCertificates
  <1>2. ASSUME NEW t \in User, ReleaseSslCertificates(t) PROVE CertIInv'
    BY <1>2 DEF ReleaseSslCertificates
  <1>3. ASSUME NEW t \in User, BeginReload(t) PROVE CertIInv'
    BY <1>3 DEF BeginReload, UnloadSystemCerts
  <1>4. ASSUME NEW t \in User, EndReload(t) PROVE CertIInv'
    <2>1. certCount' \in 0..Stored /\ (lastLoad' = "ok" => certCount' > 0)
          /\ lastLoad' \in {"ok", "failed"}
      BY <1>4 DEF EndReload, LoadSystemCerts
    <2> QED
      BY <1>4, <2>1 DEF EndReload
  <1>5. CASE UNCHANGED certVars
    BY <1>5 DEF certVars
  <1> QED
    BY <1>1, <1>2, <1>3, <1>4, <1>5 DEF CertNext

\* NoEmptyCopy for any number of threads and certificates: m_certMutex hides the moment of a
\* reload at which there are none.
THEOREM CopiesAreFull == PlatformSpec => NoEmptyCopy
  <1>1. PlatformInit => CertIInv
    BY DEF PlatformInit, CertInit, CertIInv, CertTypeOK, NoCopy
  <1>2. CertIInv /\ [PlatformNext]_<<vars, certVars>> => CertIInv'
    BY CertNextInv DEF PlatformNext
  <1>3. CertIInv /\ [PlatformNext]_<<vars, certVars>>
        => [\A t \in User : (copy[t] = NoCopy /\ copy'[t] = 0) => lastLoad = "failed"]_certVars
    <2> SUFFICES ASSUME CertIInv, CertNext
                 PROVE  \A t \in User : (copy[t] = NoCopy /\ copy'[t] = 0) => lastLoad = "failed"
      BY DEF PlatformNext
    <2>1. \A t \in User : copy[t] = NoCopy /\ copy'[t] = 0 => GetSslCertificates(t)
      BY DEF CertNext, GetSslCertificates, ReleaseSslCertificates, BeginReload, EndReload,
             CertIInv, CertTypeOK, NoCopy
    <2> QED
      BY <2>1 DEF GetSslCertificates, Unlocked, CertIInv, CertTypeOK
  <1> QED
    BY <1>1, <1>2, <1>3, PTL DEF PlatformSpec, NoEmptyCopy

\* The variables of updates and certificates have their types.
THEOREM PlatformTypes == PlatformSpec => [](TypeOK /\ CertTypeOK)
  <1>1. PlatformInit => TypeOK /\ JobOK /\ CertIInv
    BY DEF PlatformInit, Init, TypeOK, JobOK, CertInit, CertIInv, CertTypeOK, NoCopy
  <1>2. TypeOK /\ JobOK /\ CertIInv /\ [PlatformNext]_<<vars, certVars>> => (TypeOK /\ JobOK /\ CertIInv)'
    <2> SUFFICES ASSUME TypeOK, JobOK, CertIInv, [PlatformNext]_<<vars, certVars>>
                 PROVE  (TypeOK /\ JobOK /\ CertIInv)'
      OBVIOUS
    <2>1. CertIInv'
      BY CertNextInv DEF PlatformNext
    <2>2. CASE Next
      BY <2>1, <2>2, UpdatesType, JobStays
    <2>3. CASE UNCHANGED vars
      BY <2>1, <2>3 DEF TypeOK, JobOK, vars, world, call
    <2> QED
      BY <2>2, <2>3 DEF PlatformNext
  <1> QED
    BY <1>1, <1>2, PTL DEF PlatformSpec, CertIInv

\* How far a call is from its return.
CallLeft ==
  CASE at = "idle" -> 0 [] at = "wait" -> 1 [] at = "launch" -> 2
    [] at = "poll" -> 3 + 2 * (Polls - polls) [] at = "sleep" -> 4 + 2 * (Polls - polls)

\* A call comes closer to its return with every step of its thread, and nothing that installers or
\* Windows Installer do puts it off.
CallRunsOut ==
  [][ at # "idle" /\ <<at, polls>>' # <<at, polls>> =>
        CallLeft \in Nat /\ CallLeft' \in Nat /\ CallLeft' < CallLeft ]_<<vars, certVars>>

\* The safety of CallsReturn: UpdateComponent() and DeployConfiguration() are at most 2 * Polls + 3
\* steps away from their return, although UpdateMsi() waits in a loop.
THEOREM CallComesCloser == PlatformSpec => CallRunsOut
  <1> DEFINE A == at # "idle" /\ <<at, polls>>' # <<at, polls>> =>
                    CallLeft \in Nat /\ CallLeft' \in Nat /\ CallLeft' < CallLeft
  <1>1. ASSUME TypeOK, TypeOK', [PlatformNext]_<<vars, certVars>>
        PROVE  A
    <2> SUFFICES ASSUME at # "idle", <<at, polls>>' # <<at, polls>>
                 PROVE  CallLeft \in Nat /\ CallLeft' \in Nat /\ CallLeft' < CallLeft
      OBVIOUS
    <2>1. polls \in 0..Polls /\ polls' \in 0..Polls
      BY <1>1 DEF TypeOK
    <2>2. Agent
      BY <1>1 DEF PlatformNext, Next, UpdateComponent, DeployConfiguration, StartCall, Windows, BeginsMsi,
                  InstallerEnds, OtherInstalls, CertNext, vars, call
    <2>3. CASE UpdateMsi
      <3>1. at = "poll" /\ CallLeft = 3 + 2 * (Polls - polls) /\ CallLeft >= 3
        BY <2>1, <2>3 DEF UpdateMsi, CallLeft
      <3>2. CASE at' = "sleep" /\ polls' = polls + 1
        <4>1. CallLeft' = 4 + 2 * (Polls - (polls + 1))
          BY <3>2 DEF CallLeft
        <4> QED
          BY <2>1, <3>1, <3>2, <4>1
      <3>3. CASE at' \in {"launch", "idle"}
        BY <2>1, <3>1, <3>3 DEF CallLeft
      <3> QED
        BY <2>3, <3>2, <3>3 DEF UpdateMsi, NextPoll, Return
    <2>4. CASE Sleep
      <3>1. CallLeft = 4 + 2 * (Polls - polls) /\ CallLeft' = 3 + 2 * (Polls - polls)
        BY <2>4 DEF Sleep, CallLeft, call
      <3> QED
        BY <2>1, <3>1
    <2>5. CASE RunPackage
      BY <2>1, <2>5 DEF RunPackage, Return, CallLeft
    <2>6. CASE InstallerHasEnded \/ WaitEnds
      BY <2>1, <2>6 DEF InstallerHasEnded, WaitEnds, Return, CallLeft
    <2> QED
      BY <2>2, <2>3, <2>4, <2>5, <2>6 DEF Agent
  <1> QED
    BY <1>1, PlatformTypes, PTL DEF PlatformSpec, CallRunsOut

(***************************************************************************)
(* The inventory, for any number of components, places, versions, changes  *)
(* and failed queries.                                                     *)
(***************************************************************************)

\* The phases in which a rule is applied.
Search == {"msi", "install_key", "version_key", "detected"}

\* What a query reads of a place when nothing fails.
Right(p) == [place |-> p, named |-> TRUE, advertised |-> p \in advertised, ver |-> products[p]]

\* The same before its version is known.
Named(p) == [place |-> p, named |-> TRUE, advertised |-> p \in advertised, ver |-> Nothing]

PlacesIn(seq) == {seq[i].place : i \in DOMAIN seq}

\* Each of some places once, with what it has.
ListsExactly(seq, places) ==
  /\ PlacesIn(seq) = places
  /\ \A i \in DOMAIN seq : seq[i] = Right(seq[i].place)
  /\ \A i, k \in DOMAIN seq : seq[i].place = seq[k].place => i = k

\* The entries of the vector of which all is known.
Finished == {i \in DOMAIN list : phase = "enum" \/ i # Len(list)}

\* Where the call is, and that nothing is left over of a step before.
PhaseOK ==
  /\ phase \in {"idle", "rules"} => comp = Nothing
  /\ phase \in Search => comp \in todo
  /\ phase \in Query =>
       (comp = Nothing /\ todo = Component /\ packages = <<>>) \/ comp \in todo \intersect ByUpgradeCode
  /\ phase \in {"install_key", "version_key"} => comp \in ByRegistry
  /\ phase \in {"state", "version"} => list # <<>>
  /\ phase \notin Query => list = <<>> /\ left = {}
  /\ phase # "detected" => found = {}
  /\ phase = "idle" => disturbed = 0 /\ packages = <<>> /\ cache = <<>> /\ todo = {}

\* What was read was there when it was read, or is missing because of a change or a failure.
Real(c, v)      == <<c, v>> \in seen \/ (v = Nothing /\ disturbed > 0)
RealAfter(c, v) == <<c, v>> \in seen' \/ (v = Nothing /\ disturbed' > 0)

SeenOK ==
  /\ phase # "idle" => Here \subseteq seen
  /\ comp # Nothing => \A p \in left \union PlacesIn(list) : CompOf[p] = comp
  /\ \A i \in Finished : Real(CompOf[list[i].place], list[i].ver)
  /\ \A i \in DOMAIN cache : Real(CompOf[cache[i].place], cache[i].ver)
  /\ \A p \in found : p[2].comp = comp /\ Real(p[2].comp, p[2].ver)
  /\ \A i \in DOMAIN packages : Real(packages[i].comp, packages[i].ver)

\* The vector and the places left are what was asked for, each place once.
ListOK ==
  disturbed = 0 /\ phase \in Query =>
    /\ left \union PlacesIn(list) = Source(comp) /\ left \intersect PlacesIn(list) = {}
    /\ \A i, k \in DOMAIN list : list[i].place = list[k].place => i = k
    /\ \A i \in Finished : list[i] = Right(list[i].place)
    /\ phase = "state" => list[Len(list)].ver = Nothing
    /\ phase = "version" => list[Len(list)] = Named(Current)

\* The cache is whole once it has been filled.
CacheOK ==
  disturbed = 0 /\ phase # "idle" /\ ~(phase \in Query /\ comp = Nothing) =>
    ListsExactly(cache, Source(Nothing))

Added(c) == {packages[i] : i \in {k \in DOMAIN packages : packages[k].comp = c}}
Detections == {p[2] : p \in found}

\* What is in the inventory is exact for the rules that are done, and the current rule has found
\* what it should.
ExactOK ==
  disturbed = 0 /\ phase # "idle" =>
    /\ phase = "msi" /\ comp \in ByUpgradeCode => Shown(comp) = {}
    /\ phase \in {"install_key", "version_key"} /\ comp \in ByUpgradeCode \union ByMsi => Shown(comp) = {}
    /\ phase = "detected" =>
         /\ Detections \union Added(comp) = Expected(comp) /\ Detections \intersect Added(comp) = {}
         /\ \A p, q \in found : p[2] = q[2] => p = q
    /\ \A c \in todo : c # comp \/ phase # "detected" => Added(c) = {}
    /\ \A c \in Component \ todo : Added(c) = Expected(c)
    /\ \A i, k \in DOMAIN packages : packages[i] = packages[k] => i = k

\* The inductive invariant of the discovery.
DiscoveryIInv == DiscoveryTypeOK /\ PhaseOK /\ SeenOK /\ ListOK /\ CacheOK /\ ExactOK

LEMMA DiscoveryInitInv == DiscoveryInit => DiscoveryIInv
  <1> SUFFICES ASSUME DiscoveryInit PROVE DiscoveryIInv
    OBVIOUS
  <1>1. DiscoveryTypeOK
    BY DEF DiscoveryInit, DiscoveryTypeOK, Phases
  <1>2. PhaseOK /\ SeenOK /\ ListOK /\ CacheOK /\ ExactOK
    BY DEF DiscoveryInit, PhaseOK, SeenOK, ListOK, CacheOK, ExactOK, Query, Search, PlacesIn, Finished
  <1> QED
    BY <1>1, <1>2 DEF DiscoveryIInv

\* What is expected, and what the inventory has of a component, depend on these only.
LEMMA SameInstalled ==
  ASSUME UNCHANGED installed
  PROVE  /\ \A p : Right(p)' = Right(p) /\ Named(p)' = Named(p)
         /\ \A c : Source(c)' = Source(c) /\ Shown(c)' = Shown(c) /\ Expected(c)' = Expected(c)
         /\ Here' = Here
  <1>1. products' = products /\ advertised' = advertised /\ registry' = registry
    BY DEF installed
  <1>2. \A p : Right(p)' = Right(p) /\ Named(p)' = Named(p)
    BY <1>1 DEF Right, Named
  <1>3. \A c : Source(c)' = Source(c) /\ Shown(c)' = Shown(c)
    BY <1>1 DEF Source, Listed, Shown, Present
  <1>4. \A c : Expected(c)' = Expected(c)
    BY <1>1, <1>3 DEF Expected
  <1>5. Here' = Here
    BY <1>1 DEF Here
  <1> QED
    BY <1>2, <1>3, <1>4, <1>5

LEMMA SamePackages ==
  ASSUME UNCHANGED packages
  PROVE  \A c : Added(c)' = Added(c)
  BY DEF Added

\* What was read stays real as more is seen and more is disturbed.
LEMMA RealStays ==
  ASSUME seen \subseteq seen', disturbed \in Nat, disturbed' \in Nat, disturbed <= disturbed',
         NEW c, NEW v, Real(c, v)
  PROVE  RealAfter(c, v)
  BY DEF Real, RealAfter

\* A whole cache stays whole when nothing is installed.
LEMMA CacheStays ==
  ASSUME DiscoveryIInv, UNCHANGED <<installed, cache>>, disturbed' = 0 => disturbed = 0,
         ~(phase \in Query /\ comp = Nothing), phase # "idle"
  PROVE  CacheOK'
  <1> SUFFICES ASSUME disturbed' = 0
               PROVE  ListsExactly(cache, Source(Nothing))'
    BY DEF CacheOK
  <1>1. ListsExactly(cache, Source(Nothing))
    BY DEF DiscoveryIInv, CacheOK
  <1>2. cache' = cache /\ Source(Nothing)' = Source(Nothing) /\ \A p : Right(p)' = Right(p)
    BY SameInstalled
  <1> QED
    BY <1>1, <1>2 DEF ListsExactly, PlacesIn

\* A discovery begins.
LEMMA BeginInv ==
  ASSUME DiscoveryIInv, DiscoverInstalledPackages
  PROVE  DiscoveryIInv'
  <1>1. /\ phase = "idle" /\ phase' = "enum" /\ left' = Source(Nothing) /\ todo' = Component /\ seen' = Here
        /\ UNCHANGED <<installed, cache, list, comp, found, packages, configs, counted, disturbed>>
    BY DEF DiscoverInstalledPackages, Go
  <1>2. /\ comp = Nothing /\ list = <<>> /\ found = {} /\ packages = <<>> /\ cache = <<>>
    BY <1>1 DEF DiscoveryIInv, PhaseOK, Query
  <1>3. DiscoveryTypeOK'
    BY <1>1 DEF DiscoveryIInv, DiscoveryTypeOK, Phases, Here, Source, Listed, Present, installed
  <1>4. PhaseOK'
    BY <1>1, <1>2 DEF PhaseOK, Query, Search
  <1>5. SeenOK'
    BY <1>1, <1>2, SameInstalled DEF SeenOK, Finished
  <1>6. ListOK'
    <2>1. PlacesIn(list)' = {} /\ DOMAIN list' = {}
      BY <1>1, <1>2 DEF PlacesIn
    <2>2. Source(comp)' = Source(Nothing)
      BY <1>1, <1>2, SameInstalled
    <2> QED
      BY <1>1, <2>1, <2>2 DEF ListOK, Finished
  <1>7. CacheOK'
    BY <1>1, <1>2 DEF CacheOK, Query
  <1>8. ExactOK'
    BY <1>1, <1>2 DEF ExactOK, Added
  <1> QED
    BY <1>3, <1>4, <1>5, <1>6, <1>7, <1>8 DEF DiscoveryIInv

\* A step of a query leaves the catalog, the cache and the inventory as they are.
LEMMA QueryStep ==
  ASSUME DiscoveryIInv, phase \in Query, phase' \in Query,
         UNCHANGED <<installed, cache, catalog, found, packages, configs, counted, seen>>,
         disturbed' \in 0..Disturbances, disturbed <= disturbed',
         list' \in Seq(Entry), left' \subseteq Place, phase' # "enum" => list' # <<>>,
         comp # Nothing => \A p \in left' \union PlacesIn(list') : CompOf[p] = comp,
         \A i \in Finished' : RealAfter(CompOf[list'[i].place], list'[i].ver),
         ListOK'
  PROVE  DiscoveryIInv'
  <1>1. /\ todo' = todo /\ comp' = comp /\ cache' = cache /\ found' = found /\ packages' = packages
        /\ configs' = configs /\ counted' = counted /\ seen' = seen
        /\ products' = products /\ advertised' = advertised /\ registry' = registry
    BY DEF catalog, installed
  <1>2. DiscoveryTypeOK'
    BY <1>1 DEF DiscoveryIInv, DiscoveryTypeOK, Query, Phases
  <1>3. disturbed \in Nat /\ disturbed' \in Nat /\ (disturbed' = 0 => disturbed = 0)
    BY DEF DiscoveryIInv, DiscoveryTypeOK
  <1>4. PhaseOK'
    BY <1>1 DEF DiscoveryIInv, PhaseOK, Query, Search
  <1>5. SeenOK'
    <2>1. \A c, v : Real(c, v) => RealAfter(c, v)
      BY <1>1, <1>3, RealStays
    <2>2. Here' \subseteq seen'
      BY <1>1, SameInstalled DEF DiscoveryIInv, SeenOK, Query
    <2>3. PlacesIn(list)' = PlacesIn(list')
      BY DEF PlacesIn
    <2>4. /\ \A i \in DOMAIN cache : Real(CompOf[cache[i].place], cache[i].ver)
          /\ \A p \in found : p[2].comp = comp /\ Real(p[2].comp, p[2].ver)
          /\ \A i \in DOMAIN packages : Real(packages[i].comp, packages[i].ver)
      BY DEF DiscoveryIInv, SeenOK
    <2>5. /\ \A i \in DOMAIN cache : RealAfter(CompOf[cache[i].place], cache[i].ver)
          /\ \A p \in found : p[2].comp = comp /\ RealAfter(p[2].comp, p[2].ver)
          /\ \A i \in DOMAIN packages : RealAfter(packages[i].comp, packages[i].ver)
      BY <2>1, <2>4
    <2>6. /\ (\A i \in Finished : Real(CompOf[list[i].place], list[i].ver))'
          /\ (\A i \in DOMAIN cache : Real(CompOf[cache[i].place], cache[i].ver))'
          /\ (\A p \in found : p[2].comp = comp /\ Real(p[2].comp, p[2].ver))'
          /\ (\A i \in DOMAIN packages : Real(packages[i].comp, packages[i].ver))'
      BY <1>1, <2>5 DEF Real, RealAfter
    <2>7. (comp # Nothing => \A p \in left \union PlacesIn(list) : CompOf[p] = comp)'
      BY <1>1, <2>3
    <2> QED
      BY <2>2, <2>6, <2>7 DEF SeenOK
  <1>6. CacheOK'
    <2>1. CASE comp = Nothing
      BY <1>1, <2>1 DEF CacheOK
    <2>2. CASE comp # Nothing
      BY <1>3, <2>2, CacheStays DEF Query
    <2> QED
      BY <2>1, <2>2
  <1>7. ExactOK'
    BY <1>1, <1>3, SameInstalled, SamePackages DEF DiscoveryIInv, ExactOK, Query
  <1> QED
    BY <1>2, <1>4, <1>5, <1>6, <1>7 DEF DiscoveryIInv

LEMMA Appended ==
  ASSUME NEW S, NEW s \in Seq(S), NEW e \in S
  PROVE  /\ Append(s, e) \in Seq(S) /\ Len(Append(s, e)) = Len(s) + 1
         /\ DOMAIN Append(s, e) = DOMAIN s \union {Len(s) + 1} /\ Len(s) + 1 \notin DOMAIN s
         /\ Append(s, e)[Len(s) + 1] = e /\ \A i \in DOMAIN s : Append(s, e)[i] = s[i]
  OBVIOUS

LEMMA NextProductInv ==
  ASSUME DiscoveryIInv, NextProduct
  PROVE  DiscoveryIInv'
  <1>1. PICK p \in left : left' = left \ {p} /\ list' = Append(list, Unknown(p))
    BY DEF NextProduct, NextIndex
  <1>2. /\ DiscoveryTypeOK /\ phase = "enum" /\ phase' = "state" /\ p \in Place /\ list \in Seq(Entry)
        /\ UNCHANGED <<installed, cache, catalog, found, packages, configs, counted, disturbed, seen>>
    BY DEF NextProduct, DiscoveryIInv, DiscoveryTypeOK, Go, history
  <1> DEFINE n == Len(list) + 1
  <1>3. Unknown(p) \in Entry /\ Unknown(p).place = p /\ Unknown(p).ver = Nothing
    BY <1>2 DEF Entry, Unknown
  <1>4. /\ list' \in Seq(Entry) /\ Len(list') = n /\ n \in Nat
        /\ DOMAIN list' = DOMAIN list \union {n} /\ n \notin DOMAIN list
        /\ list'[n] = Unknown(p) /\ \A i \in DOMAIN list : list'[i] = list[i]
    BY <1>1, <1>2, <1>3, Appended
  <1> HIDE DEF n
  <1>5. Finished' = DOMAIN list /\ Finished = DOMAIN list
    BY <1>2, <1>4 DEF Finished
  <1>6. PlacesIn(list') = PlacesIn(list) \union {p}
    BY <1>3, <1>4 DEF PlacesIn
  <1>7. comp # Nothing => \A q \in left' \union PlacesIn(list') : CompOf[q] = comp
    BY <1>1, <1>6 DEF DiscoveryIInv, SeenOK
  <1>8. \A i \in Finished' : RealAfter(CompOf[list'[i].place], list'[i].ver)
    <2>1. \A i \in DOMAIN list : Real(CompOf[list[i].place], list[i].ver)
      BY <1>5 DEF DiscoveryIInv, SeenOK
    <2> QED
      BY <1>2, <1>4, <1>5, <2>1 DEF Real, RealAfter
  <1>9. ListOK'
    <2> SUFFICES ASSUME disturbed = 0
                 PROVE  /\ left' \union PlacesIn(list') = Source(comp) /\ left' \intersect PlacesIn(list') = {}
                        /\ \A i, k \in DOMAIN list' : list'[i].place = list'[k].place => i = k
                        /\ \A i \in DOMAIN list : list'[i] = Right(list'[i].place)
                        /\ list'[n].ver = Nothing
      BY <1>2, <1>4, <1>5, SameInstalled DEF ListOK, PlacesIn, catalog
    <2>1. /\ left \union PlacesIn(list) = Source(comp) /\ left \intersect PlacesIn(list) = {}
          /\ \A i, k \in DOMAIN list : list[i].place = list[k].place => i = k
          /\ \A i \in DOMAIN list : list[i] = Right(list[i].place)
      BY <1>2, <1>5 DEF DiscoveryIInv, ListOK, Query
    <2>2. \A i \in DOMAIN list : list[i].place \in PlacesIn(list) /\ list[i].place # p
      BY <2>1 DEF PlacesIn
    <2>3. \A i, k \in DOMAIN list' : list'[i].place = list'[k].place => i = k
      BY <1>3, <1>4, <2>1, <2>2
    <2> QED
      BY <1>1, <1>3, <1>4, <1>6, <2>1, <2>3
  <1>10. list' # <<>> /\ left' \subseteq Place
    BY <1>1, <1>2, <1>4 DEF DiscoveryTypeOK
  <1>11. disturbed' \in 0..Disturbances /\ disturbed <= disturbed' /\ phase \in Query /\ phase' \in Query
    BY <1>2 DEF DiscoveryTypeOK, Query
  <1> QED
    BY <1>2, <1>4, <1>7, <1>8, <1>9, <1>10, <1>11, QueryStep

LEMMA ProductSkippedInv ==
  ASSUME DiscoveryIInv, ProductSkipped
  PROVE  DiscoveryIInv'
  <1>1. /\ DiscoveryTypeOK /\ phase = "enum" /\ phase' = "enum" /\ left' \subseteq left /\ list' = list
        /\ disturbed' = disturbed + 1 /\ disturbed' \in 0..Disturbances
        /\ UNCHANGED <<installed, cache, catalog, found, packages, configs, counted, seen>>
    BY DEF ProductSkipped, Disturb, DiscoveryIInv, DiscoveryTypeOK
  <1>2. disturbed \in Nat
    BY <1>1 DEF DiscoveryTypeOK
  <1>3. \A c, v : Real(c, v) => RealAfter(c, v)
    BY <1>1, <1>2, RealStays
  <1>4. \A i \in Finished' : RealAfter(CompOf[list'[i].place], list'[i].ver)
    <2>1. \A i \in Finished : Real(CompOf[list[i].place], list[i].ver)
      BY DEF DiscoveryIInv, SeenOK
    <2>2. Finished' = Finished
      BY <1>1 DEF Finished
    <2> QED
      BY <1>1, <1>3, <2>1, <2>2
  <1>5. ListOK'
    BY <1>1, <1>2 DEF ListOK
  <1>6. comp # Nothing => \A q \in left' \union PlacesIn(list') : CompOf[q] = comp
    BY <1>1 DEF DiscoveryIInv, SeenOK
  <1> QED
    BY <1>1, <1>2, <1>4, <1>5, <1>6, QueryStep DEF Query, DiscoveryTypeOK

LEMMA ReplacedAt ==
  ASSUME NEW S, NEW s \in Seq(S), NEW n \in DOMAIN s, NEW e \in S
  PROVE  /\ [s EXCEPT ![n] = e] \in Seq(S) /\ Len([s EXCEPT ![n] = e]) = Len(s)
         /\ DOMAIN [s EXCEPT ![n] = e] = DOMAIN s /\ [s EXCEPT ![n] = e][n] = e
         /\ \A i \in DOMAIN s : i # n => [s EXCEPT ![n] = e][i] = s[i]
  OBVIOUS

\* A step of a query that reads properties of the last product.
LEMMA PropertiesRead ==
  ASSUME DiscoveryIInv, phase \in {"state", "version"}, phase' \in {"version", "enum"}, phase # phase',
         NEW e \in Entry, e.place = Current, list' = [list EXCEPT ![Len(list)] = e],
         UNCHANGED <<installed, cache, left, catalog, found, packages, configs, counted, seen>>,
         disturbed' \in 0..Disturbances, disturbed <= disturbed',
         phase' = "enum" => RealAfter(CompOf[e.place], e.ver),
         disturbed' = 0 => e = (IF phase' = "enum" THEN Right(Current) ELSE Named(Current))
  PROVE  DiscoveryIInv'
  <1> DEFINE n == Len(list)
  <1>1. /\ DiscoveryTypeOK /\ list \in Seq(Entry) /\ n \in DOMAIN list /\ disturbed \in Nat
        /\ Current = list[n].place
    BY DEF DiscoveryIInv, DiscoveryTypeOK, PhaseOK, Current
  <1>2. /\ list' \in Seq(Entry) /\ Len(list') = n /\ DOMAIN list' = DOMAIN list
        /\ list'[n] = e /\ \A i \in DOMAIN list : i # n => list'[i] = list[i]
    BY <1>1, ReplacedAt
  <1> HIDE DEF n
  <1>3. /\ Finished = {i \in DOMAIN list : i # n} /\ n = Len(list)
        /\ Finished' = {i \in DOMAIN list : phase' = "enum" \/ i # n}
    BY <1>2 DEF Finished, n
  <1>4. (\A i \in DOMAIN list : list'[i].place = list[i].place) /\ PlacesIn(list') = PlacesIn(list)
    <2>1. \A i \in DOMAIN list : list'[i].place = list[i].place
      BY <1>1, <1>2
    <2> QED
      BY <1>2, <2>1 DEF PlacesIn
  <1>5. \A c, v : Real(c, v) => RealAfter(c, v)
    BY <1>1, RealStays
  <1>6. \A i \in Finished' : RealAfter(CompOf[list'[i].place], list'[i].ver)
    <2>1. \A i \in DOMAIN list : i # n => Real(CompOf[list[i].place], list[i].ver)
      BY <1>3 DEF DiscoveryIInv, SeenOK
    <2>2. \A i \in DOMAIN list : i # n => RealAfter(CompOf[list'[i].place], list'[i].ver)
      BY <1>2, <1>5, <2>1
    <2>3. phase' = "enum" => RealAfter(CompOf[list'[n].place], list'[n].ver)
      BY <1>2
    <2> QED
      BY <1>3, <2>2, <2>3
  <1>7. ListOK'
    <2> SUFFICES ASSUME disturbed' = 0
                 PROVE  /\ left \union PlacesIn(list') = Source(comp) /\ left \intersect PlacesIn(list') = {}
                        /\ \A i, k \in DOMAIN list' : list'[i].place = list'[k].place => i = k
                        /\ \A i \in Finished' : list'[i] = Right(list'[i].place)
                        /\ phase' = "version" => list'[n] = Named(list'[n].place)
      BY <1>2, SameInstalled DEF ListOK, PlacesIn, catalog, Current
    <2>1. /\ left \union PlacesIn(list) = Source(comp) /\ left \intersect PlacesIn(list) = {}
          /\ \A i, k \in DOMAIN list : list[i].place = list[k].place => i = k
          /\ \A i \in Finished : list[i] = Right(list[i].place)
      BY <1>1 DEF DiscoveryIInv, ListOK, Query
    <2>2. phase' = "enum" => list'[n] = Right(list'[n].place)
      BY <1>2
    <2>3. phase' = "version" => list'[n] = Named(list'[n].place)
      BY <1>2
    <2>4. \A i \in Finished' : list'[i] = Right(list'[i].place)
      BY <1>2, <1>3, <2>1, <2>2
    <2>5. \A i, k \in DOMAIN list' : list'[i].place = list'[k].place => i = k
      BY <1>2, <1>4, <2>1
    <2>6. left \union PlacesIn(list') = Source(comp) /\ left \intersect PlacesIn(list') = {}
      BY <1>4, <2>1
    <2> QED
      BY <2>3, <2>4, <2>5, <2>6
  <1>8. list' # <<>> /\ phase' \in Query /\ phase \in Query
    BY <1>1, <1>2 DEF Query
  <1>9. comp # Nothing => \A q \in left' \union PlacesIn(list') : CompOf[q] = comp
    BY <1>4 DEF DiscoveryIInv, SeenOK
  <1>10. left' \subseteq Place
    BY <1>1 DEF DiscoveryTypeOK
  <1> QED
    BY <1>1, <1>2, <1>6, <1>7, <1>8, <1>9, <1>10, QueryStep

\* The product that is read is there while nothing is disturbed.
LEMMA CurrentHere ==
  ASSUME DiscoveryIInv, phase \in {"state", "version"}, disturbed = 0
  PROVE  Current \in Present
  <1>1. list \in Seq(Entry) /\ Len(list) \in DOMAIN list
    BY DEF DiscoveryIInv, DiscoveryTypeOK, PhaseOK
  <1>2. Current \in PlacesIn(list)
    BY <1>1 DEF Current, PlacesIn
  <1> QED
    BY <1>2 DEF DiscoveryIInv, ListOK, Query, Source, Listed

LEMMA QueryStateInv ==
  ASSUME DiscoveryIInv, QueryState
  PROVE  DiscoveryIInv'
  <1>1. PICK state \in BOOLEAN, names \in BOOLEAN :
          /\ list' = [list EXCEPT ![Len(list)].advertised = state /\ Current \in advertised,
                                  ![Len(list)].named = names /\ Current \in Present]
          /\ Answered(state /\ names)
    BY DEF QueryState
  <1>2. /\ phase = "state" /\ phase' = "version" /\ list \in Seq(Entry) /\ Len(list) \in DOMAIN list
        /\ UNCHANGED <<installed, cache, left, catalog, found, packages, configs, counted, seen>>
        /\ disturbed \in 0..Disturbances
    BY DEF QueryState, Go, DiscoveryIInv, DiscoveryTypeOK, PhaseOK
  <1> DEFINE a == state /\ Current \in advertised
             m == names /\ Current \in Present
             e == [place |-> Current, named |-> m, advertised |-> a, ver |-> list[Len(list)].ver]
  <1>3. Current \in Place /\ list[Len(list)].ver \in Version \union {Nothing}
    <2>1. list[Len(list)] \in Entry
      BY <1>2
    <2> QED
      BY <2>1 DEF Current, Entry
  <1>4. list' = [list EXCEPT ![Len(list)] = e]
    <2>1. list[Len(list)] \in Entry /\ list[Len(list)].place = Current
      BY <1>2 DEF Current
    <2>2. e = [list[Len(list)] EXCEPT !.advertised = a, !.named = m]
      <3> DEFINE l == list[Len(list)]
                 r == [l EXCEPT !.advertised = a, !.named = m]
      <3>1. l \in Entry /\ a \in BOOLEAN /\ m \in BOOLEAN
        BY <2>1
      <3> HIDE DEF l, a, m
      <3>2. r \in Entry /\ r.place = l.place /\ r.named = m /\ r.advertised = a /\ r.ver = l.ver
        BY <3>1 DEF Entry
      <3> HIDE DEF r
      <3>3. r = [place |-> r.place, named |-> r.named, advertised |-> r.advertised, ver |-> r.ver]
        BY <3>2 DEF Entry
      <3>4. r = [place |-> l.place, named |-> m, advertised |-> a, ver |-> l.ver]
        BY <3>2, <3>3
      <3> QED
        BY <2>1, <3>4 DEF r, l
    <2> HIDE DEF a, m
    <2>3. list' = [list EXCEPT ![Len(list)] = [list[Len(list)] EXCEPT !.advertised = a, !.named = m]]
      BY <1>1, <1>2 DEF a, m
    <2> QED
      BY <2>2, <2>3
  <1>5. e \in Entry /\ e.place = Current
    BY <1>3 DEF Entry
  <1>6. disturbed' \in 0..Disturbances /\ disturbed <= disturbed'
        /\ (disturbed' = 0 => disturbed = 0 /\ state /\ names)
    BY <1>1, <1>2 DEF Answered, Disturb
  <1>7. disturbed' = 0 => e = Named(Current)
    <2>1. disturbed' = 0 => Current \in Present /\ list[Len(list)].ver = Nothing
      BY <1>2, <1>6, CurrentHere DEF DiscoveryIInv, ListOK, Query
    <2>2. disturbed' = 0 => m = TRUE /\ a = (Current \in advertised)
      BY <1>6, <2>1
    <2> HIDE DEF a, m
    <2> QED
      BY <2>1, <2>2 DEF Named
  <1> HIDE DEF e
  <1> QED
    BY <1>2, <1>4, <1>5, <1>6, <1>7, PropertiesRead

LEMMA QueryVersionInv ==
  ASSUME DiscoveryIInv, QueryVersion
  PROVE  DiscoveryIInv'
  <1>1. PICK ok \in BOOLEAN :
          /\ list' = [list EXCEPT ![Len(list)].ver = IF ok THEN products[Current] ELSE Nothing]
          /\ Answered(ok)
    BY DEF QueryVersion
  <1>2. /\ phase = "version" /\ phase' = "enum" /\ list \in Seq(Entry) /\ Len(list) \in DOMAIN list
        /\ UNCHANGED <<installed, cache, left, catalog, found, packages, configs, counted, seen>>
        /\ disturbed \in 0..Disturbances /\ products \in [Place -> Version \union {Nothing}]
    BY DEF QueryVersion, Go, DiscoveryIInv, DiscoveryTypeOK, PhaseOK
  <1> DEFINE v == IF ok THEN products[Current] ELSE Nothing
             e == [list[Len(list)] EXCEPT !.ver = v]
  <1>3. list[Len(list)] \in Entry /\ list[Len(list)].place = Current /\ Current \in Place
    <2>1. list[Len(list)] \in Entry
      BY <1>2
    <2> QED
      BY <2>1 DEF Current, Entry
  <1>4. v \in Version \union {Nothing}
    BY <1>2, <1>3
  <1>5. e \in Entry /\ e.place = Current /\ e.ver = v /\ list' = [list EXCEPT ![Len(list)] = e]
        /\ e.named = list[Len(list)].named /\ e.advertised = list[Len(list)].advertised
    BY <1>1, <1>2, <1>3, <1>4 DEF Entry
  <1>6. disturbed' \in 0..Disturbances /\ disturbed <= disturbed' /\ (disturbed' = 0 => disturbed = 0 /\ ok)
        /\ (~ok => disturbed' > 0)
    BY <1>1, <1>2 DEF Answered, Disturb
  <1>7. disturbed' = 0 => Current \in Present
    BY <1>2, <1>6, CurrentHere
  <1>8. RealAfter(CompOf[e.place], e.ver)
    <2>1. CASE v = Nothing
      <3>1. disturbed' # 0
        BY <1>6, <1>7, <2>1 DEF Present
      <3> QED
        BY <1>5, <1>6, <2>1, <3>1 DEF RealAfter
    <2>2. CASE v # Nothing
      <3>1. v \in Version /\ v = products[Current]
        BY <1>4, <2>2
      <3>2. <<CompOf[Current], v>> \in Here
        BY <1>3, <3>1 DEF Here
      <3> QED
        BY <1>2, <1>5, <3>2 DEF RealAfter, DiscoveryIInv, SeenOK
    <2> QED
      BY <2>1, <2>2
  <1>9. disturbed' = 0 => e = Right(Current)
    <2> SUFFICES ASSUME disturbed' = 0 PROVE e = Right(Current)
      OBVIOUS
    <2>1. list[Len(list)] = Named(Current)
      BY <1>2, <1>6 DEF DiscoveryIInv, ListOK, Query
    <2>2. /\ e.named = TRUE /\ e.advertised = (Current \in advertised)
          /\ e.place = Current /\ e.ver = products[Current]
      BY <1>5, <1>6, <2>1 DEF Named
    <2>3. e = [place |-> e.place, named |-> e.named, advertised |-> e.advertised, ver |-> e.ver]
      BY <1>5 DEF Entry
    <2> HIDE DEF e
    <2> QED
      BY <2>2, <2>3 DEF Right
  <1> HIDE DEF e, v
  <1> QED
    BY <1>2, <1>5, <1>6, <1>8, <1>9, PropertiesRead

\* What a rule detects in a vector.
LEMMA DetectedType ==
  ASSUME NEW seq \in Seq(Entry), NEW byName \in BOOLEAN, comp \in Component
  PROVE  /\ Detected(seq, byName) \subseteq Nat \X Package
         /\ \A d \in Detected(seq, byName) :
              /\ d[1] \in DOMAIN seq /\ d[2].comp = comp /\ d[2].of = seq[d[1]].place
              /\ d[2] = [comp |-> comp, of |-> seq[d[1]].place, ver |-> seq[d[1]].ver]
              /\ ~seq[d[1]].advertised
              /\ byName => seq[d[1]].named /\ CompOf[seq[d[1]].place] = comp
         /\ \A i \in DOMAIN seq :
              ~seq[i].advertised /\ (byName => seq[i].named /\ CompOf[seq[i].place] = comp) =>
                <<i, [comp |-> comp, of |-> seq[i].place, ver |-> seq[i].ver]>> \in Detected(seq, byName)
  <1>1. \A i \in DOMAIN seq : i \in Nat /\ seq[i] \in Entry
    OBVIOUS
  <1>2. \A i \in DOMAIN seq : [comp |-> comp, of |-> seq[i].place, ver |-> seq[i].ver] \in Package
    BY <1>1 DEF Entry, Package
  <1> QED
    BY <1>1, <1>2 DEF Detected

LEMMA SecondsOfNone == ASSUME NEW X PROVE {d[2] : d \in X} = {} <=> X = {}
  <1>1. \A d \in X : d[2] \in {e[2] : e \in X}
    OBVIOUS
  <1> QED
    BY <1>1

\* The products of the component that are more than advertised.
Builds == {[comp |-> comp, of |-> p, ver |-> products[p]] : p \in Shown(comp)}

LEMMA ExpectedBuilds ==
  /\ comp \in ByUpgradeCode \union ByMsi /\ Shown(comp) # {} => Expected(comp) = Builds
  /\ Shown(comp) = {} \/ comp \notin ByUpgradeCode \union ByMsi =>
       Expected(comp) = IF comp \in ByRegistry /\ registry[comp] # Nothing
                        THEN {[comp |-> comp, of |-> Nothing, ver |-> registry[comp]]} ELSE {}
  /\ Builds = {} <=> Shown(comp) = {}
  <1>1. Builds = {} <=> Shown(comp) = {}
    <2>1. \A p \in Shown(comp) : [comp |-> comp, of |-> p, ver |-> products[p]] \in Builds
      BY DEF Builds
    <2>2. Shown(comp) = {} => Builds = {}
      BY DEF Builds
    <2> QED
      BY <2>1, <2>2
  <1> QED
    BY <1>1 DEF Expected, Builds

\* A vector that lists the places asked for, each once with what it has, gives what is expected.
LEMMA DetectedExact ==
  ASSUME NEW seq \in Seq(Entry), NEW byName \in BOOLEAN, comp \in Component,
         ListsExactly(seq, Source(IF byName THEN Nothing ELSE comp))
  PROVE  /\ {d[2] : d \in Detected(seq, byName)} = Builds
         /\ \A d, e \in Detected(seq, byName) : d[2] = e[2] => d = e
  <1> DEFINE D == Detected(seq, byName)
             places == Source(IF byName THEN Nothing ELSE comp)
  <1>1. /\ PlacesIn(seq) = places
        /\ \A i \in DOMAIN seq : seq[i] = Right(seq[i].place)
        /\ \A i, k \in DOMAIN seq : seq[i].place = seq[k].place => i = k
    BY DEF ListsExactly
  <1>2. \A p : p \in Shown(comp) <=> p \in places /\ p \notin advertised /\ (byName => CompOf[p] = comp)
    BY DiscoveryAssumption DEF Shown, Source, Listed
  <1>3. \A i \in DOMAIN seq : /\ seq[i].named /\ seq[i].ver = products[seq[i].place]
                              /\ seq[i].advertised = (seq[i].place \in advertised)
                              /\ seq[i].place \in places
    <2> TAKE i \in DOMAIN seq
    <2>1. seq[i] = Right(seq[i].place) /\ seq[i].place \in places
      BY <1>1 DEF PlacesIn
    <2> QED
      BY <2>1 DEF Right
  <1> HIDE DEF places
  <1>4. ASSUME NEW d \in D
        PROVE  d[2] \in Builds
    <2>1. /\ d[1] \in DOMAIN seq /\ ~seq[d[1]].advertised
          /\ d[2] = [comp |-> comp, of |-> seq[d[1]].place, ver |-> seq[d[1]].ver]
          /\ byName => CompOf[seq[d[1]].place] = comp
      BY <1>4, DetectedType
    <2>2. seq[d[1]].place \in Shown(comp) /\ seq[d[1]].ver = products[seq[d[1]].place]
      BY <1>2, <1>3, <2>1
    <2> QED
      BY <2>1, <2>2 DEF Builds
  <1>5. ASSUME NEW p \in Shown(comp)
        PROVE  \E d \in D : d[2] = [comp |-> comp, of |-> p, ver |-> products[p]]
    <2>1. PICK i \in DOMAIN seq : seq[i].place = p
      BY <1>1, <1>2, <1>5 DEF PlacesIn, places
    <2>2. /\ ~seq[i].advertised /\ seq[i].named /\ seq[i].ver = products[p]
          /\ byName => CompOf[seq[i].place] = comp
      BY <1>2, <1>3, <1>5, <2>1
    <2>3. <<i, [comp |-> comp, of |-> seq[i].place, ver |-> seq[i].ver]>> \in D
      BY <2>2, DetectedType
    <2> QED
      BY <2>1, <2>2, <2>3
  <1>6. ASSUME NEW d \in D, NEW e \in D, d[2] = e[2]
        PROVE  d = e
    <2> \A b \in D : b[1] \in DOMAIN seq /\ b[2].of = seq[b[1]].place /\ b \in Nat \X Package
      <3>1. D \subseteq Nat \X Package
        BY DetectedType
      <3>2. \A b \in D : b[1] \in DOMAIN seq /\ b[2].of = seq[b[1]].place
        BY DetectedType
      <3> HIDE DEF D
      <3> QED
        BY <3>1, <3>2
    <2>1. /\ d[1] \in DOMAIN seq /\ d[2].of = seq[d[1]].place /\ d \in Nat \X Package
          /\ e[1] \in DOMAIN seq /\ e[2].of = seq[e[1]].place /\ e \in Nat \X Package
      BY <1>6
    <2>2. d[1] = e[1]
      BY <1>1, <1>6, <2>1
    <2> QED
      BY <1>6, <2>1, <2>2
  <1> HIDE DEF D
  <1>7. {d[2] : d \in D} = Builds
    BY <1>4, <1>5 DEF Builds
  <1> QED
    BY <1>6, <1>7 DEF D

\* A step to the next method of a rule, or to what the rule has found.
LEMMA SearchStep ==
  ASSUME DiscoveryIInv, phase # "idle", phase # "detected", phase' \in Search,
         comp \in todo,
         UNCHANGED <<installed, cache, catalog, packages, configs, counted, seen>>,
         disturbed' \in 0..Disturbances, disturbed <= disturbed', list' = <<>>, left' = {},
         found' \subseteq Nat \X Package,
         \A p \in found' : p[2].comp = comp /\ RealAfter(p[2].comp, p[2].ver),
         phase' # "detected" => found' = {},
         phase' \in {"install_key", "version_key"} => comp \in ByRegistry,
         disturbed' = 0 =>
           /\ phase' = "msi" /\ comp \in ByUpgradeCode => Shown(comp) = {}
           /\ phase' \in {"install_key", "version_key"} /\ comp \in ByUpgradeCode \union ByMsi =>
                Shown(comp) = {}
           /\ phase' = "detected" => /\ {p[2] : p \in found'} = Expected(comp)
                                     /\ \A p, q \in found' : p[2] = q[2] => p = q
  PROVE  DiscoveryIInv'
  <1>1. /\ todo' = todo /\ comp' = comp /\ cache' = cache /\ packages' = packages
        /\ configs' = configs /\ counted' = counted /\ seen' = seen
        /\ products' = products /\ advertised' = advertised /\ registry' = registry
    BY DEF catalog, installed
  <1>2. comp \in Component /\ comp # Nothing /\ DiscoveryTypeOK
    BY DiscoveryAssumption DEF DiscoveryIInv, DiscoveryTypeOK
  <1>3. phase' \notin Query /\ phase' # "idle" /\ phase' # "rules" /\ phase' \in Phases
    BY DEF Search, Query, Phases
  <1>4. DiscoveryTypeOK'
    BY <1>1, <1>2, <1>3 DEF DiscoveryTypeOK
  <1>5. disturbed \in Nat /\ disturbed' \in Nat /\ (disturbed' = 0 => disturbed = 0)
    BY <1>2 DEF DiscoveryTypeOK
  <1>6. PhaseOK'
    BY <1>1, <1>3 DEF PhaseOK, Search
  <1>7. SeenOK'
    <2>1. \A c, v : Real(c, v) => RealAfter(c, v)
      BY <1>1, <1>5, RealStays
    <2>2. /\ \A i \in DOMAIN cache : Real(CompOf[cache[i].place], cache[i].ver)
          /\ \A i \in DOMAIN packages : Real(packages[i].comp, packages[i].ver)
      BY DEF DiscoveryIInv, SeenOK
    <2>3. /\ \A i \in DOMAIN cache : RealAfter(CompOf[cache[i].place], cache[i].ver)
          /\ \A i \in DOMAIN packages : RealAfter(packages[i].comp, packages[i].ver)
      BY <2>1, <2>2
    <2>4. /\ (\A i \in DOMAIN cache : Real(CompOf[cache[i].place], cache[i].ver))'
          /\ (\A p \in found : p[2].comp = comp /\ Real(p[2].comp, p[2].ver))'
          /\ (\A i \in DOMAIN packages : Real(packages[i].comp, packages[i].ver))'
      BY <1>1, <2>3 DEF Real, RealAfter
    <2>5. Here' \subseteq seen'
      BY <1>1, SameInstalled DEF DiscoveryIInv, SeenOK
    <2>6. left' \union PlacesIn(list)' = {} /\ Finished' = {}
      BY DEF PlacesIn, Finished
    <2> QED
      BY <2>4, <2>5, <2>6 DEF SeenOK
  <1>8. ListOK'
    BY <1>3 DEF ListOK
  <1>9. CacheOK'
    BY <1>2, <1>5, CacheStays
  <1>10. ExactOK'
    <2> SUFFICES ASSUME disturbed' = 0
                 PROVE  ExactOK'
      BY DEF ExactOK
    <2>1. /\ Added(comp) = {} /\ \A c \in todo : Added(c) = {}
          /\ \A c \in Component \ todo : Added(c) = Expected(c)
          /\ \A i, k \in DOMAIN packages : packages[i] = packages[k] => i = k
      BY <1>5 DEF DiscoveryIInv, ExactOK
    <2>2. Shown(comp)' = Shown(comp) /\ \A c : Added(c)' = Added(c) /\ Expected(c)' = Expected(c)
      BY <1>1, SameInstalled, SamePackages
    <2>3. Detections' = {p[2] : p \in found'}
      BY DEF Detections
    <2>4. /\ Shown(comp') = Shown(comp) /\ Shown(comp)' = Shown(comp)
          /\ Added(comp)' = {} /\ Expected(comp)' = Expected(comp)
      BY <1>1, <2>1, <2>2
    <2>5. phase' = "detected" =>
            /\ Detections' \union Added(comp)' = Expected(comp)'
            /\ Detections' \intersect Added(comp)' = {}
            /\ \A p, q \in found' : p[2] = q[2] => p = q
      BY <2>3, <2>4
    <2>6. /\ \A c \in todo' : Added(c)' = {}
          /\ \A c \in Component \ todo' : Added(c)' = Expected(c)'
          /\ \A i, k \in DOMAIN packages' : packages'[i] = packages'[k] => i = k
      BY <1>1, <2>1, <2>2
    <2> QED
      BY <1>1, <2>4, <2>5, <2>6 DEF ExactOK
  <1> QED
    BY <1>4, <1>6, <1>7, <1>8, <1>9, <1>10 DEF DiscoveryIInv

\* What is detected in a vector that holds what was there.
LEMMA DetectedReal ==
  ASSUME DiscoveryIInv, NEW seq \in Seq(Entry), NEW byName \in BOOLEAN, comp \in Component,
         disturbed' \in Nat, disturbed <= disturbed', seen' = seen,
         \A i \in DOMAIN seq : Real(CompOf[seq[i].place], seq[i].ver),
         byName \/ \A i \in DOMAIN seq : CompOf[seq[i].place] = comp
  PROVE  \A p \in Detected(seq, byName) : p[2].comp = comp /\ RealAfter(p[2].comp, p[2].ver)
  <1>1. \A c, v : Real(c, v) => RealAfter(c, v)
    BY RealStays DEF DiscoveryIInv, DiscoveryTypeOK
  <1> SUFFICES ASSUME NEW p \in Detected(seq, byName)
               PROVE  p[2].comp = comp /\ RealAfter(p[2].comp, p[2].ver)
    OBVIOUS
  <1>2. /\ p[1] \in DOMAIN seq /\ p[2] = [comp |-> comp, of |-> seq[p[1]].place, ver |-> seq[p[1]].ver]
        /\ byName => CompOf[seq[p[1]].place] = comp
    BY DetectedType
  <1> QED
    BY <1>1, <1>2

LEMMA QueryEndsInv ==
  ASSUME DiscoveryIInv, QueryEnds
  PROVE  DiscoveryIInv'
  <1>1. /\ DiscoveryTypeOK /\ phase = "enum" /\ list' = <<>> /\ left' = {} /\ list \in Seq(Entry)
        /\ UNCHANGED <<installed, catalog, packages, configs, counted, seen>>
        /\ todo' = todo /\ comp' = comp
    BY DEF QueryEnds, DiscoveryIInv, DiscoveryTypeOK, catalog
  <1>2. /\ disturbed \in Nat /\ disturbed' \in 0..Disturbances /\ disturbed <= disturbed'
        /\ (disturbed' = 0 => disturbed = 0 /\ left = {})
    BY <1>1 DEF QueryEnds, Answered, Disturb, DiscoveryTypeOK
  <1>3. disturbed' = 0 => ListsExactly(list, Source(comp))
    <2>1. Finished = DOMAIN list
      BY <1>1 DEF Finished
    <2> QED
      BY <1>1, <1>2, <2>1 DEF DiscoveryIInv, ListOK, ListsExactly, Query
  <1>4. \A i \in DOMAIN list : Real(CompOf[list[i].place], list[i].ver)
    <2>1. Finished = DOMAIN list
      BY <1>1 DEF Finished
    <2> QED
      BY <2>1 DEF DiscoveryIInv, SeenOK
  <1>5. CASE comp = Nothing
    <2>1. phase' = "rules" /\ cache' = list /\ found' = found /\ packages' = packages /\ seen' = seen
          /\ configs' = configs /\ counted' = counted
          /\ products' = products /\ advertised' = advertised /\ registry' = registry
      BY <1>1, <1>5 DEF QueryEnds, installed
    <2>2. todo = Component /\ packages = <<>> /\ found = {}
      BY <1>1, <1>5, DiscoveryAssumption DEF DiscoveryIInv, PhaseOK, Query, DiscoveryTypeOK
    <2>3. DiscoveryTypeOK'
      BY <1>1, <1>2, <2>1 DEF DiscoveryTypeOK, Phases
    <2>4. PhaseOK'
      BY <1>1, <1>5, <2>1, <2>2 DEF PhaseOK, Query, Search
    <2>5. SeenOK'
      <3>1. \A i \in DOMAIN list : RealAfter(CompOf[list[i].place], list[i].ver)
        BY <1>1, <1>2, <1>4, RealStays
      <3>2. (\A i \in DOMAIN cache : Real(CompOf[cache[i].place], cache[i].ver))'
        BY <2>1, <3>1 DEF Real, RealAfter
      <3>3. Here' \subseteq seen'
        BY <1>1, SameInstalled DEF DiscoveryIInv, SeenOK
      <3>4. Finished' = {} /\ found' = {} /\ DOMAIN packages' = {}
        BY <1>1, <2>1, <2>2 DEF Finished
      <3> QED
        BY <1>1, <1>5, <3>2, <3>3, <3>4 DEF SeenOK
    <2>6. ListOK'
      BY <2>1 DEF ListOK, Query
    <2>7. CacheOK'
      <3> SUFFICES ASSUME disturbed' = 0 PROVE ListsExactly(cache, Source(Nothing))'
        BY DEF CacheOK
      <3>1. ListsExactly(list, Source(Nothing))
        BY <1>3, <1>5
      <3>2. cache' = list /\ Source(Nothing)' = Source(Nothing) /\ \A p : Right(p)' = Right(p)
        BY <1>1, <2>1, SameInstalled
      <3> QED
        BY <3>1, <3>2 DEF ListsExactly, PlacesIn
    <2>8. ExactOK'
      BY <1>1, <2>1, <2>2 DEF ExactOK, Added
    <2> QED
      BY <2>3, <2>4, <2>5, <2>6, <2>7, <2>8 DEF DiscoveryIInv
  <1>6. CASE comp # Nothing
    <2>1. /\ found' = Detected(list, FALSE) /\ cache' = cache
          /\ phase' = IF found' = {} THEN "msi" ELSE "detected"
      BY <1>6 DEF QueryEnds
    <2>2. comp \in todo /\ comp \in ByUpgradeCode /\ comp \in Component
      BY <1>1, <1>6 DEF DiscoveryIInv, PhaseOK, Query, DiscoveryTypeOK
    <2>3. found' \subseteq Nat \X Package
      BY <1>1, <2>1, <2>2, DetectedType
    <2>4. \A i \in DOMAIN list : CompOf[list[i].place] = comp
      BY <1>6 DEF DiscoveryIInv, SeenOK, PlacesIn
    <2>5. disturbed' \in Nat
      BY <1>2
    <2>6. \A p \in found' : p[2].comp = comp /\ RealAfter(p[2].comp, p[2].ver)
      BY <1>1, <1>2, <1>4, <2>1, <2>2, <2>4, <2>5, DetectedReal
    <2>7. disturbed' = 0 => /\ {p[2] : p \in found'} = Builds
                            /\ \A p, q \in found' : p[2] = q[2] => p = q
      <3>1. disturbed' = 0 => ListsExactly(list, Source(IF FALSE THEN Nothing ELSE comp))
        BY <1>3
      <3> QED
        BY <1>1, <2>1, <2>2, <3>1, DetectedExact
    <2>8. disturbed' = 0 /\ phase' = "msi" => Shown(comp) = {}
      <3> QED
        BY <2>1, <2>7, SecondsOfNone, ExpectedBuilds
    <2>9. disturbed' = 0 /\ phase' = "detected" => {p[2] : p \in found'} = Expected(comp)
      <3> QED
        BY <2>1, <2>2, <2>7, SecondsOfNone, ExpectedBuilds
    <2>10. phase' \in Search /\ phase' \notin {"install_key", "version_key"} /\ phase # "idle" /\ phase # "detected"
           /\ (phase' # "detected" => found' = {})
      BY <1>1, <2>1 DEF Search
    <2> QED
      BY <1>1, <1>2, <2>1, <2>2, <2>3, <2>6, <2>7, <2>8, <2>9, <2>10, SearchStep
  <1> QED
    BY <1>5, <1>6

LEMMA NextRuleInv ==
  ASSUME DiscoveryIInv, NextRule
  PROVE  DiscoveryIInv'
  <1>1. PICK c \in todo : /\ comp' = c
                          /\ phase' = IF c \in ByUpgradeCode THEN "enum" ELSE "msi"
                          /\ left' = IF c \in ByUpgradeCode THEN Source(c) ELSE {}
    BY DEF NextRule
  <1>2. /\ DiscoveryTypeOK /\ phase = "rules" /\ comp = Nothing /\ c \in Component /\ c # Nothing
        /\ list = <<>> /\ found = {}
        /\ UNCHANGED <<installed, cache, list, todo, found, packages, configs, counted, disturbed, seen>>
        /\ products' = products /\ advertised' = advertised /\ registry' = registry
    BY DiscoveryAssumption DEF NextRule, DiscoveryIInv, DiscoveryTypeOK, PhaseOK, Query, history, installed
  <1>3. DiscoveryTypeOK'
    BY <1>1, <1>2 DEF DiscoveryTypeOK, Phases, Source, Listed, Present
  <1>4. PhaseOK'
    BY <1>1, <1>2 DEF PhaseOK, Query, Search
  <1>5. PlacesIn(list)' = {} /\ DOMAIN list' = {} /\ Finished' = {}
    BY <1>2 DEF PlacesIn, Finished
  <1>6. SeenOK'
    <2>1. Here' \subseteq seen'
      BY <1>2, SameInstalled DEF DiscoveryIInv, SeenOK
    <2>2. \A p \in left' : CompOf[p] = c
      BY <1>1, <1>2 DEF Source, Listed
    <2>3. /\ (\A i \in DOMAIN cache : Real(CompOf[cache[i].place], cache[i].ver))'
          /\ (\A i \in DOMAIN packages : Real(packages[i].comp, packages[i].ver))'
      BY <1>2 DEF DiscoveryIInv, SeenOK, Real
    <2> QED
      BY <1>1, <1>2, <1>5, <2>1, <2>2, <2>3 DEF SeenOK
  <1>7. ListOK'
    <2>1. phase' \in Query => left' = Source(comp)'
      BY <1>1, <1>2, SameInstalled DEF Query
    <2>2. phase' # "state" /\ phase' # "version"
      BY <1>1
    <2> QED
      BY <1>5, <2>1, <2>2 DEF ListOK
  <1>8. CacheOK'
    BY <1>2, CacheStays DEF Query
  <1>9. ExactOK'
    <2>1. \A d : Added(d)' = Added(d) /\ Expected(d)' = Expected(d)
      BY <1>2, SameInstalled, SamePackages
    <2>2. phase' # "detected" /\ phase' \notin {"install_key", "version_key"}
          /\ (phase' = "msi" => c \notin ByUpgradeCode)
      BY <1>1
    <2> QED
      BY <1>1, <1>2, <2>1, <2>2 DEF DiscoveryIInv, ExactOK
  <1> QED
    BY <1>3, <1>4, <1>6, <1>7, <1>8, <1>9 DEF DiscoveryIInv

LEMMA MsiRulesInv ==
  ASSUME DiscoveryIInv, DiscoverByMsiRules
  PROVE  DiscoveryIInv'
  <1>1. /\ phase = "msi" /\ found' = (IF comp \in ByMsi THEN Detected(cache, TRUE) ELSE {})
        /\ phase' = (IF found' = {} /\ comp \in ByRegistry THEN "install_key" ELSE "detected")
        /\ UNCHANGED <<installed, cache, list, left, catalog, packages, configs, counted, disturbed, seen>>
    BY DEF DiscoverByMsiRules, history
  <1>2. /\ DiscoveryTypeOK /\ comp \in todo /\ comp \in Component /\ comp # Nothing /\ cache \in Seq(Entry)
        /\ list' = <<>> /\ left' = {} /\ disturbed' \in 0..Disturbances /\ disturbed' \in Nat
        /\ disturbed <= disturbed' /\ disturbed' = disturbed /\ seen' = seen
    BY <1>1, DiscoveryAssumption DEF DiscoveryIInv, DiscoveryTypeOK, PhaseOK, Search, Query
  <1>3. found' \subseteq Nat \X Package
    BY <1>1, <1>2, DetectedType
  <1>4. \A p \in found' : p[2].comp = comp /\ RealAfter(p[2].comp, p[2].ver)
    <2>1. \A i \in DOMAIN cache : Real(CompOf[cache[i].place], cache[i].ver)
      BY DEF DiscoveryIInv, SeenOK
    <2>2. \A p \in Detected(cache, TRUE) : p[2].comp = comp /\ RealAfter(p[2].comp, p[2].ver)
      BY <1>2, <2>1, DetectedReal
    <2> QED
      BY <1>1, <2>2
  <1>5. ASSUME disturbed' = 0
        PROVE  /\ phase' \in {"install_key", "version_key"} /\ comp \in ByUpgradeCode \union ByMsi =>
                    Shown(comp) = {}
               /\ phase' = "detected" => /\ {p[2] : p \in found'} = Expected(comp)
                                         /\ \A p, q \in found' : p[2] = q[2] => p = q
    <2>1. ListsExactly(cache, Source(IF TRUE THEN Nothing ELSE comp))
      BY <1>1, <1>2, <1>5 DEF DiscoveryIInv, CacheOK, Query
    <2>2. /\ {d[2] : d \in Detected(cache, TRUE)} = Builds
          /\ \A d, e \in Detected(cache, TRUE) : d[2] = e[2] => d = e
      BY <1>2, <2>1, DetectedExact
    <2>3. comp \in ByUpgradeCode => Shown(comp) = {}
      BY <1>1, <1>2, <1>5 DEF DiscoveryIInv, ExactOK
    <2>4. {p[2] : p \in {}} = {}
      BY SecondsOfNone
    <2>5. CASE comp \in ByMsi
      <3>1. {p[2] : p \in found'} = Builds /\ (found' = {} <=> Builds = {})
        BY <1>1, <2>2, <2>5, SecondsOfNone
      <3> HIDE DEF Builds
      <3> QED
        BY <1>1, <2>2, <2>5, <3>1, ExpectedBuilds
    <2>6. CASE comp \notin ByMsi
      <3>1. found' = {} /\ {p[2] : p \in found'} = {}
        BY <1>1, <2>4, <2>6
      <3>2. comp \notin ByRegistry => Expected(comp) = {}
        BY <2>3, <2>6, ExpectedBuilds
      <3> QED
        BY <1>1, <2>3, <2>6, <3>1, <3>2
    <2> QED
      BY <2>5, <2>6
  <1>6. phase' \in Search /\ phase' # "msi" /\ phase # "idle" /\ phase # "detected"
        /\ (phase' # "detected" => found' = {} /\ comp \in ByRegistry)
    BY <1>1 DEF Search
  <1> QED
    BY <1>1, <1>2, <1>3, <1>4, <1>5, <1>6, SearchStep

LEMMA RegistryInv ==
  ASSUME DiscoveryIInv, DiscoverByRegistry
  PROVE  DiscoveryIInv'
  <1> DEFINE r == [comp |-> comp, of |-> Nothing, ver |-> registry[comp]]
  <1>1. /\ phase \in {"install_key", "version_key"} /\ phase' \in {"version_key", "detected"}
        /\ UNCHANGED <<installed, cache, list, left, catalog, packages, configs, counted, seen>>
    BY DEF DiscoverByRegistry, Go
  <1>2. /\ DiscoveryTypeOK /\ comp \in todo /\ comp \in Component /\ comp \in ByRegistry
        /\ list' = <<>> /\ left' = {} /\ found = {} /\ disturbed \in 0..Disturbances
        /\ registry[comp] \in Version \union {Nothing} /\ disturbed \in Nat
    BY <1>1 DEF DiscoveryIInv, DiscoveryTypeOK, PhaseOK, Search, Query
  <1>3. \/ /\ phase' = "detected" /\ found' = {} /\ Answered(registry[comp] = Nothing)
        \/ /\ phase' = "version_key" /\ found' = {} /\ disturbed' = disturbed
        \/ /\ phase' = "detected" /\ found' = {<<1, r>>} /\ disturbed' = disturbed /\ registry[comp] # Nothing
    BY <1>2 DEF DiscoverByRegistry, Go
  <1>4. /\ disturbed' \in 0..Disturbances /\ disturbed <= disturbed' /\ disturbed' \in Nat
        /\ (disturbed' = 0 => disturbed = 0)
        /\ (disturbed' = 0 /\ phase' = "detected" /\ found' = {} => registry[comp] = Nothing)
    <2>1. CASE phase' = "detected" /\ found' = {} /\ Answered(registry[comp] = Nothing)
      BY <1>2, <2>1 DEF Answered, Disturb
    <2>2. CASE disturbed' = disturbed /\ (phase' = "version_key" \/ found' = {<<1, r>>})
      <3>1. found' = {<<1, r>>} => found' # {}
        OBVIOUS
      <3> QED
        BY <1>2, <2>2, <3>1
    <2> QED
      BY <1>3, <2>1, <2>2
  <1>5. r \in Package
    BY <1>2 DEF Package
  <1>6. found' \subseteq Nat \X Package
    BY <1>3, <1>5
  <1>7. \A p \in found' : p[2].comp = comp /\ RealAfter(p[2].comp, p[2].ver)
    <2> SUFFICES ASSUME NEW p \in found' PROVE p[2].comp = comp /\ RealAfter(p[2].comp, p[2].ver)
      OBVIOUS
    <2>1. p = <<1, r>> /\ registry[comp] # Nothing
      BY <1>3
    <2>2. <<comp, registry[comp]>> \in Here
      BY <1>2, <2>1 DEF Here
    <2>3. <<comp, registry[comp]>> \in seen'
      BY <1>1, <2>2 DEF DiscoveryIInv, SeenOK
    <2>4. p[2].comp = comp /\ p[2].ver = registry[comp]
      BY <2>1
    <2> QED
      BY <2>3, <2>4 DEF RealAfter
  <1>8. ASSUME disturbed' = 0
        PROVE  /\ comp \in ByUpgradeCode \union ByMsi => Shown(comp) = {}
               /\ phase' = "detected" => /\ {p[2] : p \in found'} = Expected(comp)
                                         /\ \A p, q \in found' : p[2] = q[2] => p = q
    <2>1. comp \in ByUpgradeCode \union ByMsi => Shown(comp) = {}
      BY <1>1, <1>4, <1>8 DEF DiscoveryIInv, ExactOK
    <2>2. Expected(comp) = IF registry[comp] # Nothing THEN {r} ELSE {}
      BY <1>2, <2>1, ExpectedBuilds
    <2> HIDE DEF r
    <2>3. /\ {p[2] : p \in {}} = {}
          /\ {p[2] : p \in {<<1, r>>}} = {r}
      OBVIOUS
    <2> QED
      BY <1>3, <1>4, <1>8, <2>1, <2>2, <2>3
  <1>9. phase' \in Search /\ phase' # "msi" /\ phase # "idle" /\ phase # "detected"
        /\ (phase' # "detected" => found' = {})
    BY <1>1, <1>3 DEF Search
  <1> QED
    BY <1>1, <1>2, <1>4, <1>6, <1>7, <1>8, <1>9, SearchStep

LEMMA ConfigsType ==
  ASSUME NEW k \in Configurable, NEW l \in Configurable
  PROVE  /\ DiscoverPackageConfigurables(k, l) \subseteq ConfigInfo
         /\ Instances(k) \union Instances(l) \subseteq Paths
  <1>1. \A m \in Configurable : Instances(m) \subseteq Paths
    <2> SUFFICES ASSUME NEW m \in Configurable PROVE Instances(m) \subseteq Paths
      OBVIOUS
    <2>1. m.deploy \in {<<>>, <<"a">>} /\ m.cfg = <<"b", "a">>
      BY DEF Configurable
    <2>2. \A i \in DOMAIN <<"a">> : <<"a">>[i] \in Paths
      BY DEF Paths
    <2>3. \A i \in DOMAIN <<"b", "a">> : <<"b", "a">>[i] \in Paths
      BY DEF Paths
    <2> QED
      BY <2>1, <2>2, <2>3 DEF Instances
  <1>2. \A m \in Configurable : \A n \in 1..2 : Infos(m, n) \subseteq ConfigInfo
    <2> TAKE m \in Configurable
    <2> TAKE n \in 1..2
    <2>1. \A f \in Instances(m) : /\ [deployPath |-> f, cfgPath |-> "", by |-> n] \in ConfigInfo
                                  /\ [deployPath |-> "", cfgPath |-> f, by |-> n] \in ConfigInfo
      BY <1>1 DEF ConfigInfo
    <2> QED
      BY <2>1 DEF Infos
  <1>3. \A entries : \A m \in Configurable : \A n \in 1..2 :
          entries \subseteq ConfigInfo => AddConfigs(entries, m, n) \subseteq ConfigInfo
    BY <1>2 DEF AddConfigs
  <1> QED
    BY <1>1, <1>3 DEF DiscoverPackageConfigurables

LEMMA AddToInventoryInv ==
  ASSUME DiscoveryIInv, AddToInventory
  PROVE  DiscoveryIInv'
  <1>1. PICK p \in found : packages' = Append(packages, p[2]) /\ found' = found \ {p}
    BY DEF AddToInventory
  <1>2. PICK k \in Configurable, l \in Configurable :
          configs' = DiscoverPackageConfigurables(k, l) /\ counted' = Instances(k) \union Instances(l)
    BY DEF AddToInventory
  <1>3. /\ DiscoveryTypeOK /\ phase = "detected" /\ p[2] \in Package /\ packages \in Seq(Package)
        /\ p[2].comp = comp /\ comp \in todo /\ comp \in Component /\ disturbed' = disturbed
        /\ UNCHANGED <<installed, phase, cache, list, left, todo, comp, disturbed, seen>>
        /\ products' = products /\ advertised' = advertised /\ registry' = registry
        /\ list = <<>> /\ left = {}
    BY DEF AddToInventory, DiscoveryIInv, DiscoveryTypeOK, PhaseOK, SeenOK, Search, Query, catalog,
           history, installed
  <1> DEFINE n == Len(packages) + 1
  <1>4. /\ packages' \in Seq(Package)
        /\ DOMAIN packages' = DOMAIN packages \union {n} /\ n \notin DOMAIN packages
        /\ packages'[n] = p[2] /\ \A i \in DOMAIN packages : packages'[i] = packages[i]
    BY <1>1, <1>3, Appended
  <1> HIDE DEF n
  <1>5. DiscoveryTypeOK'
    BY <1>1, <1>2, <1>3, <1>4, ConfigsType DEF DiscoveryTypeOK
  <1>6. PhaseOK'
    BY <1>3 DEF DiscoveryIInv, PhaseOK, Query, Search
  <1>7. SeenOK'
    <2>1. Here' \subseteq seen'
      BY <1>3, SameInstalled DEF DiscoveryIInv, SeenOK
    <2>2. /\ \A i \in DOMAIN cache : Real(CompOf[cache[i].place], cache[i].ver)
          /\ \A q \in found : q[2].comp = comp /\ Real(q[2].comp, q[2].ver)
          /\ \A i \in DOMAIN packages : Real(packages[i].comp, packages[i].ver)
      BY DEF DiscoveryIInv, SeenOK
    <2>3. \A c, v : Real(c, v) => RealAfter(c, v)
      BY <1>3 DEF Real, RealAfter
    <2>4. /\ \A i \in DOMAIN cache' : RealAfter(CompOf[cache'[i].place], cache'[i].ver)
          /\ \A q \in found' : q[2].comp = comp' /\ RealAfter(q[2].comp, q[2].ver)
          /\ \A i \in DOMAIN packages' : RealAfter(packages'[i].comp, packages'[i].ver)
      BY <1>1, <1>3, <1>4, <2>2, <2>3
    <2>5. /\ (\A i \in DOMAIN cache : Real(CompOf[cache[i].place], cache[i].ver))'
          /\ (\A q \in found : q[2].comp = comp /\ Real(q[2].comp, q[2].ver))'
          /\ (\A i \in DOMAIN packages : Real(packages[i].comp, packages[i].ver))'
      BY <2>4 DEF Real, RealAfter
    <2>6. (left \union PlacesIn(list) = {})' /\ Finished' = {}
      BY <1>3 DEF PlacesIn, Finished
    <2> QED
      BY <2>1, <2>5, <2>6 DEF SeenOK
  <1>8. ListOK'
    BY <1>3 DEF ListOK, Query
  <1>9. CacheOK'
    BY <1>3, CacheStays DEF Query
  <1>10. ExactOK'
    <2> SUFFICES ASSUME disturbed = 0
                 PROVE  /\ Detections' \union Added(comp)' = Expected(comp)
                        /\ Detections' \intersect Added(comp)' = {}
                        /\ \A q, s \in found' : q[2] = s[2] => q = s
                        /\ \A c \in todo : c # comp => Added(c)' = {}
                        /\ \A c \in Component \ todo : Added(c)' = Expected(c)
                        /\ \A i, m \in DOMAIN packages' : packages'[i] = packages'[m] => i = m
      <3>1. \A c : Expected(c)' = Expected(c)
        BY <1>3, SameInstalled
      <3>2. Expected(comp)' = Expected(comp)
        BY <1>3, <3>1
      <3> QED
        BY <1>3, <3>1, <3>2 DEF ExactOK
    <2>1. /\ Detections \union Added(comp) = Expected(comp) /\ Detections \intersect Added(comp) = {}
          /\ \A q, s \in found : q[2] = s[2] => q = s
          /\ \A c \in todo : c # comp => Added(c) = {}
          /\ \A c \in Component \ todo : Added(c) = Expected(c)
          /\ \A i, m \in DOMAIN packages : packages[i] = packages[m] => i = m
      BY <1>3 DEF DiscoveryIInv, ExactOK
    <2>2. Added(comp)' = Added(comp) \union {p[2]}
      BY <1>3, <1>4 DEF Added
    <2>3. \A c : c # comp => Added(c)' = Added(c)
      BY <1>3, <1>4 DEF Added
    <2>4. Detections' = Detections \ {p[2]} /\ p[2] \in Detections
      BY <1>1, <2>1 DEF Detections
    <2>5. p[2] \notin Added(comp) /\ \A i \in DOMAIN packages : packages[i] # p[2]
      <3>1. p[2] \notin Added(comp)
        BY <2>1, <2>4
      <3> QED
        BY <1>3, <3>1 DEF Added
    <2>6. \A i, m \in DOMAIN packages' : packages'[i] = packages'[m] => i = m
      BY <1>4, <2>1, <2>5
    <2>7. /\ Detections' \union Added(comp)' = Expected(comp) /\ Detections' \intersect Added(comp)' = {}
      BY <2>1, <2>2, <2>4
    <2> QED
      BY <1>1, <1>3, <2>1, <2>3, <2>6, <2>7
  <1> QED
    BY <1>5, <1>6, <1>7, <1>8, <1>9, <1>10 DEF DiscoveryIInv

LEMMA RuleEndsInv ==
  ASSUME DiscoveryIInv, RuleEnds
  PROVE  DiscoveryIInv'
  <1>1. /\ DiscoveryTypeOK /\ phase = "detected" /\ phase' = "rules" /\ found = {}
        /\ todo' = todo \ {comp} /\ comp' = Nothing /\ configs' = {} /\ counted' = {}
        /\ UNCHANGED <<installed, cache, list, left, found, packages, disturbed, seen>>
        /\ products' = products /\ advertised' = advertised /\ registry' = registry
        /\ list = <<>> /\ left = {} /\ comp \in todo
    BY DEF RuleEnds, Go, DiscoveryIInv, DiscoveryTypeOK, PhaseOK, Search, Query, history, installed
  <1>2. DiscoveryTypeOK'
    BY <1>1 DEF DiscoveryTypeOK, Phases
  <1>3. PhaseOK'
    BY <1>1 DEF PhaseOK, Search, Query
  <1>4. SeenOK'
    <2>1. Here' \subseteq seen' /\ Finished' = {} /\ found' = {}
      BY <1>1, SameInstalled DEF DiscoveryIInv, SeenOK, Finished
    <2>2. /\ (\A i \in DOMAIN cache : Real(CompOf[cache[i].place], cache[i].ver))'
          /\ (\A i \in DOMAIN packages : Real(packages[i].comp, packages[i].ver))'
      BY <1>1 DEF DiscoveryIInv, SeenOK, Real
    <2> QED
      BY <1>1, <2>1, <2>2 DEF SeenOK
  <1>5. ListOK'
    BY <1>1 DEF ListOK, Query
  <1>6. CacheOK'
    BY <1>1, CacheStays DEF Query
  <1>7. ExactOK'
    <2>1. \A c : Added(c)' = Added(c) /\ Expected(c)' = Expected(c)
      BY <1>1, SameInstalled, SamePackages
    <2>2. disturbed = 0 => Added(comp) = Expected(comp)
      <3>1. Detections = {}
        BY <1>1 DEF Detections
      <3> QED
        BY <1>1, <3>1 DEF DiscoveryIInv, ExactOK
    <2> QED
      BY <1>1, <2>1, <2>2 DEF DiscoveryIInv, ExactOK
  <1> QED
    BY <1>2, <1>3, <1>4, <1>5, <1>6, <1>7 DEF DiscoveryIInv

LEMMA ReturnInventoryInv ==
  ASSUME DiscoveryIInv, ReturnInventory
  PROVE  DiscoveryIInv'
  <1>1. /\ DiscoveryTypeOK /\ phase' = "idle" /\ todo' = {} /\ comp' = Nothing /\ list' = <<>> /\ left' = {}
        /\ found' = {} /\ packages' = <<>> /\ cache' = <<>> /\ disturbed' = 0 /\ seen' = {}
        /\ UNCHANGED <<installed, configs, counted>>
        /\ products' = products /\ advertised' = advertised /\ registry' = registry
    BY DEF ReturnInventory, DiscoveryEnds, DiscoveryIInv, PhaseOK, Query, catalog, installed
  <1>2. DiscoveryTypeOK'
    BY <1>1, DiscoveryAssumption DEF DiscoveryTypeOK, Phases
  <1>3. PhaseOK' /\ ListOK' /\ CacheOK' /\ ExactOK'
    BY <1>1 DEF PhaseOK, ListOK, CacheOK, ExactOK, Search, Query
  <1>4. SeenOK'
    BY <1>1 DEF SeenOK, Finished
  <1> QED
    BY <1>2, <1>3, <1>4 DEF DiscoveryIInv

LEMMA ChangeInv ==
  ASSUME DiscoveryIInv, Change
  PROVE  DiscoveryIInv'
  <1>1. /\ DiscoveryTypeOK
        /\ UNCHANGED <<phase, cache, list, todo, comp, found, packages, configs, counted>>
    BY DEF Change, DiscoveryIInv, catalog
  <1>2. /\ products' \in [Place -> Version \union {Nothing}] /\ advertised' \subseteq Place
        /\ registry' \in [Component -> Version \union {Nothing}]
        /\ left' \subseteq Place
        /\ left' = left \/ (phase \in Query /\ left' \subseteq Listed(comp, Place))
    <2>1. CASE InstallerRuns
      <3>1. /\ products' \in [Place -> Version \union {Nothing}] /\ advertised' \subseteq Place
            /\ registry' = registry
        BY <1>1, <2>1 DEF InstallerRuns, DiscoveryTypeOK
      <3>2. left' = left \/ (phase \in Query /\ left' \subseteq Listed(comp, Place))
        <4>1. Present' \subseteq Place
          BY DEF Present
        <4>2. left' \in SUBSET Listed(comp, Present') \/ phase \notin Query
          BY <2>1 DEF InstallerRuns
        <4>3. phase \notin Query => left' = left
          BY <2>1 DEF InstallerRuns
        <4> QED
          BY <4>1, <4>2, <4>3 DEF Listed
      <3> QED
        BY <1>1, <3>1, <3>2 DEF DiscoveryTypeOK, Listed
    <2>2. CASE RegistryChanges
      BY <1>1, <2>2 DEF RegistryChanges, DiscoveryTypeOK
    <2> QED
      BY <2>1, <2>2 DEF Change
  <1>3. CASE phase = "idle"
    <2>1. disturbed' = disturbed /\ seen' = seen /\ left' = left
      BY <1>2, <1>3 DEF Change, history, Query
    <2>2. list = <<>> /\ found = {} /\ packages = <<>> /\ cache = <<>> /\ comp = Nothing
      BY <1>3 DEF DiscoveryIInv, PhaseOK, Query
    <2>3. DiscoveryTypeOK'
      BY <1>1, <1>2, <2>1 DEF DiscoveryTypeOK
    <2>4. PhaseOK'
      BY <1>1, <1>3, <2>1 DEF DiscoveryIInv, PhaseOK, Query, Search
    <2>5. SeenOK'
      BY <1>1, <1>3, <2>2 DEF SeenOK, Finished
    <2>6. ListOK' /\ CacheOK' /\ ExactOK'
      BY <1>1, <1>3 DEF ListOK, CacheOK, ExactOK, Query
    <2> QED
      BY <2>3, <2>4, <2>5, <2>6 DEF DiscoveryIInv
  <1>4. CASE phase # "idle"
    <2>1. /\ disturbed < Disturbances /\ disturbed' = disturbed + 1 /\ seen' = seen \union Here'
          /\ disturbed \in Nat
      BY <1>1, <1>4 DEF Change, Disturb, DiscoveryTypeOK
    <2>2. Here' \subseteq Component \X Version
      BY DEF Here
    <2>3. DiscoveryTypeOK'
      BY <1>1, <1>2, <2>1, <2>2, DiscoveryAssumption DEF DiscoveryTypeOK
    <2>4. PhaseOK'
      BY <1>1, <1>2, <1>4 DEF DiscoveryIInv, PhaseOK, Search
    <2>5. \A c, v : Real(c, v) => RealAfter(c, v)
      BY <2>1, RealStays
    <2>6. SeenOK'
      <3>1. /\ \A i \in Finished : Real(CompOf[list[i].place], list[i].ver)
            /\ \A i \in DOMAIN cache : Real(CompOf[cache[i].place], cache[i].ver)
            /\ \A q \in found : q[2].comp = comp /\ Real(q[2].comp, q[2].ver)
            /\ \A i \in DOMAIN packages : Real(packages[i].comp, packages[i].ver)
        BY DEF DiscoveryIInv, SeenOK
      <3>2. /\ \A i \in Finished : RealAfter(CompOf[list[i].place], list[i].ver)
            /\ \A i \in DOMAIN cache : RealAfter(CompOf[cache[i].place], cache[i].ver)
            /\ \A q \in found : q[2].comp = comp /\ RealAfter(q[2].comp, q[2].ver)
            /\ \A i \in DOMAIN packages : RealAfter(packages[i].comp, packages[i].ver)
        BY <2>5, <3>1
      <3>3. Finished' = Finished /\ PlacesIn(list)' = PlacesIn(list)
        BY <1>1 DEF Finished, PlacesIn
      <3>4. /\ (\A i \in Finished : Real(CompOf[list[i].place], list[i].ver))'
            /\ (\A i \in DOMAIN cache : Real(CompOf[cache[i].place], cache[i].ver))'
            /\ (\A q \in found : q[2].comp = comp /\ Real(q[2].comp, q[2].ver))'
            /\ (\A i \in DOMAIN packages : Real(packages[i].comp, packages[i].ver))'
        BY <1>1, <3>2, <3>3 DEF Real, RealAfter
      <3>5. comp # Nothing => \A q \in left' \union PlacesIn(list)' : CompOf[q] = comp
        BY <1>2, <3>3 DEF DiscoveryIInv, SeenOK, Listed
      <3> QED
        BY <1>1, <2>1, <3>4, <3>5 DEF SeenOK
    <2>7. ListOK' /\ CacheOK' /\ ExactOK'
      BY <2>1 DEF ListOK, CacheOK, ExactOK
    <2> QED
      BY <2>3, <2>4, <2>6, <2>7 DEF DiscoveryIInv
  <1> QED
    BY <1>3, <1>4

LEMMA DiscoveryNextInv == DiscoveryIInv /\ [DiscoveryNext]_discoveryVars => DiscoveryIInv'
  <1> SUFFICES ASSUME DiscoveryIInv, [DiscoveryNext]_discoveryVars
               PROVE  DiscoveryIInv'
    OBVIOUS
  <1>1. CASE DiscoverInstalledPackages \/ Change
    BY <1>1, BeginInv, ChangeInv
  <1>2. CASE NextProduct \/ ProductSkipped \/ QueryEnds \/ QueryState \/ QueryVersion
    BY <1>2, NextProductInv, ProductSkippedInv, QueryEndsInv, QueryStateInv, QueryVersionInv
  <1>3. CASE NextRule \/ DiscoverByMsiRules \/ DiscoverByRegistry \/ AddToInventory \/ RuleEnds \/ ReturnInventory
    BY <1>3, NextRuleInv, MsiRulesInv, RegistryInv, AddToInventoryInv, RuleEndsInv, ReturnInventoryInv
  <1>4. CASE UNCHANGED discoveryVars
    <2>1. /\ UNCHANGED <<installed, phase, cache, list, left, todo, comp, found, packages, configs, counted,
                         disturbed, seen>>
          /\ products' = products /\ advertised' = advertised /\ registry' = registry
      BY <1>4 DEF discoveryVars, search, catalog, history, installed
    <2>2. \A c : /\ Source(c)' = Source(c) /\ Shown(c)' = Shown(c) /\ Expected(c)' = Expected(c)
                 /\ Added(c)' = Added(c) /\ Right(c)' = Right(c) /\ Named(c)' = Named(c)
      BY <2>1, SameInstalled, SamePackages
    <2>3. DiscoveryTypeOK' /\ PhaseOK'
      BY <2>1 DEF DiscoveryIInv, DiscoveryTypeOK, PhaseOK, Query, Search
    <2>4. PlacesIn(list)' = PlacesIn(list) /\ Finished' = Finished /\ Detections' = Detections
          /\ Here' = Here /\ Current' = Current
      BY <2>1, SameInstalled DEF PlacesIn, Finished, Detections, Current
    <2>5. SeenOK'
      BY <2>1, <2>4 DEF DiscoveryIInv, SeenOK, Real
    <2>6. ListOK'
      BY <2>1, <2>2, <2>4 DEF DiscoveryIInv, ListOK, Query
    <2>7. CacheOK'
      BY <2>1, CacheStays DEF CacheOK, Query
    <2>8. ExactOK'
      BY <2>1, <2>2, <2>4 DEF DiscoveryIInv, ExactOK
    <2> QED
      BY <2>3, <2>5, <2>6, <2>7, <2>8 DEF DiscoveryIInv
  <1> QED
    BY <1>1, <1>2, <1>3, <1>4 DEF DiscoveryNext, Discovery

\* Every variable of the discovery has its type: the vectors, the indices left and the inventory of
\* MsiApi and PackageDiscovery stay what their callers take them for.
THEOREM DiscoveryTypeCorrect == DiscoverySpec => []DiscoveryTypeOK
  <1>1. DiscoveryIInv => DiscoveryTypeOK
    BY DEF DiscoveryIInv
  <1> QED
    BY <1>1, DiscoveryInitInv, DiscoveryNextInv, PTL DEF DiscoverySpec

\* The inventory that DiscoverInstalledPackages() returns never names a version that was not there,
\* has an empty one only after a change or a failed query, and is exactly what is installed, each
\* installation once and several of one component included, when neither happened.
THEOREM InventoryStaysTrue == DiscoverySpec => []InventoryIsTrue
  <1>1. DiscoveryIInv => InventoryIsTrue
    <2> SUFFICES ASSUME DiscoveryIInv, DiscoveryEnds
                 PROVE  /\ \A i \in DOMAIN packages :
                             \/ <<packages[i].comp, packages[i].ver>> \in seen
                             \/ packages[i].ver = Nothing /\ disturbed > 0
                        /\ disturbed = 0 =>
                             /\ {packages[i] : i \in DOMAIN packages} = UNION {Expected(c) : c \in Component}
                             /\ \A i, k \in DOMAIN packages : packages[i] = packages[k] => i = k
      BY DEF InventoryIsTrue
    <2>1. \A i \in DOMAIN packages : Real(packages[i].comp, packages[i].ver)
      BY DEF DiscoveryIInv, SeenOK
    <2>2. ASSUME disturbed = 0
          PROVE  /\ {packages[i] : i \in DOMAIN packages} = UNION {Expected(c) : c \in Component}
                 /\ \A i, k \in DOMAIN packages : packages[i] = packages[k] => i = k
      <3>1. /\ \A c \in Component : Added(c) = Expected(c)
            /\ \A i, k \in DOMAIN packages : packages[i] = packages[k] => i = k
        BY <2>2 DEF DiscoveryIInv, ExactOK, DiscoveryEnds
      <3>2. \A i \in DOMAIN packages : packages[i].comp \in Component
        <4>1. \A i \in DOMAIN packages : packages[i] \in Package
          BY DEF DiscoveryIInv, DiscoveryTypeOK
        <4> QED
          BY <4>1 DEF Package
      <3>3. {packages[i] : i \in DOMAIN packages} = UNION {Added(c) : c \in Component}
        BY <3>2 DEF Added
      <3> QED
        BY <3>1, <3>3
    <2> QED
      BY <2>1, <2>2 DEF Real
  <1> QED
    BY <1>1, DiscoveryInitInv, DiscoveryNextInv, PTL DEF DiscoverySpec

=============================================================================
