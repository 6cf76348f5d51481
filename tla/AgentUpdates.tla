---------------------------- MODULE AgentUpdates ----------------------------
(***************************************************************************)
(* The package manager in the agent installs what it has downloaded: one   *)
(* thread verifies a file, starts it, and waits for it.  An installer the  *)
(* agent no longer waits for goes on beside the calls that follow.         *)
(***************************************************************************)
EXTENDS Naturals

CONSTANTS Proc,     \* bound: the installer processes of the agent alive at once
          Polls,    \* how often UpdateMsi() asks for Windows Installer (30)
          None

ASSUME UpdatesAssumption == Polls \in Nat /\ None \notin Proc /\ "other" \notin Proc \union {None}

\* What a call starts: an installer of a package, or the program that deploys a configuration.
Job == {"exe", "msi", "config"}

VARIABLES
  msi,      \* the process that Windows Installer works for
  proc,     \* installer process -> what it is at
  at,       \* where the agent's thread is
  job,      \* what UpdateComponent() or DeployConfiguration() works on, or did last
  polls,    \* the times Windows Installer was asked
  mine,     \* the process this call has started
  result    \* of the last call

world == <<msi, proc>>
call  == <<job, polls, mine, result>>
vars  == <<world, at, call>>

Free        == [state |-> "free"]
Running(j)  == [state |-> "running", job |-> j]
Ended(j, c) == [state |-> "ended", job |-> j, code |-> c]

\* Exit codes: success, success but a reboot is required (3010) or initiated (1641), an error of
\* the installer, and another installation is in progress.
Reboot   == {3010, 1641}
ExitCode == {0, 1603} \union Reboot
Busy     == 1618

\* Every variable has its type.
TypeOK ==
  /\ msi \in Proc \union {None, "other"}
  /\ proc \in [Proc -> {Free} \union {Running(j) : j \in Job}
                       \union {Ended(j, c) : j \in Job, c \in ExitCode \union {Busy}}]
  /\ at \in {"idle", "poll", "sleep", "launch", "wait"}
  /\ job \in Job \union {None} /\ polls \in 0..Polls
  /\ mine \in Proc \union {None} /\ result \in {"none", "success", "reboot", "failure"}

Init ==
  /\ msi = None /\ proc = [i \in Proc |-> Free]
  /\ at = "idle" /\ job = None /\ polls = 0 /\ mine = None /\ result = "none"

(***************************************************************************)
(* CodesignVerifier.                                                       *)
(***************************************************************************)

CiscoSigner == {"Cisco Systems, Inc.", "CISCO SYSTEMS CANADA CO"}
Microsoft   == "Microsoft Corporation"
Signer      == CiscoSigner \union {Microsoft, "another"}

\* What Windows tells of a file: trusted with its signature, the common name in the certificate,
\* whether it has a countersignature from the time since KILLDATE, and whether a catalog lists it.
File == [trusted : BOOLEAN, name : Signer \union {""}, recent : BOOLEAN, listed : BOOLEAN]

\* A certificate without a common name is not compared.  Without a countersignature the
\* timestamp is 0, which is before KILLDATE.
VerifyByFile(file, signer) ==
  /\ file.trusted
  /\ file.name = "" \/ file.name = signer
  /\ signer \in CiscoSigner => file.recent

VerifyByCatalog(file, signer) == signer = Microsoft /\ file.listed

VerifyWithKilldate(file, signer) == VerifyByFile(file, signer) \/ VerifyByCatalog(file, signer)

(***************************************************************************)
(* UpdateComponent() and DeployConfiguration().                            *)
(***************************************************************************)

\* WindowsResultToPmInstallResult().
PmInstallResult(code) ==
  CASE code = 0 -> "success" [] code \in Reboot -> "reboot" [] OTHER -> "failure"

\* DeployConfiguration() returns the number itself.
Result(code) ==
  IF job = "config" /\ code # 0 THEN "failure" ELSE PmInstallResult(code)

\* The call is over; its process is remembered for a success only.
Return(res) ==
  /\ at' = "idle" /\ job' = job /\ polls' = 0 /\ result' = res
  /\ mine' = IF res = "failure" THEN None ELSE mine

\* What the handles of the call before stood for.
NoHandle == [i \in Proc |-> IF proc[i].state = "ended" THEN Free ELSE proc[i]]

\* Whether a call goes on to start something: unasked, when package or configuration names no
\* signer, and otherwise as the verifier answers about a file.
Verdicts ==
  {ok \in BOOLEAN : \E file \in File, signer \in Signer \union {""} :
                      ok = (signer = "" \/ VerifyWithKilldate(file, signer))}

StartCall(j, goesOn) ==
  /\ at = "idle" /\ job' = j /\ proc' = NoHandle /\ mine' = None /\ polls' = 0
  /\ \/ /\ goesOn /\ result' = "none"
        /\ at' = IF j = "msi" THEN "poll" ELSE "launch"
     \/ ~goesOn /\ result' = "failure" /\ at' = "idle"
  /\ UNCHANGED msi

\* The verifier is asked about the file that is started.  A type of installer other than these
\* two is refused, as a file is that the verifier rejects.
UpdateComponent == \E type \in {"exe", "msi"}, ok \in Verdicts : StartCall(type, ok)

\* The verifier is asked about verifyBinPath below installLocation, and verifyBinPath alone is
\* started: the answer is about another path, and decides no more than whether the call goes on.
DeployConfiguration == \E ok \in Verdicts : StartCall("config", ok)

\* The service of Windows Installer accepts nothing but a shutdown while it installs; a service
\* that cannot be asked counts as ready.
IsMsiServiceReadyForInstall == {TRUE, msi = None}

\* Mutant: the counter of the loop is left alone.
BugPollAgain(n) == n

NextPoll(n) == n + 1

\* Up to Polls times, ten seconds apart; then the installer is started all the same.  Without
\* the system directory there is no msiexec.exe to start.
UpdateMsi ==
  /\ at = "poll"
  /\ UNCHANGED world
  /\ \/ /\ polls < Polls /\ FALSE \in IsMsiServiceReadyForInstall
        /\ at' = "sleep" /\ polls' = NextPoll(polls) /\ UNCHANGED <<job, mine, result>>
     \/ /\ polls = Polls \/ TRUE \in IsMsiServiceReadyForInstall
        /\ at' = "launch" /\ UNCHANGED call
     \/ /\ polls = Polls \/ TRUE \in IsMsiServiceReadyForInstall
        /\ Return("failure")

Sleep == at = "sleep" /\ at' = "poll" /\ UNCHANGED <<world, call>>

RunPackage ==
  /\ at = "launch"
  /\ UNCHANGED msi
  /\ \/ \E i \in Proc :
          /\ proc[i].state = "free" /\ proc' = [proc EXCEPT ![i] = Running(job)]
          /\ mine' = i /\ at' = "wait" /\ UNCHANGED <<job, polls, result>>
     \/ Return("failure") /\ UNCHANGED proc

\* Mutant: what the wait returned is dropped, and the exit code is still 0.
BugExitCodeOnly == 0

\* WAIT_TIMEOUT after 300 seconds, or WAIT_FAILED.
WaitError == 258

InstallerHasEnded ==
  /\ at = "wait" /\ proc[mine].state = "ended"
  /\ \/ Return(Result(proc[mine].code))
     \/ Return("failure")             \* GetExitCodeProcess() fails
  /\ UNCHANGED world

\* The handles are closed; the installer goes on.
WaitEnds ==
  /\ at = "wait" /\ Return(Result(WaitError))
  /\ UNCHANGED world

(***************************************************************************)
(* Installers, Windows Installer and other programs.                       *)
(***************************************************************************)

\* A process nobody holds a handle of is gone when it ends.
End(i, code) ==
  proc' = [proc EXCEPT ![i] = IF i = mine /\ at = "wait" THEN Ended(@.job, code) ELSE Free]

IsMsi(i) == proc[i].state = "running" /\ proc[i].job = "msi"

\* Windows Installer serves one process at a time, and turns the others away.
BeginsMsi(i) ==
  /\ IsMsi(i) /\ msi # i
  /\ \/ msi = None /\ msi' = i /\ UNCHANGED proc
     \/ msi # None /\ End(i, Busy) /\ UNCHANGED msi
  /\ UNCHANGED <<at, call>>

InstallerEnds(i) ==
  /\ proc[i].state = "running"
  /\ \/ ~IsMsi(i) /\ UNCHANGED msi
     \/ msi = i /\ msi' = None
  /\ \E code \in ExitCode : End(i, code)
  /\ UNCHANGED <<at, call>>

\* Another program installs with Windows Installer.
OtherInstalls ==
  /\ \/ msi = None /\ msi' = "other"
     \/ msi = "other" /\ msi' = None
  /\ UNCHANGED <<proc, at, call>>

(***************************************************************************)
(* The specification.                                                      *)
(***************************************************************************)

Agent   == UpdateMsi \/ Sleep \/ RunPackage \/ InstallerHasEnded \/ WaitEnds
Windows == (\E i \in Proc : BeginsMsi(i) \/ InstallerEnds(i)) \/ OtherInstalls

Next == UpdateComponent \/ DeployConfiguration \/ Agent \/ Windows

\* The thread of the agent runs, and every wait of its own has an end.  Nothing is assumed of
\* installers: they may hang.
Fairness == WF_vars(Agent)

Spec == Init /\ [][Next]_vars /\ Fairness

(***************************************************************************)
(* Properties.                                                             *)
(***************************************************************************)

\* A success that is reported to the cloud is one: the process that this very call has started,
\* of its own kind, has ended with the exit code for it, whatever processes of earlier calls
\* still run or end meanwhile.  Only a package's installer asks for a reboot.
SuccessIsReal ==
  (at = "idle" /\ result \in {"success", "reboot"}) =>
     /\ mine # None /\ proc[mine].state = "ended" /\ proc[mine].job = job
     /\ PmInstallResult(proc[mine].code) = result
     /\ result = "reboot" => job # "config"

\* Every call returns, although installers hang and Windows Installer stays busy.
CallsReturn == at # "idle" ~> at = "idle"
=============================================================================
