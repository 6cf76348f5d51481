---------------------------- MODULE Diagnostics ----------------------------
(***************************************************************************)
(* csc_cmdt.exe, the diagnostic tool.  The user starts it to collect files *)
(* into an archive on the desktop or into a directory, several at a time   *)
(* if he likes; without the rights it starts itself again and asks for     *)
(* them.  The agent starts it to announce a reboot.  The processes meet at *)
(* the files they name after the clock.                                    *)
(*                                                                         *)
(* With -o the user names the archive himself; that is left out.           *)
(***************************************************************************)
EXTENDS Toast

CONSTANTS User,      \* whoever is the parent of a tool that is not started by a tool
          File,      \* what GetFileList() lists: what it finds, the own log, the manifest
          MaxTime    \* bound: seconds of the clock

ASSUME DiagAssumption ==
  /\ User \notin Tool /\ MaxTime \in Nat \ {0}

\* What rand() gives first after srand(time) is another number for every second of so short a
\* time: 20069 s is the shortest after which one comes back.
ASSUME RandAssumption == MaxTime < 20069

VARIABLES
  now,      \* time(NULL)
  pc,       \* where each process is
  job,      \* "package" without option, "files" for -d, "reboot" for --notifyreboot
  parent,   \* who started it
  rights,   \* processes that are elevated, or were told -u
  misled,   \* history: those that saw another process under the number of their parent
  second,   \* the second that named the archive
  there,    \* the archives that exist, by their names
  zip,      \* their entries <<process, file>>
  writing,  \* processes that have their archive open
  output    \* what a process has extracted into its directory

toolVars == <<pc, job, parent, rights, misled>>
fileVars == <<second, there, zip, writing, output>>
vars     == <<now, toolVars, fileVars, toastVars>>

Job   == {"package", "files", "reboot"}
Entry == Tool \X File
Pcs   == {"new", "main", "waiting", "create", "add", "close", "extract", "remove",
          "toast", "send", "sleep", "ended"}
Names == {"package", "files"} \X (1 .. MaxTime)

\* Every variable has its type.
TypeOK ==
  /\ now \in 1 .. MaxTime /\ pc \in [Tool -> Pcs] /\ job \in [Tool -> Job]
  /\ parent \in [Tool -> Tool \union {User}]
  /\ rights \subseteq Tool /\ misled \subseteq Tool /\ writing \subseteq Tool
  /\ second \in [Tool -> 0 .. MaxTime]
  /\ there \subseteq Names /\ zip \in [Names -> SUBSET Entry] /\ output \in [Tool -> SUBSET Entry]
  /\ ToastTypeOK

Init ==
  /\ now = 1 /\ pc = [t \in Tool |-> "new"] /\ job = [t \in Tool |-> "reboot"]
  /\ parent = [t \in Tool |-> User] /\ rights = {} /\ misled = {}
  /\ second = [t \in Tool |-> 0]
  /\ there = {} /\ zip = [n \in Names |-> {}] /\ writing = {}
  /\ output = [t \in Tool |-> {}]
  /\ ToastInit

At(t, from, to) == pc[t] = from /\ pc' = [pc EXCEPT ![t] = to]

Running(t) == pc[t] \notin {"new", "ended"}

Tick == now < MaxTime /\ now' = now + 1 /\ UNCHANGED <<toolVars, fileVars, toastVars>>

(***************************************************************************)
(* How a tool is started.                                                  *)
(***************************************************************************)

\* A process starts with what its command line asks for and the rights it gets; the
\* archive is named in the second in which wmain() gets that far.
Starts(t, j, p, r) ==
  /\ pc[t] = "new"
  /\ job' = [job EXCEPT ![t] = j] /\ parent' = [parent EXCEPT ![t] = p]
  /\ rights' = IF r THEN rights \union {t} ELSE rights

UserStarts(t) ==
  /\ \E j \in {"package", "files"}, r \in BOOLEAN : Starts(t, j, User, r)
  /\ pc' = [pc EXCEPT ![t] = "main"]
  /\ UNCHANGED <<now, misled, fileVars, toastVars>>

\* NotifySystemRestart() of the agent runs the tool in every session; a session in which
\* it cannot be started does not keep the others from it.
NotifySystemRestart ==
  /\ \E s \in SUBSET {t \in Tool : pc[t] = "new"} :
       /\ s # {}
       /\ job' = [t \in Tool |-> IF t \in s THEN "reboot" ELSE job[t]]
       /\ pc' = [t \in Tool |-> IF t \in s THEN "main" ELSE pc[t]]
  /\ UNCHANGED <<now, parent, rights, misled, fileVars, toastVars>>

(***************************************************************************)
(* RunElevated().                                                          *)
(***************************************************************************)

\* What GetProcessName() finds under the number of t's parent: nothing when it may not look
\* or the parent has ended, another program when Windows has given the number away.
NameOfParent(t) ==
  {"fails"} \union IF parent[t] = User \/ ~Running(parent[t]) THEN {"other"} ELSE {"csc_cmdt"}

\* Mutant: the name of the parent is not looked at.
BugNoNameCheck(name) == name \in {"other", "csc_cmdt"}

\* The parent is not the tool: try to get the rights.
MayElevate(name) == name = "other"

ElevationFailed(t) == At(t, "main", "toast") /\ UNCHANGED <<job, parent, rights>>

\* ShellExecuteEx() with "runas": the user agrees, and a process with the same arguments
\* starts, with the rights or, on some systems, without them; or he does not.
ShellExecute(t) ==
  \/ At(t, "main", "ended") /\ UNCHANGED <<job, parent, rights>>
  \/ \E c \in Tool, r \in BOOLEAN :
       /\ c # t /\ Starts(c, job[t], t, r)
       /\ pc' = [pc EXCEPT ![t] = "waiting", ![c] = "main"]

RunElevated(t) ==
  /\ pc[t] = "main" /\ job[t] # "reboot" /\ t \notin rights
  /\ \E name \in NameOfParent(t) :
       /\ misled' = IF name = "other" /\ parent[t] # User THEN misled \union {t} ELSE misled
       /\ \/ name = "fails" /\ At(t, "main", "ended") /\ UNCHANGED <<job, parent, rights>>
          \/ MayElevate(name) /\ ShellExecute(t)
          \/ name # "fails" /\ ~MayElevate(name) /\ ElevationFailed(t)
  /\ UNCHANGED <<now, fileVars, toastVars>>

\* WaitForSingleObject() ends with the child or after 5 s.
WaitEnds(t) == At(t, "waiting", "ended")
               /\ UNCHANGED <<now, job, parent, rights, misled, fileVars, toastVars>>

(***************************************************************************)
(* Collecting the files.                                                   *)
(***************************************************************************)

Keep == UNCHANGED <<now, job, parent, rights, misled, toastVars>>

\* Mutant: one name for all temporary archives.
BugOneName(t) == <<job[t], 1>>

\* The name is made of the second, directly or by way of srand(): in both directories
\* tools of one second share the archive.
Archive(t) == <<job[t], second[t]>>

Begin(t) ==
  /\ job[t] # "reboot" /\ t \in rights
  /\ At(t, "main", "create") /\ second' = [second EXCEPT ![t] = now]
  /\ UNCHANGED <<there, zip, writing, output>> /\ Keep

\* What of the list gets into the archive.  GetFileList() goes on without the directories
\* that are not registered or cannot be searched, and without a manifest that cannot be
\* written; CreatePackage() without the files that cannot be read or stored.
Stored(t) == {{t} \X files : files \in SUBSET File}

\* After CreateDiagnosticPackage(), which swallows what it catches.
AfterPackage(t) == IF job[t] = "files" THEN "extract" ELSE "ended"

\* zipOpen2() with APPEND_STATUS_CREATE empties the file.
CreateArchiveFile(t) ==
  \/ /\ At(t, "create", "add")
     /\ there' = there \union {Archive(t)} /\ zip' = [zip EXCEPT ![Archive(t)] = {}]
     /\ writing' = writing \union {t}
     /\ UNCHANGED <<second, output>> /\ Keep
  \/ At(t, "create", AfterPackage(t)) /\ UNCHANGED fileVars /\ Keep

AddFileToArchive(t) ==
  /\ At(t, "add", "close")
  /\ \E entries \in Stored(t) : zip' = [zip EXCEPT ![Archive(t)] = @ \union entries]
  /\ UNCHANGED <<second, there, writing, output>> /\ Keep

CloseArchiveFile(t) ==
  /\ At(t, "close", AfterPackage(t)) /\ writing' = writing \ {t}
  /\ UNCHANGED <<second, there, zip, output>> /\ Keep

\* Entries of the archive get into the directory: all of them, unless a file cannot be
\* written or unzGoToNextFile() fails, which goes for a success, or something else fails,
\* which throws.
ExtractArchive(t) ==
  \/ /\ Archive(t) \in there
     /\ \E entries \in SUBSET zip[Archive(t)], to \in {"remove", "ended"} :
          /\ output' = [output EXCEPT ![t] = entries]
          /\ At(t, "extract", to)
     /\ UNCHANGED <<second, there, zip, writing>> /\ Keep
  \/ At(t, "extract", "ended") /\ UNCHANGED fileVars /\ Keep

\* A file that another process has open cannot be removed.
RemoveArchive(t) ==
  \/ /\ At(t, "remove", "ended")
     /\ \A w \in writing : Archive(w) # Archive(t)
     /\ there' = there \ {Archive(t)} /\ zip' = [zip EXCEPT ![Archive(t)] = {}]
     /\ UNCHANGED <<second, writing, output>> /\ Keep
  \/ At(t, "remove", "ended") /\ UNCHANGED fileVars /\ Keep

(***************************************************************************)
(* SendToast().                                                            *)
(***************************************************************************)

KeepFiles == UNCHANGED <<now, job, parent, rights, misled, fileVars>>

SendToast(t) ==
  \/ job[t] = "reboot" /\ At(t, "main", "send") /\ NewPlugin(t) /\ KeepFiles
  \/ At(t, "toast", "send") /\ NewPlugin(t) /\ KeepFiles
  \/ At(t, "send", "sleep") /\ SendToastNotification(t) /\ KeepFiles
  \/ At(t, "sleep", "ended") /\ DeletePlugin(t) /\ KeepFiles

ToastEvent(t) == \E e \in Event : Invoke(t, e) /\ KeepFiles /\ UNCHANGED pc

\* A process may end at any point: the archive stays as it is, Windows forgets its toast.
Killed(t) ==
  /\ Running(t) /\ pc' = [pc EXCEPT ![t] = "ended"]
  /\ writing' = writing \ {t}
  /\ plugin' = plugin \ {t} /\ toast' = toast \ {t} /\ shown' = shown \ {t}
  /\ tokens' = tokens \ All(t) /\ listening' = listening \ All(t)
  /\ UNCHANGED <<now, job, parent, rights, misled, second, there, zip, output>>

Collect(t) ==
  \/ Begin(t) \/ CreateArchiveFile(t) \/ AddFileToArchive(t)
  \/ CloseArchiveFile(t) \/ ExtractArchive(t) \/ RemoveArchive(t)

Next ==
  \/ \E t \in Tool : \/ UserStarts(t) \/ RunElevated(t) \/ WaitEnds(t)
                     \/ Collect(t) \/ SendToast(t) \/ ToastEvent(t) \/ Killed(t)
  \/ NotifySystemRestart \/ Tick

Spec == Init /\ [][Next]_vars

(***************************************************************************)
(* Properties.                                                             *)
(***************************************************************************)

\* A tool that was started for its rights and did not get them does not start a third one:
\* the user is asked once, unless Windows gave the number of the first process away.
RelaunchedOnce ==
  \A t \in Tool : parent[t] # User /\ parent[parent[t]] # User => parent[t] \in misled

\* A directory gets files from another process only if both named their archives in the same
\* second: neither one that works at the same time nor one that left its archive behind
\* mixes with it otherwise.
NoForeignFiles == \A t \in Tool : \A e \in output[t] : second[e[1]] = second[t]
=============================================================================
