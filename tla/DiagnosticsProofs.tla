-------------------------- MODULE DiagnosticsProofs --------------------------
(***************************************************************************)
(* The user is asked once, directories get no foreign files and plugins    *)
(* leave no registration, whatever the number of tools, files and seconds. *)
(***************************************************************************)
EXTENDS Diagnostics, TLAPS

\* A process that has not started has no child, and the user is none.
ChildrenOK == \A t, u \in Tool : parent[u] = t => pc[t] # "new"

\* Where a process knows the name of its archive.
Named == {"create", "add", "close", "extract", "remove"}

\* The name is made once, before anything is written, and what is in an archive was written
\* by processes of its second.
NamesOK ==
  \A t \in Tool : pc[t] \in Named => job[t] \in {"package", "files"} /\ second[t] \in 1 .. MaxTime
ArchivesOK ==
  /\ \A n \in Names : \A e \in zip[n] : pc[e[1]] \notin {"new", "main"} /\ second[e[1]] = n[2]
  /\ \A t \in Tool : \A e \in output[t] : pc[e[1]] \notin {"new", "main"}
  /\ \A t \in Tool : pc[t] \in {"new", "main"} => output[t] = {}

\* The inductive invariant.
IInv == /\ TypeOK /\ ChildrenOK /\ RelaunchedOnce
        /\ NamesOK /\ ArchivesOK /\ NoForeignFiles /\ NoStrayHandler

\* What a step says of processes and of files is independent of toasts.
ProcInv == ChildrenOK /\ RelaunchedOnce
FileInv == NamesOK /\ ArchivesOK /\ NoForeignFiles

USE DiagAssumption

LEMMA InitInv == Init => IInv
  BY DEF Init, IInv, TypeOK, ToastTypeOK, ToastInit, ChildrenOK, RelaunchedOnce, NamesOK, Named,
         ArchivesOK, NoForeignFiles, NoStrayHandler, Pcs, Job, Names

(***************************************************************************)
(* Toasts.                                                                 *)
(***************************************************************************)

LEMMA UpToIsEvents == \A n \in 0 .. 3 : UpTo(n) \subseteq Event
  BY DEF UpTo, Events, Event

\* After resetToast() Windows has nothing of this process.
LEMMA ResetRemoves ==
  ASSUME ToastTypeOK, NoStrayHandler, NEW t \in Tool
  PROVE  Removed(t) = listening \ All(t)
  BY DEF Removed, All, NoStrayHandler, ToastTypeOK

LEMMA SendInv ==
  ASSUME ToastTypeOK, NoStrayHandler, NEW t \in Tool, SendToastNotification(t)
  PROVE  ToastTypeOK' /\ NoStrayHandler'
  <1> USE ResetRemoves
  <1>1. CASE NotCreated(t)
    BY <1>1 DEF NotCreated, toastVars, ToastTypeOK, NoStrayHandler
  <1>2. CASE OnlyReset(t)
    BY <1>2 DEF OnlyReset, ResetToast, All, ToastTypeOK, NoStrayHandler
  <1>3. CASE CreateToast(t)
    <2>1. PICK n \in 0 .. 3 :
            /\ t \in plugin /\ toast' = toast \union {t}
            /\ listening' = (listening \ All(t)) \union ({t} \X UpTo(n))
            /\ tokens' = (tokens \ All(t)) \union ({t} \X UpTo(n))
            /\ shown' \in {shown, shown \union {t}}
            /\ plugin' = plugin
      BY <1>3 DEF CreateToast
    <2>2. UpTo(n) \subseteq Event
      BY UpToIsEvents
    <2>3. ToastTypeOK'
      BY <2>1, <2>2 DEF ToastTypeOK
    <2>4. NoStrayHandler'
      BY <2>1, <2>2 DEF NoStrayHandler, ToastTypeOK, All
    <2> QED
      BY <2>3, <2>4
  <1> QED
    BY <1>1, <1>2, <1>3 DEF SendToastNotification

LEMMA DeleteInv ==
  ASSUME ToastTypeOK, NoStrayHandler, NEW t \in Tool, DeletePlugin(t)
  PROVE  ToastTypeOK' /\ NoStrayHandler'
  BY ResetRemoves DEF DeletePlugin, ResetToast, All, ToastTypeOK, NoStrayHandler

\* The toasts, whatever happens.
LEMMA ToastStep ==
  ASSUME IInv, [Next]_vars
  PROVE  ToastTypeOK' /\ NoStrayHandler'
  <1>0. ToastTypeOK /\ NoStrayHandler
    BY DEF IInv, TypeOK
  <1>1. CASE UNCHANGED toastVars
    BY <1>0, <1>1 DEF toastVars, ToastTypeOK, NoStrayHandler
  <1>2. ASSUME NEW t \in Tool, SendToast(t)
        PROVE  ToastTypeOK' /\ NoStrayHandler'
    <2>1. CASE NewPlugin(t)
      BY <1>0, <2>1 DEF NewPlugin, ToastTypeOK, NoStrayHandler
    <2>2. CASE SendToastNotification(t)
      BY <1>0, <2>2, SendInv
    <2>3. CASE DeletePlugin(t)
      BY <1>0, <2>3, DeleteInv
    <2> QED
      BY <1>2, <2>1, <2>2, <2>3 DEF SendToast
  <1>3. ASSUME NEW t \in Tool, ToastEvent(t) \/ Killed(t)
        PROVE  ToastTypeOK' /\ NoStrayHandler'
    BY <1>0, <1>3 DEF ToastEvent, Invoke, Killed, All, ToastTypeOK, NoStrayHandler
  <1>4. ASSUME NEW t \in Tool, UserStarts(t) \/ RunElevated(t) \/ WaitEnds(t) \/ Collect(t)
        PROVE  UNCHANGED toastVars
    BY <1>4 DEF UserStarts, RunElevated, WaitEnds, Collect, Begin, CreateArchiveFile,
                AddFileToArchive, CloseArchiveFile, ExtractArchive, RemoveArchive, Keep
  <1>5. NotifySystemRestart \/ Tick => UNCHANGED toastVars
    BY DEF NotifySystemRestart, Tick
  <1>6. CASE UNCHANGED vars
    BY <1>1, <1>6 DEF vars
  <1> QED
    BY <1>1, <1>2, <1>3, <1>4, <1>5, <1>6 DEF Next

(***************************************************************************)
(* Processes.                                                              *)
(***************************************************************************)

\* Most steps move one process on and leave alone who started whom.
LEMMA MoveInv ==
  ASSUME IInv, NEW t \in Tool, pc[t] # "new", NEW to \in Pcs \ {"new"},
         pc' = [pc EXCEPT ![t] = to], UNCHANGED <<parent, misled>>
  PROVE  ProcInv'
  BY DEF IInv, TypeOK, ProcInv, ChildrenOK, RelaunchedOnce

LEMMA RunElevatedInv ==
  ASSUME IInv, NEW t \in Tool, RunElevated(t)
  PROVE  ProcInv'
  <1>0. pc[t] = "main" /\ pc \in [Tool -> Pcs] /\ parent \in [Tool -> Tool \union {User}]
    BY DEF RunElevated, IInv, TypeOK
  <1>1. PICK name \in NameOfParent(t) :
          /\ misled' = IF name = "other" /\ parent[t] # User THEN misled \union {t} ELSE misled
          /\ \/ name = "fails" /\ At(t, "main", "ended") /\ UNCHANGED <<job, parent, rights>>
             \/ MayElevate(name) /\ ShellExecute(t)
             \/ name # "fails" /\ ~MayElevate(name) /\ ElevationFailed(t)
    BY DEF RunElevated
  <1>2. CASE UNCHANGED parent /\ (\E to \in {"ended", "toast"} : At(t, "main", to))
    BY <1>0, <1>1, <1>2 DEF At, IInv, ProcInv, ChildrenOK, RelaunchedOnce
  <1>3. ASSUME name = "other", NEW c \in Tool, c # t, pc[c] = "new",
               parent' = [parent EXCEPT ![c] = t],
               pc' = [pc EXCEPT ![t] = "waiting", ![c] = "main"]
        PROVE  ProcInv'
    <2>1. ChildrenOK'
      BY <1>0, <1>3 DEF IInv, ChildrenOK
    <2>2. \A u \in Tool : parent[u] # c
      BY <1>3 DEF IInv, ChildrenOK
    <2>3. parent[t] # User => t \in misled'
      BY <1>1, <1>3
    <2>4. misled \subseteq misled'
      BY <1>1
    <2>5. RelaunchedOnce'
      BY <1>0, <1>3, <2>2, <2>3, <2>4 DEF IInv, RelaunchedOnce
    <2> QED
      BY <2>1, <2>5 DEF ProcInv
  <1> QED
    BY <1>1, <1>2, <1>3 DEF MayElevate, ShellExecute, Starts, ElevationFailed, At

LEMMA ProcStep ==
  ASSUME IInv, [Next]_vars
  PROVE  ProcInv'
  <1>1. ASSUME NEW t \in Tool, UserStarts(t)
        PROVE  ProcInv'
    <2>1. pc' = [pc EXCEPT ![t] = "main"] /\ parent' = [parent EXCEPT ![t] = User]
          /\ misled' = misled
      BY <1>1 DEF UserStarts, Starts
    <2> QED
      BY <2>1 DEF IInv, TypeOK, ProcInv, ChildrenOK, RelaunchedOnce
  <1>2. ASSUME NEW t \in Tool, RunElevated(t)
        PROVE  ProcInv'
    BY <1>2, RunElevatedInv
  <1>3. ASSUME NEW t \in Tool, WaitEnds(t) \/ Collect(t) \/ SendToast(t)
        PROVE  ProcInv'
    <2>1. /\ UNCHANGED <<parent, misled>>
          /\ \E to \in Pcs \ {"new"} : pc[t] # "new" /\ pc' = [pc EXCEPT ![t] = to]
      BY <1>3, Zenon DEF WaitEnds, Collect, Begin, CreateArchiveFile, AddFileToArchive,
           CloseArchiveFile, ExtractArchive, RemoveArchive, SendToast, At, Keep, KeepFiles,
           AfterPackage, Pcs
    <2> QED
      BY <2>1, MoveInv
  <1>4. ASSUME NEW t \in Tool, ToastEvent(t)
        PROVE  ProcInv'
    BY <1>4 DEF ToastEvent, KeepFiles, IInv, ProcInv, ChildrenOK, RelaunchedOnce
  <1>5. ASSUME NEW t \in Tool, Killed(t)
        PROVE  ProcInv'
    BY <1>5, MoveInv DEF Killed, Running, Pcs
  <1>6. CASE NotifySystemRestart
    BY <1>6 DEF NotifySystemRestart, IInv, TypeOK, ProcInv, ChildrenOK, RelaunchedOnce
  <1>7. CASE Tick \/ UNCHANGED vars
    BY <1>7 DEF Tick, vars, toolVars, IInv, ProcInv, ChildrenOK, RelaunchedOnce
  <1> QED
    BY <1>1, <1>2, <1>3, <1>4, <1>5, <1>6, <1>7 DEF Next

(***************************************************************************)
(* Files.                                                                  *)
(***************************************************************************)

\* A step that leaves the files alone: processes may start, end, go on with their archive,
\* and keep their job.
LEMMA QuietInv ==
  ASSUME IInv, UNCHANGED fileVars,
         \A u \in Tool :
            \/ pc'[u] = pc[u] /\ (pc[u] = "new" \/ job'[u] = job[u])
            \/ pc[u] = "new" /\ pc'[u] = "main"
            \/ /\ pc[u] # "new" /\ job'[u] = job[u]
               /\ pc'[u] \notin {"new", "main"} /\ (pc'[u] \in Named => pc[u] \in Named)
  PROVE  FileInv'
  <1>1. NamesOK'
    BY DEF IInv, NamesOK, fileVars, Named
  <1>2. ArchivesOK'
    <2>1. \A u \in Tool : pc[u] \notin {"new", "main"} => pc'[u] \notin {"new", "main"}
      BY DEF Named
    <2>2. \A n \in Names : \A e \in zip[n] : e[1] \in Tool
      BY DEF IInv, TypeOK, Entry
    <2>3. \A t \in Tool : \A e \in output[t] : e[1] \in Tool
      BY DEF IInv, TypeOK, Entry
    <2> QED
      BY <2>1, <2>2, <2>3 DEF IInv, ArchivesOK, fileVars
  <1>3. NoForeignFiles'
    BY DEF IInv, NoForeignFiles, fileVars
  <1> QED
    BY <1>1, <1>2, <1>3 DEF FileInv

LEMMA ArchiveIsNamed ==
  ASSUME IInv, NEW t \in Tool, pc[t] \in Named
  PROVE  Archive(t) \in Names /\ Archive(t)[2] = second[t]
  BY DEF IInv, NamesOK, Archive, Names

LEMMA BeginInv ==
  ASSUME IInv, NEW t \in Tool, Begin(t)
  PROVE  FileInv'
  <1>1. /\ pc[t] = "main" /\ pc' = [pc EXCEPT ![t] = "create"] /\ job' = job
        /\ second' = [second EXCEPT ![t] = now] /\ zip' = zip /\ output' = output
        /\ job[t] \in {"package", "files"}
    BY DEF Begin, At, Keep, IInv, TypeOK, Job
  <1>2. NamesOK'
    BY <1>1 DEF IInv, TypeOK, NamesOK, Named
  <1>3. ArchivesOK'
    <2>1. \A n \in Names : \A e \in zip[n] : e[1] \in Tool /\ e[1] # t
      BY <1>1 DEF IInv, TypeOK, Entry, ArchivesOK
    <2>2. \A u \in Tool : \A e \in output[u] : e[1] \in Tool /\ e[1] # t
      BY <1>1 DEF IInv, TypeOK, Entry, ArchivesOK
    <2> QED
      BY <1>1, <2>1, <2>2 DEF IInv, TypeOK, ArchivesOK
  <1>4. NoForeignFiles'
    <2>1. \A u \in Tool : \A e \in output[u] : e[1] \in Tool /\ e[1] # t /\ u # t
      BY <1>1 DEF IInv, TypeOK, Entry, ArchivesOK
    <2> QED
      BY <1>1, <2>1 DEF IInv, TypeOK, NoForeignFiles
  <1> QED
    BY <1>2, <1>3, <1>4 DEF FileInv

\* The archive gets other entries, all of them written by this process or there before.
LEMMA WriteInv ==
  ASSUME IInv, NEW t \in Tool, pc[t] \in Named, NEW to \in Named \union {"ended"},
         pc' = [pc EXCEPT ![t] = to], job' = job, second' = second, output' = output,
         NEW new, new \subseteq zip[Archive(t)] \union ({t} \X File),
         zip' = [zip EXCEPT ![Archive(t)] = new]
  PROVE  FileInv'
  <1>1. Archive(t) \in Names /\ Archive(t)[2] = second[t]
    BY ArchiveIsNamed
  <1>2. NamesOK'
    BY DEF IInv, TypeOK, NamesOK, Named
  <1>3. \A n \in Names : \A e \in zip'[n] :
           e[1] \in Tool /\ pc[e[1]] \notin {"new", "main"} /\ second[e[1]] = n[2]
    <2> SUFFICES ASSUME NEW n \in Names, NEW e \in zip'[n]
                 PROVE  e[1] \in Tool /\ pc[e[1]] \notin {"new", "main"} /\ second[e[1]] = n[2]
      OBVIOUS
    <2>1. zip \in [Names -> SUBSET Entry]
      BY DEF IInv, TypeOK
    <2>2. CASE e \in zip[n]
      BY <2>1, <2>2 DEF IInv, ArchivesOK, Entry
    <2>3. CASE e \in {t} \X File /\ n = Archive(t)
      BY <2>3, <1>1 DEF Named
    <2> QED
      BY <2>1, <2>2, <2>3, <1>1
  <1>4. ArchivesOK'
    <2>1. \A u \in Tool : pc[u] \notin {"new", "main"} => pc'[u] \notin {"new", "main"}
      BY DEF IInv, TypeOK, Named
    <2>2. \A u \in Tool : pc'[u] \in {"new", "main"} => pc[u] \in {"new", "main"}
      BY DEF IInv, TypeOK, Named
    <2>3. \A u \in Tool : \A e \in output[u] : e[1] \in Tool
      BY DEF IInv, TypeOK, Entry
    <2> QED
      BY <1>3, <2>1, <2>2, <2>3 DEF IInv, ArchivesOK
  <1>5. NoForeignFiles'
    BY DEF IInv, NoForeignFiles
  <1> QED
    BY <1>2, <1>4, <1>5 DEF FileInv

LEMMA ExtractInv ==
  ASSUME IInv, NEW t \in Tool, pc[t] = "extract", NEW to \in {"remove", "ended"},
         pc' = [pc EXCEPT ![t] = to], job' = job, second' = second, zip' = zip,
         NEW entries \in SUBSET zip[Archive(t)], output' = [output EXCEPT ![t] = entries]
  PROVE  FileInv'
  <1>1. Archive(t) \in Names /\ Archive(t)[2] = second[t]
    BY ArchiveIsNamed DEF Named
  <1>2. NamesOK'
    BY DEF IInv, TypeOK, NamesOK, Named
  <1>3. \A e \in entries : e[1] \in Tool /\ pc[e[1]] \notin {"new", "main"} /\ second[e[1]] = second[t]
    BY <1>1 DEF IInv, TypeOK, Entry, ArchivesOK
  <1>4. \A u \in Tool : \A e \in output'[u] :
           e[1] \in Tool /\ pc[e[1]] \notin {"new", "main"} /\ second[e[1]] = second[u]
    BY <1>3 DEF IInv, TypeOK, Entry, ArchivesOK, NoForeignFiles
  <1>5. ArchivesOK'
    <2>1. \A u \in Tool : pc[u] \notin {"new", "main"} => pc'[u] \notin {"new", "main"}
      BY DEF IInv, TypeOK
    <2>2. \A n \in Names : \A e \in zip[n] : e[1] \in Tool
      BY DEF IInv, TypeOK, Entry
    <2>3. \A u \in Tool : pc'[u] \in {"new", "main"} => u # t /\ pc[u] \in {"new", "main"}
      BY DEF IInv, TypeOK
    <2> QED
      BY <1>4, <2>1, <2>2, <2>3 DEF IInv, TypeOK, ArchivesOK
  <1>6. NoForeignFiles'
    BY <1>4 DEF NoForeignFiles
  <1> QED
    BY <1>2, <1>5, <1>6 DEF FileInv

LEMMA CollectInv ==
  ASSUME IInv, NEW t \in Tool, Collect(t)
  PROVE  FileInv'
  <1>1. CASE Begin(t)
    BY <1>1, BeginInv
  <1>2. CASE CreateArchiveFile(t)
    <2>1. CASE pc' = [pc EXCEPT ![t] = "add"] /\ zip' = [zip EXCEPT ![Archive(t)] = {}]
               /\ UNCHANGED <<second, output, job>> /\ pc[t] = "create"
      BY <2>1, WriteInv DEF Named
    <2>2. CASE UNCHANGED fileVars /\ At(t, "create", AfterPackage(t)) /\ job' = job
      BY <2>2, QuietInv DEF At, AfterPackage, IInv, TypeOK, Named
    <2> QED
      BY <1>2, <2>1, <2>2 DEF CreateArchiveFile, At, Keep
  <1>3. CASE AddFileToArchive(t)
    <2>1. PICK files \in SUBSET File :
            /\ zip' = [zip EXCEPT ![Archive(t)] = @ \union ({t} \X files)]
            /\ pc' = [pc EXCEPT ![t] = "close"] /\ pc[t] = "add"
            /\ UNCHANGED <<second, output, job>>
      BY <1>3 DEF AddFileToArchive, Stored, At, Keep
    <2>2. zip[Archive(t)] \union ({t} \X files) \subseteq zip[Archive(t)] \union ({t} \X File)
      OBVIOUS
    <2> QED
      BY <2>1, <2>2, WriteInv DEF Named
  <1>4. CASE CloseArchiveFile(t)
    <2>1. /\ pc[t] = "close" /\ pc' = [pc EXCEPT ![t] = AfterPackage(t)]
          /\ UNCHANGED <<second, zip, output, job>>
      BY <1>4 DEF CloseArchiveFile, At, Keep
    <2>2. zip \in [Names -> SUBSET Entry] /\ Archive(t) \in Names
      BY <2>1, ArchiveIsNamed DEF IInv, TypeOK, Named
    <2>3. zip' = [zip EXCEPT ![Archive(t)] = zip[Archive(t)]]
      BY <2>1, <2>2
    <2>4. AfterPackage(t) \in Named \union {"ended"} /\ pc[t] \in Named
      BY <2>1 DEF AfterPackage, Named
    <2> QED
      BY <2>1, <2>3, <2>4, WriteInv
  <1>5. CASE ExtractArchive(t)
    <2>1. CASE /\ pc[t] = "extract" /\ UNCHANGED <<second, zip, job>>
               /\ \E entries \in SUBSET zip[Archive(t)], to \in {"remove", "ended"} :
                    output' = [output EXCEPT ![t] = entries] /\ pc' = [pc EXCEPT ![t] = to]
      BY <2>1, ExtractInv
    <2>2. CASE UNCHANGED fileVars /\ At(t, "extract", "ended") /\ job' = job
      BY <2>2, QuietInv DEF At, IInv, TypeOK, Named
    <2> QED
      BY <1>5, <2>1, <2>2 DEF ExtractArchive, At, Keep
  <1>6. CASE RemoveArchive(t)
    <2>1. CASE pc' = [pc EXCEPT ![t] = "ended"] /\ zip' = [zip EXCEPT ![Archive(t)] = {}]
               /\ UNCHANGED <<second, output, job>> /\ pc[t] = "remove"
      BY <2>1, WriteInv DEF Named
    <2>2. CASE UNCHANGED fileVars /\ At(t, "remove", "ended") /\ job' = job
      BY <2>2, QuietInv DEF At, IInv, TypeOK, Named
    <2> QED
      BY <1>6, <2>1, <2>2 DEF RemoveArchive, At, Keep
  <1> QED
    BY <1>1, <1>2, <1>3, <1>4, <1>5, <1>6 DEF Collect

LEMMA FileStep ==
  ASSUME IInv, [Next]_vars
  PROVE  FileInv'
  <1>0. pc \in [Tool -> Pcs] /\ job \in [Tool -> Job]
    BY DEF IInv, TypeOK
  <1>1. ASSUME NEW t \in Tool, UserStarts(t)
        PROVE  FileInv'
    <2>1. /\ pc[t] = "new" /\ pc' = [pc EXCEPT ![t] = "main"] /\ UNCHANGED fileVars
          /\ \E j \in Job : job' = [job EXCEPT ![t] = j]
      BY <1>1 DEF UserStarts, Starts, Job
    <2> QED
      BY <1>0, <2>1, QuietInv
  <1>2. ASSUME NEW t \in Tool, RunElevated(t)
        PROVE  FileInv'
    <2>1. pc[t] = "main" /\ UNCHANGED fileVars
      BY <1>2 DEF RunElevated
    <2>2. CASE job' = job /\ (\E to \in {"ended", "toast"} : pc' = [pc EXCEPT ![t] = to])
      BY <1>0, <2>1, <2>2, QuietInv DEF Named
    <2>3. CASE \E c \in Tool : /\ c # t /\ pc[c] = "new" /\ job' = [job EXCEPT ![c] = job[t]]
                               /\ pc' = [pc EXCEPT ![t] = "waiting", ![c] = "main"]
      <3>1. PICK c \in Tool : /\ c # t /\ pc[c] = "new" /\ job' = [job EXCEPT ![c] = job[t]]
                              /\ pc' = [pc EXCEPT ![t] = "waiting", ![c] = "main"]
        BY <2>3
      <3>2. pc'[t] = "waiting" /\ pc'[c] = "main" /\ job'[t] = job[t]
            /\ \A u \in Tool \ {t, c} : pc'[u] = pc[u] /\ job'[u] = job[u]
        BY <1>0, <3>1
      <3> QED
        BY <2>1, <3>1, <3>2, QuietInv DEF Named
    <2> QED
      BY <1>2, <2>2, <2>3 DEF RunElevated, ShellExecute, Starts, ElevationFailed, At
  <1>3. ASSUME NEW t \in Tool, Collect(t)
        PROVE  FileInv'
    BY <1>3, CollectInv
  <1>4. ASSUME NEW t \in Tool, WaitEnds(t) \/ SendToast(t)
        PROVE  FileInv'
    <2>1. /\ UNCHANGED fileVars /\ job' = job
          /\ \E to \in {"ended", "send", "sleep"} : pc[t] # "new" /\ pc' = [pc EXCEPT ![t] = to]
      BY <1>4 DEF WaitEnds, SendToast, At, KeepFiles
    <2> QED
      BY <1>0, <2>1, QuietInv DEF Named
  <1>5. ASSUME NEW t \in Tool, ToastEvent(t)
        PROVE  FileInv'
    BY <1>5, QuietInv DEF ToastEvent, KeepFiles
  <1>6. ASSUME NEW t \in Tool, Killed(t)
        PROVE  FileInv'
    <2>1. /\ UNCHANGED <<second, zip, output, job>> /\ pc' = [pc EXCEPT ![t] = "ended"]
          /\ pc[t] # "new"
      BY <1>6 DEF Killed, Running
    <2> QED
      BY <1>0, <2>1 DEF FileInv, IInv, TypeOK, Entry, NamesOK, Named, ArchivesOK, NoForeignFiles
  <1>7. CASE NotifySystemRestart
    <2>1. /\ UNCHANGED fileVars
          /\ \E s \in SUBSET {t \in Tool : pc[t] = "new"} :
               /\ job' = [t \in Tool |-> IF t \in s THEN "reboot" ELSE job[t]]
               /\ pc' = [t \in Tool |-> IF t \in s THEN "main" ELSE pc[t]]
      BY <1>7 DEF NotifySystemRestart
    <2> QED
      BY <2>1, QuietInv
  <1>8. CASE Tick \/ UNCHANGED vars
    BY <1>8, QuietInv DEF Tick, vars, toolVars
  <1> QED
    BY <1>1, <1>2, <1>3, <1>4, <1>5, <1>6, <1>7, <1>8 DEF Next

(***************************************************************************)
(* Types, and the theorems.                                                *)
(***************************************************************************)

LEMMA CollectTypes ==
  ASSUME IInv, NEW t \in Tool, Collect(t)
  PROVE  /\ pc' \in [Tool -> Pcs] /\ writing' \subseteq Tool /\ there' \subseteq Names
         /\ second' \in [Tool -> 0 .. MaxTime] /\ zip' \in [Names -> SUBSET Entry]
         /\ output' \in [Tool -> SUBSET Entry]
  <1> USE DEF IInv, TypeOK, At, Keep, Pcs
  <1>1. CASE Begin(t)
    BY <1>1 DEF Begin
  <1>2. CASE CreateArchiveFile(t)
    <2>1. Archive(t) \in Names
      BY <1>2, ArchiveIsNamed DEF CreateArchiveFile, Named
    <2> QED
      BY <1>2, <2>1 DEF CreateArchiveFile, fileVars, AfterPackage
  <1>3. CASE AddFileToArchive(t)
    <2>1. Archive(t) \in Names
      BY <1>3, ArchiveIsNamed DEF AddFileToArchive, Named
    <2> QED
      BY <1>3, <2>1 DEF AddFileToArchive, Stored, Entry
  <1>4. CASE CloseArchiveFile(t)
    BY <1>4 DEF CloseArchiveFile, AfterPackage
  <1>5. CASE ExtractArchive(t)
    <2>1. Archive(t) \in Names
      BY <1>5, ArchiveIsNamed DEF ExtractArchive, Named
    <2> QED
      BY <1>5, <2>1 DEF ExtractArchive, fileVars
  <1>6. CASE RemoveArchive(t)
    BY <1>6 DEF RemoveArchive, fileVars
  <1> QED
    BY <1>1, <1>2, <1>3, <1>4, <1>5, <1>6 DEF Collect

LEMMA TypeStep ==
  ASSUME IInv, [Next]_vars
  PROVE  TypeOK'
  <1>0. TypeOK /\ ToastTypeOK'
    BY ToastStep DEF IInv
  <1> USE DEF Pcs, Job
  <1>1. ASSUME NEW t \in Tool, UserStarts(t)
        PROVE  TypeOK'
    BY <1>0, <1>1 DEF UserStarts, Starts, fileVars, TypeOK
  <1>2. ASSUME NEW t \in Tool, RunElevated(t)
        PROVE  TypeOK'
    <2>1. misled' \in {misled, misled \union {t}} /\ now' = now /\ UNCHANGED fileVars
      BY <1>2 DEF RunElevated
    <2>2. CASE UNCHANGED <<job, parent, rights>> /\ (\E to \in {"ended", "toast"} : pc' = [pc EXCEPT ![t] = to])
      BY <1>0, <2>1, <2>2 DEF fileVars, TypeOK
    <2>3. CASE \E c \in Tool, r \in BOOLEAN :
                 Starts(c, job[t], t, r) /\ pc' = [pc EXCEPT ![t] = "waiting", ![c] = "main"]
      BY <1>0, <2>1, <2>3 DEF Starts, fileVars, TypeOK
    <2> QED
      BY <1>2, <2>2, <2>3 DEF RunElevated, ShellExecute, ElevationFailed, At
  <1>3. ASSUME NEW t \in Tool, Collect(t)
        PROVE  TypeOK'
    <2>1. UNCHANGED <<now, job, parent, rights, misled>>
      BY <1>3 DEF Collect, Begin, CreateArchiveFile, AddFileToArchive, CloseArchiveFile,
                  ExtractArchive, RemoveArchive, Keep
    <2> QED
      BY <1>0, <1>3, <2>1, CollectTypes DEF TypeOK
  <1>4. ASSUME NEW t \in Tool, WaitEnds(t) \/ SendToast(t) \/ ToastEvent(t)
        PROVE  TypeOK'
    <2>1. /\ UNCHANGED <<now, job, parent, rights, misled, fileVars>>
          /\ pc' = pc \/ \E to \in Pcs : pc' = [pc EXCEPT ![t] = to]
      BY <1>4 DEF WaitEnds, SendToast, ToastEvent, At, KeepFiles
    <2> QED
      BY <1>0, <2>1 DEF fileVars, TypeOK
  <1>5. ASSUME NEW t \in Tool, Killed(t)
        PROVE  TypeOK'
    BY <1>0, <1>5 DEF Killed, TypeOK
  <1>6. CASE NotifySystemRestart
    BY <1>0, <1>6 DEF NotifySystemRestart, fileVars, TypeOK
  <1>7. CASE Tick \/ UNCHANGED vars
    BY <1>0, <1>7 DEF Tick, vars, toolVars, fileVars, TypeOK
  <1> QED
    BY <1>1, <1>2, <1>3, <1>4, <1>5, <1>6, <1>7 DEF Next

\* The invariant is inductive.
THEOREM Invariance == Spec => []IInv
  <1>1. ASSUME IInv, [Next]_vars PROVE IInv'
    BY <1>1, TypeStep, ProcStep, FileStep, ToastStep DEF ProcInv, FileInv, IInv
  <1> QED
    BY <1>1, InitInv, PTL DEF Spec

\* Every variable keeps its type.
THEOREM TypeCorrect == Spec => []TypeOK
  BY Invariance, PTL DEF IInv

\* A tool that starts itself again for its rights does so once, whatever UAC answers.
THEOREM AsksOnce == Spec => []RelaunchedOnce
  BY Invariance, PTL DEF IInv

\* What lands in a directory was packed in the second the directory's tool named its archive.
THEOREM DirectoriesAreOwn == Spec => []NoForeignFiles
  BY Invariance, PTL DEF IInv

\* The plugin can always take back what Windows has registered for it.
THEOREM HandlersAreTakenBack == Spec => []NoStrayHandler
  BY Invariance, PTL DEF IInv
=============================================================================
