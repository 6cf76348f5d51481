-------------------------- MODULE ServiceLogProofs --------------------------
(***************************************************************************)
(* Theorems about ServiceLog, for any set of levels and any bound on the    *)
(* clock.                                                                  *)
(*                                                                         *)
(* The argument: IInv is inductive. The thread exists between its creation *)
(* and the join, and the logger around that (ThreadFits). Modification     *)
(* times grow, so a recorded time that is that of the file can only have   *)
(* been recorded after the last change; what was read after it, and the    *)
(* level made of that, are those of the file as it is now.                 *)
(***************************************************************************)
EXTENDS ServiceLog, TLAPS

(* A file is a record with contents and a time, and no file is none.          *)
LEMMA FileShape ==
  /\ Missing \notin File
  /\ \A f \in File : f.contents \in Contents /\ f.mtime \in 1..MaxTime
  /\ \A c \in Contents, t \in 1..MaxTime :
       /\ [contents |-> c, mtime |-> t] \in File
       /\ [contents |-> c, mtime |-> t].contents = c
       /\ [contents |-> c, mtime |-> t].mtime = t
  <1>1. File \subseteq [contents : Level \cup {OutOfRange, Invalid}, mtime : Nat]
    BY DEF File, Contents
  <1>2. Missing \notin File
    BY <1>1, LogAssumption
  <1> QED
    BY <1>2 DEF File

LEMMA InitIInv == Init => IInv
  <1> SUFFICES ASSUME Init
               PROVE  IInv
    OBVIOUS
  <1>1. TypeOK
    <2>1. 1 \in 1..MaxTime /\ 0 \in 0..MaxTime
      BY LogAssumption
    <2>2. LOG_ERROR \in Configured /\ Invalid \in Contents
      BY LogAssumption DEF Contents, Configured
    <2> QED
      BY <2>1, <2>2, LogAssumption DEF Init, TypeOK
  <1>2. file # Missing => file.mtime = 1 /\ m_fileModifyTime # file.mtime
    BY DEF Init
  <1>3. ThreadFits
    BY DEF Init, ThreadFits
  <1> QED
    BY <1>1, <1>2, <1>3 DEF Init, IInv, StampsFit, LoadedFits, ReadFits, AppliedFits

(* Changes of the file and of the time keep the invariant: a changed file has  *)
(* a time that nothing has recorded yet.                                      *)
LEMMA WorldStep == IInv /\ (Tick \/ FileChanges) => IInv'
  <1> SUFFICES ASSUME IInv, Tick \/ FileChanges
               PROVE  IInv'
    OBVIOUS
  <1> USE LogAssumption DEF IInv, configVars, worldVars
  <1>1. CASE Tick
    BY <1>1 DEF Tick, TypeOK, ThreadFits, StampsFit, LoadedFits, ReadFits, AppliedFits
  <1>2. CASE FileChanges
    <2>1. /\ file' = Missing \/ (file' \in File /\ file'.mtime = now)
          /\ stamp' = now
          /\ now' = now
          /\ UNCHANGED <<configVars, m_running, logger, severity, main, thread>>
          /\ TimesGrow => stamp < now
      BY <1>2, FileShape DEF FileChanges, TypeOK
    <2>2. TypeOK' /\ ThreadFits'
      BY <2>1 DEF TypeOK, ThreadFits
    <2>3. StampsFit'
      BY <2>1, FileShape DEF StampsFit, TypeOK
    <2>4. TimesGrow /\ file' # Missing => m_fileModifyTime' # file'.mtime
      BY <2>1, FileShape DEF StampsFit, TypeOK
    <2> QED
      BY <2>2, <2>3, <2>4 DEF LoadedFits, ReadFits, AppliedFits
  <1> QED
    BY <1>1, <1>2

(* A load keeps the invariant, step by step.                                  *)
LEMMA LoadStep == IInv /\ LoadSteps => IInv'
  <1> SUFFICES ASSUME IInv, LoadSteps
               PROVE  IInv'
    OBVIOUS
  <1> USE LogAssumption, FileShape
      DEF IInv, worldVars, TypeOK, ThreadFits, StampsFit, RestoreDefaults, TimeReset,
          Configured, Contents
  <1>1. CASE ConfigExists
    BY <1>1 DEF ConfigExists, LoadedFits, ReadFits, AppliedFits
  <1>2. CASE ConfigStat
    BY <1>2 DEF ConfigStat, ModifyTime, LoadedFits, ReadFits, AppliedFits
  <1>3. CASE ConfigRead
    BY <1>3 DEF ConfigRead, LoadedFits, ReadFits, AppliedFits
  <1>4. CASE ConfigParse
    BY <1>4 DEF ConfigParse, TimeTaken, LoadedFits, ReadFits, AppliedFits
  <1>5. CASE SetLogLevel
    BY <1>5 DEF SetLogLevel, Accepted, LoadedFits, ReadFits, AppliedFits
  <1> QED
    BY <1>1, <1>2, <1>3, <1>4, <1>5 DEF LoadSteps

(* Start() and Stop() keep the invariant.                                     *)
LEMMA MainStep == IInv /\ MainSteps => IInv'
  <1> SUFFICES ASSUME IInv, MainSteps
               PROVE  IInv'
    OBVIOUS
  <1> USE DEF IInv, worldVars, configVars, TypeOK, ThreadFits, StampsFit, LoadedFits,
          ReadFits, AppliedFits
  <1>1. CASE Start
    BY <1>1 DEF Start
  <1>2. CASE StartThread
    BY <1>2 DEF StartThread
  <1>3. CASE StopFlag
    BY <1>3 DEF StopFlag
  <1>4. CASE StopNotify
    BY <1>4 DEF StopNotify
  <1>5. CASE StopJoin
    BY <1>5 DEF StopJoin, Joined
  <1>6. CASE StopFree
    BY <1>6 DEF StopFree
  <1> QED
    BY <1>1, <1>2, <1>3, <1>4, <1>5, <1>6 DEF MainSteps

(* The thread keeps the invariant.                                            *)
LEMMA ThreadStep == IInv /\ (ThreadSteps \/ ThreadSpuriousWake) => IInv'
  <1> SUFFICES ASSUME IInv, ThreadSteps \/ ThreadSpuriousWake
               PROVE  IInv'
    OBVIOUS
  <1> USE DEF IInv, worldVars, configVars, TypeOK, ThreadFits, StampsFit, LoadedFits,
          ReadFits, AppliedFits
  <1>1. CASE ThreadCheck
    BY <1>1 DEF ThreadCheck
  <1>2. CASE ThreadPredicate
    BY <1>2 DEF ThreadPredicate
  <1>3. CASE ThreadBlock
    BY <1>3 DEF ThreadBlock
  <1>4. CASE ThreadTimeout
    BY <1>4 DEF ThreadTimeout
  <1>5. CASE ThreadSpuriousWake
    BY <1>5 DEF ThreadSpuriousWake
  <1> QED
    BY <1>1, <1>2, <1>3, <1>4, <1>5 DEF ThreadSteps

LEMMA StepIInv == IInv /\ [Next]_vars => IInv'
  <1>1. IInv /\ UNCHANGED vars => IInv'
    BY DEF IInv, vars, worldVars, configVars, TypeOK, ThreadFits, StampsFit, LoadedFits,
           ReadFits, AppliedFits
  <1> QED
    BY <1>1, WorldStep, LoadStep, MainStep, ThreadStep DEF Next, Terminated

(* The inductive invariant of the service's log.                              *)
THEOREM LogInvariant == SafetySpec => []IInv
  BY InitIInv, StepIInv, PTL DEF SafetySpec

(* All variables keep their types.                                            *)
THEOREM LogTypes == SafetySpec => []TypeOK
  <1>1. IInv => TypeOK
    BY DEF IInv
  <1> QED
    BY <1>1, LogInvariant, PTL

(* The logger outlives the thread that writes to it: ServiceLogManager::Stop().*)
THEOREM LoggerOutlivesThread == SafetySpec => []NoUseAfterFree
  <1>1. IInv => NoUseAfterFree
    BY DEF IInv, ThreadFits, NoUseAfterFree, TypeOK
  <1> QED
    BY <1>1, LogInvariant, PTL

(* A file that LoadConfig() will not read again is one whose level it has, as  *)
(* long as no two changes fall in one second.                                 *)
THEOREM RecordedTimeIsTrue == SafetySpec => []LoadedFits
  <1>1. IInv => LoadedFits
    BY DEF IInv
  <1> QED
    BY <1>1, LogInvariant, PTL

(* No load is started once Stop() has lowered the flag.                       *)
THEOREM StopHeeded == SafetySpec => StopIsHeeded
  <1> DEFINE A == (main \in {"notify", "join", "free", "done"} /\ load = "idle") => load' = "idle"
  <1>1. IInv /\ [Next]_vars => [A]_vars
    <2> SUFFICES ASSUME IInv, Next, main \in {"notify", "join", "free", "done"}, load = "idle"
                 PROVE  load' = "idle"
      OBVIOUS
    <2> USE DEF IInv, ThreadFits, vars, worldVars, configVars
    <2>1. CASE Tick \/ FileChanges \/ Terminated
      BY <2>1 DEF Tick, FileChanges, Terminated
    <2>2. CASE LoadSteps
      BY <2>2 DEF LoadSteps, ConfigExists, ConfigStat, ConfigRead, ConfigParse, SetLogLevel
    <2>3. CASE MainSteps
      BY <2>3 DEF MainSteps, Start, StartThread, StopFlag, StopNotify, StopJoin, StopFree
    <2>4. CASE ThreadSteps \/ ThreadSpuriousWake
      BY <2>4 DEF ThreadSteps, ThreadCheck, ThreadPredicate, ThreadBlock, ThreadTimeout,
                  ThreadSpuriousWake
    <2> QED
      BY <2>1, <2>2, <2>3, <2>4 DEF Next
  <1>2. SafetySpec => [][A]_vars
    BY <1>1, LogInvariant, PTL DEF SafetySpec
  <1> QED
    BY <1>2 DEF StopIsHeeded
(***************************************************************************)
(* Why Stop() returns: the safety part of StopReturns.                      *)
(***************************************************************************)

(* The most steps the thread can still make once the flag is down.            *)
LoadLeft ==
  CASE load = "idle"  -> 0 [] load = "apply" -> 1 [] load = "parse"  -> 2
    [] load = "read"  -> 3 [] load = "stat"  -> 4 [] load = "exists" -> 5
ThreadLeft ==
  CASE thread = "none" -> 0 [] thread = "ended" -> 0
    [] thread = "check" -> 1 [] thread = "predicate" -> 1
    [] thread = "wait" -> 2 [] thread = "block" -> 3
    [] thread = "load" -> 1 + LoadLeft

(* Once Stop() has lowered the flag every step of the thread, of its load and  *)
(* of the notification brings the thread closer to its end: it waits at most   *)
(* once more, though the notification may come too early and wakes may be      *)
(* spurious.                                                                  *)
ThreadRunsOut ==
  [][ ~m_running /\ thread # "none" /\ <<thread, load>>' # <<thread, load>> =>
        ThreadLeft \in Nat /\ ThreadLeft' \in Nat /\ ThreadLeft' < ThreadLeft ]_vars

(* Six steps of the thread are enough for ServiceLogManager::Stop() to join it. *)
THEOREM StopComesCloser == SafetySpec => ThreadRunsOut
  <1> DEFINE A == ~m_running /\ thread # "none" /\ <<thread, load>>' # <<thread, load>> =>
                    ThreadLeft \in Nat /\ ThreadLeft' \in Nat /\ ThreadLeft' < ThreadLeft
  <1>1. IInv /\ [Next]_vars => [A]_vars
    <2> SUFFICES ASSUME IInv, Next, ~m_running, thread # "none",
                        <<thread, load>>' # <<thread, load>>
                 PROVE  ThreadLeft \in Nat /\ ThreadLeft' \in Nat /\ ThreadLeft' < ThreadLeft
      OBVIOUS
    <2>0. /\ load \in {"idle", "exists", "stat", "read", "parse", "apply"}
          /\ thread \in {"check", "predicate", "block", "wait", "load", "ended"}
          /\ load # "idle" => thread = "load"
          /\ main \notin {"start", "load", "spawn"}
      BY DEF IInv, TypeOK, ThreadFits
    <2> USE <2>0 DEF ThreadLeft, LoadLeft, worldVars, configVars
    <2>1. CASE Tick \/ FileChanges \/ Terminated
      BY <2>1 DEF Tick, FileChanges, Terminated, vars
    <2>2. CASE ConfigExists \/ ConfigStat
      BY <2>2 DEF ConfigExists, ConfigStat, RestoreDefaults
    <2>3. CASE ConfigRead \/ ConfigParse
      BY <2>3 DEF ConfigRead, ConfigParse, RestoreDefaults
    <2>4. CASE SetLogLevel
      BY <2>4 DEF SetLogLevel
    <2>5. CASE MainSteps
      BY <2>5 DEF MainSteps, Start, StartThread, StopFlag, StopNotify, StopJoin, StopFree
    <2>6. CASE ThreadSteps \/ ThreadSpuriousWake
      BY <2>6 DEF ThreadSteps, ThreadCheck, ThreadPredicate, ThreadBlock, ThreadTimeout,
                  ThreadSpuriousWake
    <2> QED
      BY <2>1, <2>2, <2>3, <2>4, <2>5, <2>6 DEF Next, LoadSteps
  <1>2. SafetySpec => [][A]_vars
    BY <1>1, LogInvariant, PTL DEF SafetySpec
  <1> QED
    BY <1>2 DEF ThreadRunsOut
=============================================================================
