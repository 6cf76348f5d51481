----------------------------- MODULE ServiceLog -----------------------------
(***************************************************************************)
(* The service's log: ServiceLogManager creates the logger and a thread    *)
(* that looks every two seconds whether the configuration file has changed; *)
(* UcConfig::LoadConfig() reads the file when its modification time has     *)
(* grown; Stop() ends the thread and frees the logger. The manager is       *)
(* started by the constructor of the service and stopped by its destructor. *)
(*                                                                         *)
(* The file is changed by others at any time, also between two looks of     *)
(* LoadConfig() at it. UcConfig's mutex is never contended: the thread      *)
(* starts after the load that Start() does.                                 *)
(***************************************************************************)
EXTENDS Naturals

CONSTANTS
  Level,      (* IUcLogger::Severity                                          *)
  LOG_ERROR,  (* DEFAULT_LOG_LEVEL                                            *)
  Missing,    (* no file                                                      *)
  Invalid,    (* contents that GetJsonFromFile() rejects                      *)
  OutOfRange, (* an integer that is no severity                               *)
  MaxTime,    (* bound on the clock, in seconds                               *)
  TimesGrow   (* TRUE if no two changes of the file carry the same time       *)

ASSUME LogAssumption ==
  /\ LOG_ERROR \in Level
  /\ OutOfRange \notin Level
  /\ Invalid \notin Level \cup {OutOfRange}
  /\ Missing \notin [contents : Level \cup {OutOfRange, Invalid}, mtime : Nat]
  /\ MaxTime \in Nat \ {0}
  /\ TimesGrow \in BOOLEAN

VARIABLES
  (* the world *)
  file,              (* the configuration file                                *)
  now, stamp,        (* the clock; the time of the last change of the file    *)
  (* UcConfig *)
  m_logLevel, m_fileModifyTime,
  load, text,        (* where LoadConfig() is, and what it has read           *)
  (* ServiceLogManager *)
  m_running, logger, (* the flag; life of m_logger and m_logFile              *)
  severity,          (* the level of m_logger                                 *)
  main, thread       (* where the owner of the service and the thread are     *)

worldVars  == <<file, now, stamp>>
configVars == <<m_logLevel, m_fileModifyTime, load, text>>
vars == <<worldVars, configVars, m_running, logger, severity, main, thread>>

Contents   == Level \cup {OutOfRange, Invalid}
Configured == Level \cup {OutOfRange}
File       == [contents : Contents, mtime : 1..MaxTime]

-----------------------------------------------------------------------------
(* The file and the clock.                                                   *)

Tick ==
  /\ now < MaxTime
  /\ now' = now + 1
  /\ UNCHANGED <<file, stamp, configVars, m_running, logger, severity, main, thread>>

(* Modification times have a granularity of a second: GetFileModifyTime().    *)
FileChanges ==
  /\ TimesGrow => stamp < now
  /\ stamp' = now
  /\ \/ \E c \in Contents : file' = [contents |-> c, mtime |-> now]
     \/ file' = Missing
  /\ UNCHANGED <<now, configVars, m_running, logger, severity, main, thread>>

-----------------------------------------------------------------------------
(* UcConfig::LoadConfig() and UpdateLogLevel(), by Start() or by the thread.  *)

ModifyTime == IF file = Missing THEN 0 ELSE file.mtime

(* The time an exception leaves behind: the next look reads again.            *)
TimeReset == m_fileModifyTime' = 0

RestoreDefaults ==
  /\ m_logLevel' = LOG_ERROR
  /\ TimeReset
  /\ load' = "apply"

ConfigExists ==
  /\ load = "exists"
  /\ \/ /\ file = Missing
        /\ RestoreDefaults
     \/ /\ file # Missing
        /\ load' = "stat"
        /\ UNCHANGED <<m_logLevel, m_fileModifyTime>>
  /\ UNCHANGED <<worldVars, text, m_running, logger, severity, main, thread>>

ConfigStat ==
  /\ load = "stat"
  /\ \/ /\ ModifyTime > m_fileModifyTime
        /\ m_fileModifyTime' = ModifyTime
        /\ load' = "read"
     \/ /\ ModifyTime <= m_fileModifyTime
        /\ load' = "apply"
        /\ UNCHANGED m_fileModifyTime
  /\ UNCHANGED <<worldVars, m_logLevel, text, m_running, logger, severity, main, thread>>

(* A file that is gone by now has empty contents, which are rejected too.     *)
ConfigRead ==
  /\ load = "read"
  /\ text' = IF file = Missing THEN Invalid ELSE file.contents
  /\ load' = "parse"
  /\ UNCHANGED <<worldVars, m_logLevel, m_fileModifyTime, m_running, logger, severity,
                 main, thread>>

BugTimeTakenLate == m_fileModifyTime' = ModifyTime

(* The time belongs to the look before the read.                              *)
TimeTaken == UNCHANGED m_fileModifyTime

ConfigParse ==
  /\ load = "parse"
  /\ \/ /\ text = Invalid
        /\ RestoreDefaults
     \/ /\ text # Invalid
        /\ m_logLevel' = text
        /\ TimeTaken
        /\ load' = "apply"
  /\ UNCHANGED <<worldVars, text, m_running, logger, severity, main, thread>>

(* UcLogger::SetLogLevel() keeps its level when given one out of range.       *)
Accepted == IF m_logLevel \in Level THEN m_logLevel ELSE severity

SetLogLevel ==
  /\ load = "apply"
  /\ load' = "idle"
  /\ severity' = Accepted
  /\ main' = IF main = "load" THEN "spawn" ELSE main
  /\ thread' = IF thread = "load" THEN "check" ELSE thread
  /\ UNCHANGED <<worldVars, m_logLevel, m_fileModifyTime, text, m_running, logger>>

LoadSteps == ConfigExists \/ ConfigStat \/ ConfigRead \/ ConfigParse \/ SetLogLevel

-----------------------------------------------------------------------------
(* ServiceLogManager::Start() and Stop().                                     *)

Start ==
  /\ main = "start"
  /\ main' = "load"
  /\ load' = "exists"
  /\ logger' = "live"
  /\ UNCHANGED <<worldVars, m_logLevel, m_fileModifyTime, text, m_running, severity, thread>>

StartThread ==
  /\ main = "spawn"
  /\ main' = "up"
  /\ m_running' = TRUE
  /\ thread' = "check"
  /\ UNCHANGED <<worldVars, configVars, logger, severity>>

(* m_running is a plain bool, written without m_mutex. The thread reads it on  *)
(* both sides of calls that the compiler cannot see through, so that it reads *)
(* what is stored.                                                            *)
StopFlag ==
  /\ main = "up"
  /\ main' = "notify"
  /\ m_running' = FALSE
  /\ UNCHANGED <<worldVars, configVars, logger, severity, thread>>

(* A notification wakes the thread only if it waits.                          *)
StopNotify ==
  /\ main = "notify"
  /\ main' = "join"
  /\ thread' = IF thread = "wait" THEN "predicate" ELSE thread
  /\ UNCHANGED <<worldVars, configVars, m_running, logger, severity>>

BugNotJoined == TRUE

Joined == thread = "ended"

StopJoin ==
  /\ main = "join"
  /\ Joined
  /\ main' = "free"
  /\ UNCHANGED <<worldVars, configVars, m_running, logger, severity, thread>>

StopFree ==
  /\ main = "free"
  /\ main' = "done"
  /\ logger' = "freed"
  /\ UNCHANGED <<worldVars, configVars, m_running, severity, thread>>

MainSteps == Start \/ StartThread \/ StopFlag \/ StopNotify \/ StopJoin \/ StopFree

-----------------------------------------------------------------------------
(* UpdateLogLevelThread(), which holds m_mutex except while it waits.         *)

ThreadCheck ==
  /\ thread = "check"
  /\ thread' = IF m_running THEN "predicate" ELSE "ended"
  /\ UNCHANGED <<worldVars, configVars, m_running, logger, severity, main>>

(* wait_for() looks at the predicate and then blocks; m_running may fall and  *)
(* the notification come in between, because Stop() does not take m_mutex.    *)
ThreadPredicate ==
  /\ thread = "predicate"
  /\ thread' = IF m_running THEN "block" ELSE "ended"
  /\ UNCHANGED <<worldVars, configVars, m_running, logger, severity, main>>

ThreadBlock ==
  /\ thread = "block"
  /\ thread' = "wait"
  /\ UNCHANGED <<worldVars, configVars, m_running, logger, severity, main>>

ThreadSpuriousWake ==
  /\ thread = "wait"
  /\ thread' = "predicate"
  /\ UNCHANGED <<worldVars, configVars, m_running, logger, severity, main>>

BugTimeoutLoads ==
  /\ thread = "wait"
  /\ thread' = "load"
  /\ load' = "exists"
  /\ UNCHANGED <<worldVars, m_logLevel, m_fileModifyTime, text, m_running, logger,
                 severity, main>>

BugNoTimeout == FALSE /\ UNCHANGED vars

(* Two seconds without a notification: wait_for() returns the predicate.      *)
ThreadTimeout ==
  /\ thread = "wait"
  /\ \/ /\ m_running
        /\ thread' = "load"
        /\ load' = "exists"
     \/ /\ ~m_running
        /\ thread' = "ended"
        /\ UNCHANGED load
  /\ UNCHANGED <<worldVars, m_logLevel, m_fileModifyTime, text, m_running, logger,
                 severity, main>>

ThreadSteps == ThreadCheck \/ ThreadPredicate \/ ThreadBlock \/ ThreadTimeout

-----------------------------------------------------------------------------
Terminated == main = "done" /\ UNCHANGED vars

Init ==
  /\ file \in File \cup {Missing}
  /\ now = 1
  /\ stamp = 1
  /\ file # Missing => file.mtime = 1
  /\ m_logLevel = LOG_ERROR
  /\ m_fileModifyTime = 0
  /\ load = "idle"
  /\ text = Invalid
  /\ m_running = FALSE
  /\ logger = "none"
  /\ severity = LOG_ERROR
  /\ main = "start"
  /\ thread = "none"

Next ==
  \/ Tick
  \/ FileChanges
  \/ LoadSteps
  \/ MainSteps
  \/ ThreadSteps
  \/ ThreadSpuriousWake
  \/ Terminated

SafetySpec == Init /\ [][Next]_vars

(* Threads run, and a wait ends two seconds after its start, however often the *)
(* thread wakes spuriously. The file need not change nor the service stop.    *)
Fairness ==
  /\ WF_vars(LoadSteps)
  /\ WF_vars(ThreadCheck)
  /\ WF_vars(ThreadPredicate)
  /\ WF_vars(ThreadBlock)
  /\ SF_vars(ThreadTimeout)
  /\ WF_vars(Start \/ StartThread \/ StopNotify \/ StopJoin \/ StopFree)

Spec == SafetySpec /\ Fairness

-----------------------------------------------------------------------------
(* Properties.                                                                *)

(* The variables have their types.                                            *)
TypeOK ==
  /\ file \in File \cup {Missing}
  /\ now \in 1..MaxTime /\ stamp \in 1..MaxTime
  /\ m_logLevel \in Configured
  /\ m_fileModifyTime \in 0..MaxTime
  /\ load \in {"idle", "exists", "stat", "read", "parse", "apply"}
  /\ text \in Contents
  /\ m_running \in BOOLEAN
  /\ logger \in {"none", "live", "freed"}
  /\ severity \in Level
  /\ main \in {"start", "load", "spawn", "up", "notify", "join", "free", "done"}
  /\ thread \in {"none", "check", "predicate", "block", "wait", "load", "ended"}

(* The log manager does not use the logger once Stop() has freed it: while its *)
(* thread is alive or a load is going on, m_logger and m_logFile exist.       *)
NoUseAfterFree ==
  \/ load # "idle"
  \/ thread \notin {"none", "ended"}
  => logger = "live"

(* A recorded modification time is the truth about the file: when the time of  *)
(* the file is the recorded one, the level is that of the file, so that not    *)
(* reading it again is right. Contents that were rejected are never recorded.  *)
LoadedFits ==
  /\ TimesGrow
  /\ load \in {"idle", "exists", "stat"}
  /\ file # Missing
  /\ m_fileModifyTime = file.mtime
  => m_logLevel = file.contents

(* After Stop() has lowered m_running the thread starts no further load: it    *)
(* ends after at most the one it is in.                                       *)
StopIsHeeded ==
  [][(main \in {"notify", "join", "free", "done"} /\ load = "idle") => load' = "idle"]_vars

(* Stop() returns, also when its notification comes before the wait.           *)
StopReturns == main = "notify" ~> main = "done"

(* What the level of the service should be: that of the file, or the default   *)
(* if there is no file or no level in it.                                      *)
Wanted(l) ==
  IF file = Missing \/ file.contents = Invalid THEN l = LOG_ERROR ELSE l = file.contents

(* "The logging level is retrieved from the config file": once the file stays  *)
(* as it is and the service runs on, the logger has the level of the file.     *)
LevelFollowsFile ==
  \A l \in Level : <>[](main = "up" /\ Wanted(l)) => <>[](severity = l)

-----------------------------------------------------------------------------
(* The inductive invariant.                                                   *)

(* Who loads; when the thread and the logger exist.                           *)
ThreadFits ==
  /\ main \in {"start", "load", "spawn"} <=> thread = "none"
  /\ main = "load" => load # "idle"
  /\ thread = "load" => load # "idle"
  /\ load # "idle" => main = "load" \/ thread = "load"
  /\ m_running <=> main = "up"
  /\ main \in {"free", "done"} => thread = "ended"
  /\ logger = CASE main = "start" -> "none"
                [] main = "done"  -> "freed"
                [] OTHER          -> "live"

(* Times never exceed that of the last change, nor that the clock.            *)
StampsFit ==
  /\ stamp <= now
  /\ file # Missing => file.mtime <= stamp
  /\ m_fileModifyTime <= stamp

(* What was read, while it is being parsed, belongs to the recorded time.      *)
ReadFits ==
  /\ TimesGrow
  /\ load = "parse"
  /\ file # Missing
  /\ m_fileModifyTime = file.mtime
  => text = file.contents

(* A load that found nothing new, or has finished, has left level and time in  *)
(* agreement.                                                                 *)
AppliedFits ==
  /\ TimesGrow
  /\ load = "apply"
  /\ file # Missing
  /\ m_fileModifyTime = file.mtime
  => m_logLevel = file.contents

IInv == TypeOK /\ ThreadFits /\ StampsFit /\ LoadedFits /\ ReadFits /\ AppliedFits
=============================================================================
