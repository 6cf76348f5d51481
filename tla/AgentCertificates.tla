------------------------- MODULE AgentCertificates -------------------------
(***************************************************************************)
(* The certificates of the system's stores in the agent.  WinCertLoader    *)
(* holds them and locks each of its calls; m_certMutex of                  *)
(* WindowsConfiguration makes one step of the two calls of a reload.       *)
(* Threads take copies to verify a server with, and give them back.        *)
(***************************************************************************)
EXTENDS Naturals

CONSTANTS User,     \* threads that use the certificates
          Stored,   \* bound: how many certificates the two stores hold
          NoUser

ASSUME CertificatesAssumption == NoUser \notin User /\ Stored \in Nat \ {0}

VARIABLES
  certMutex,   \* the owner of m_certMutex
  certCount,   \* m_certcount; 0 if there are none
  copy,        \* thread -> the size of the copy it holds, or NoCopy
  lastLoad     \* history: what the last LoadSystemCerts() returned

certVars == <<certMutex, certCount, copy, lastLoad>>

NoCopy == Stored + 1

CertTypeOK ==
  /\ certMutex \in User \union {NoUser} /\ certCount \in 0..Stored
  /\ copy \in [User -> 0..NoCopy] /\ lastLoad \in {"ok", "failed"}

\* Both stores are read, then the array is allocated: whatever fails, nothing is loaded.  (What
\* was read before a failure is not freed.)  A certificate that cannot be decoded is left out,
\* and stores without any count as a failure.
LoadSystemCerts ==
  /\ certCount' \in IF certCount = 0 THEN 0..Stored ELSE {certCount}
  /\ lastLoad' = IF certCount = 0 /\ certCount' > 0 THEN "ok" ELSE "failed"

UnloadSystemCerts == certCount' = 0

\* The constructor of WindowsConfiguration loads once.
CertInit ==
  /\ certMutex = NoUser /\ copy = [t \in User |-> NoCopy]
  /\ certCount \in 0..Stored /\ lastLoad = IF certCount > 0 THEN "ok" ELSE "failed"

\* Mutant: GetSslCertificates() and ReleaseSslCertificates() do not take the mutex.
BugNoLock == TRUE

Unlocked == certMutex = NoUser

\* An array of no certificates is an array: the call succeeds.  It fails if there is no memory.
GetSslCertificates(t) ==
  /\ Unlocked /\ certMutex # t /\ copy[t] = NoCopy
  /\ copy' = [copy EXCEPT ![t] = certCount]
  /\ UNCHANGED <<certMutex, certCount, lastLoad>>

ReleaseSslCertificates(t) ==
  /\ Unlocked /\ certMutex # t /\ copy[t] # NoCopy
  /\ copy' = [copy EXCEPT ![t] = NoCopy]
  /\ UNCHANGED <<certMutex, certCount, lastLoad>>

\* ReloadSslCertificates(), in two steps.
BeginReload(t) ==
  /\ certMutex = NoUser /\ certMutex' = t
  /\ UnloadSystemCerts /\ UNCHANGED <<copy, lastLoad>>

EndReload(t) ==
  /\ certMutex = t /\ certMutex' = NoUser
  /\ LoadSystemCerts /\ UNCHANGED copy

CertNext ==
  \E t \in User :
    GetSslCertificates(t) \/ ReleaseSslCertificates(t) \/ BeginReload(t) \/ EndReload(t)

CertSpec == CertInit /\ [][CertNext]_certVars

\* After a load that succeeded nobody gets an empty copy, not even while another thread reloads;
\* so an empty copy, with which no server can be verified, lasts no longer than until the next
\* reload that succeeds.
NoEmptyCopy == [][\A t \in User : (copy[t] = NoCopy /\ copy'[t] = 0) => lastLoad = "failed"]_certVars
=============================================================================
