--------------------------- MODULE AgentPlatform ---------------------------
(***************************************************************************)
(* What the agent offers its package manager on Windows, together: the     *)
(* updates of AgentUpdates on one thread, the certificates of              *)
(* AgentCertificates on any.                                               *)
(***************************************************************************)
EXTENDS AgentUpdates, AgentCertificates

PlatformInit == Init /\ CertInit

PlatformNext ==
  \/ Next /\ UNCHANGED certVars
  \/ CertNext /\ UNCHANGED vars

PlatformSpec == PlatformInit /\ [][PlatformNext]_<<vars, certVars>> /\ Fairness
=============================================================================
