-------------------------- MODULE AgentSupervision --------------------------
(***************************************************************************)
(* What the control module promises the service, without threads, locks or *)
(* handles: at most one agent of this service runs, it is launched only    *)
(* between a start and the end of the matching stop, and when the module   *)
(* is off again none is left.                                              *)
(***************************************************************************)
CONSTANT Agent

VARIABLES
  phase,  (* "off", "starting" while a start is in progress, "on" after it   *)
  live    (* the agents of this service that run                             *)

supervision == <<phase, live>>

SupervisionInit == phase = "off" /\ live = {}

BeginStart == phase = "off" /\ phase' = "starting" /\ UNCHANGED live

Launch ==
  /\ phase # "off"
  /\ live = {}
  /\ \E a \in Agent : live' = {a}
  /\ UNCHANGED phase

EndStart ==
  /\ phase = "starting"
  /\ \/ phase' = "on"
     \/ live = {} /\ phase' = "off"
  /\ UNCHANGED live

AgentEnd == live # {} /\ live' = {} /\ UNCHANGED phase

Off == phase = "on" /\ live = {} /\ phase' = "off" /\ UNCHANGED live

(* The service dies; agents it leaves behind are no longer its own.         *)
Lost == phase' = "off" /\ live' = {}

SupervisionNext == BeginStart \/ Launch \/ EndStart \/ AgentEnd \/ Off \/ Lost

Supervision == SupervisionInit /\ [][SupervisionNext]_supervision
=============================================================================
