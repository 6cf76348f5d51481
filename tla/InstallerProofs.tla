--------------------------- MODULE InstallerProofs ---------------------------
(***************************************************************************)
(* Proofs about the installer's sessions, for any releases and builds.  A  *)
(* session goes through its places in one order, so the invariant says for *)
(* each place what has been settled by then: when a nested session may     *)
(* run, how the package fits the installed product, whose plugin is in     *)
(* place, and what may have been reported.                                 *)
(***************************************************************************)
EXTENDS InstallerActions, TLAPS

\* A nested session runs while the main one waits before its copy.
NestOK == at["nested"] # "idle" => at["main"] = "copy" /\ mode = "upgrade"

\* Until the end is committed the package fits the product as it did at the beginning; once
\* the builds have been compared it is no older one, if it could be read.
Committed == {"idle", "complete", "cleanup"}

FitOK ==
  /\ at["main"] # "idle" => target \in Version
  /\ at["main"] \notin Committed =>
       /\ mode = "install" => product = None
       /\ mode = "upgrade" => product # None /\ target.release >= product.release
       /\ mode = "repair" => product = target
       /\ mode = "uninstall" => product # None
  /\ at["main"] \in {"windows", "removal", "files", "existing", "copy", "finalize"} /\ mode = "upgrade"
       => blind \/ ~IsOlderBuild(product, target)

PluginOK ==
  /\ at["main"] \in {"idle", "extract", "collect", "older", "windows", "removal"} /\ intact /\ product # None
       => plugin = product
  /\ at["main"] \in {"existing", "copy"} /\ mode # "uninstall" => service = target
  /\ at["main"] \in {"finalize", "complete", "cleanup"} /\ mode # "uninstall" => plugin = target
  /\ at["main"] \in {"complete", "cleanup"} => product = IF mode = "uninstall" THEN None ELSE target
  /\ at["main"] = "error" => ~intact

EventOK ==
  /\ at["main"] \notin {"idle", "cleanup"} => event = "none"
  /\ event = "complete" => mode = "uninstall" /\ product = None
  /\ event = "error" => mode = "uninstall" /\ product # None

IInv == TypeOK /\ NestOK /\ FitOK /\ PluginOK /\ EventOK

LEMMA InitIInv == Init => IInv
  <1> SUFFICES ASSUME Init PROVE IInv
    OBVIOUS
  <1>1. TypeOK
    <2>1. at \in [Session -> Places] /\ resource \in [Session -> {"none", "partial", "complete"}]
      BY DEF Init, Places
    <2>2. before \in Files
      BY DEF Init, Files
    <2>3. failed \subseteq Session /\ mode \in Modes /\ ident \in 0..3
      BY DEF Init, Modes
    <2>4. product = None /\ service = None /\ tmp = None /\ plugin = None /\ target = None
          /\ event = "none" /\ intact = TRUE /\ blind = FALSE /\ machine \in Machine
      BY DEF Init
    <2> QED
      BY <2>1, <2>2, <2>3, <2>4 DEF TypeOK
  <1>2. NestOK /\ FitOK /\ PluginOK /\ EventOK
    BY DEF Init, NestOK, FitOK, PluginOK, EventOK, Session, Committed
  <1> QED
    BY <1>1, <1>2 DEF IInv

LEMMA BeginStep == ASSUME IInv, NEW m \in Modes, NEW v \in Version, Begin(m, v) PROVE IInv'
  <1> USE VersionAssumption DEF IInv, Begin, Fits, files
  <1>1. TypeOK'
    BY DEF TypeOK, Session, Places, Files
  <1>2. NestOK'
    BY DEF TypeOK, NestOK, Session
  <1>3. FitOK'
    BY DEF TypeOK, FitOK, Session, Committed, Modes, Version
  <1>4. PluginOK'
    BY DEF TypeOK, PluginOK, Session
  <1>5. EventOK'
    BY DEF TypeOK, EventOK, Session
  <1> QED
    BY <1>1, <1>2, <1>3, <1>4, <1>5

LEMMA ExtractCaResourcesStep ==
  ASSUME IInv, NEW s \in Session, Turn(s), ExtractCaResources(s)
  PROVE  IInv'
  <1> USE DEF IInv, ExtractCaResources, At, Fails, files, told, begun
  <1>1. TypeOK'
    <2>1. at' \in [Session -> Places] /\ failed' \subseteq Session
      <3>1. \E to \in Places : at' = [at EXCEPT ![s] = to]
        BY DEF Places
      <3>2. failed' = failed \/ failed' = failed \union {s}
        OBVIOUS
      <3> HIDE DEF ExtractCaResources, At, Fails
      <3> QED
        BY <3>1, <3>2 DEF TypeOK
    <2>2. product' \in Version \union {None} /\ service' \in Version \union {None}
          /\ tmp' \in Version \union {None} /\ plugin' \in Version \union {None}
      BY DEF TypeOK
    <2>3. resource' \in [Session -> {"none", "partial", "complete"}] /\ ident' \in 0..3
          /\ event' \in {"none", "complete", "error"}
      BY DEF TypeOK
    <2>4. UNCHANGED begun /\ intact' \in BOOLEAN /\ blind' \in BOOLEAN
      BY DEF TypeOK
    <2> QED
      BY <2>1, <2>2, <2>3, <2>4 DEF TypeOK
  <1>2. NestOK'
    BY DEF TypeOK, NestOK, Session, Turn
  <1>3. FitOK'
    BY DEF TypeOK, FitOK, Session, Committed, Version, IsOlderBuild, NestOK, Turn
  <1>4. PluginOK'
    BY DEF TypeOK, PluginOK, Session, NestOK, Turn
  <1>5. EventOK'
    BY DEF TypeOK, EventOK, FitOK, PluginOK, Session, Committed, NestOK, Turn
  <1> QED
    BY <1>1, <1>2, <1>3, <1>4, <1>5

LEMMA CollectUCDataStep ==
  ASSUME IInv, NEW s \in Session, Turn(s), CollectUCData(s)
  PROVE  IInv'
  <1> USE DEF IInv, CollectUCData, At, Fails, files, told, begun, ForGood, SupportLoads
  <1>1. TypeOK'
    <2>1. at' \in [Session -> Places] /\ failed' \subseteq Session
      BY DEF TypeOK, Session, Places
    <2>2. product' \in Version \union {None} /\ service' \in Version \union {None}
          /\ tmp' \in Version \union {None} /\ plugin' \in Version \union {None}
      BY DEF TypeOK
    <2>3. resource' \in [Session -> {"none", "partial", "complete"}] /\ ident' \in 0..3
          /\ event' \in {"none", "complete", "error"}
      BY DEF TypeOK
    <2>4. UNCHANGED begun /\ intact' \in BOOLEAN /\ blind' \in BOOLEAN
      BY DEF TypeOK
    <2> QED
      BY <2>1, <2>2, <2>3, <2>4 DEF TypeOK
  <1>2. NestOK'
    BY DEF TypeOK, NestOK, Session, Turn
  <1>3. FitOK'
    BY DEF TypeOK, FitOK, Session, Committed, Version, IsOlderBuild, NestOK, Turn
  <1>4. PluginOK'
    BY DEF TypeOK, PluginOK, Session, NestOK, Turn
  <1>5. EventOK'
    BY DEF TypeOK, EventOK, FitOK, PluginOK, Session, Committed, NestOK, Turn
  <1> QED
    BY <1>1, <1>2, <1>3, <1>4, <1>5

LEMMA DetectOlderBuildVersionStep ==
  ASSUME IInv, NEW s \in Session, Turn(s), DetectOlderBuildVersion(s)
  PROVE  IInv'
  <1> USE DEF IInv, DetectOlderBuildVersion, At, Fails, files, told, begun, IsSideGrade, IsOlderBuild
  <1>1. TypeOK'
    <2>1. at' \in [Session -> Places] /\ failed' \subseteq Session
      BY DEF TypeOK, Session, Places
    <2>2. product' \in Version \union {None} /\ service' \in Version \union {None}
          /\ tmp' \in Version \union {None} /\ plugin' \in Version \union {None}
      BY DEF TypeOK
    <2>3. resource' \in [Session -> {"none", "partial", "complete"}] /\ ident' \in 0..3
          /\ event' \in {"none", "complete", "error"}
      BY DEF TypeOK
    <2>4. UNCHANGED begun /\ intact' \in BOOLEAN /\ blind' \in BOOLEAN
      BY DEF TypeOK
    <2> QED
      BY <2>1, <2>2, <2>3, <2>4 DEF TypeOK
  <1>2. NestOK'
    BY DEF TypeOK, NestOK, Session, Turn
  <1>3. FitOK'
    BY DEF TypeOK, FitOK, Session, Committed, Version, IsOlderBuild, NestOK, Turn
  <1>4. PluginOK'
    BY DEF TypeOK, PluginOK, Session, NestOK, Turn
  <1>5. EventOK'
    BY DEF TypeOK, EventOK, FitOK, PluginOK, Session, Committed, NestOK, Turn
  <1> QED
    BY <1>1, <1>2, <1>3, <1>4, <1>5

LEMMA DetectValidWindowsVersionStep ==
  ASSUME IInv, NEW s \in Session, Turn(s), DetectValidWindowsVersion(s)
  PROVE  IInv'
  <1> USE DEF IInv, DetectValidWindowsVersion, At, Fails, files, told, begun
  <1>1. TypeOK'
    <2>1. at' \in [Session -> Places] /\ failed' \subseteq Session
      <3>1. \E to \in Places : at' = [at EXCEPT ![s] = to]
        BY DEF Places
      <3>2. failed' = failed \/ failed' = failed \union {s}
        OBVIOUS
      <3> HIDE DEF DetectValidWindowsVersion, At, Fails
      <3> QED
        BY <3>1, <3>2 DEF TypeOK
    <2>2. product' \in Version \union {None} /\ service' \in Version \union {None}
          /\ tmp' \in Version \union {None} /\ plugin' \in Version \union {None}
      BY DEF TypeOK
    <2>3. resource' \in [Session -> {"none", "partial", "complete"}] /\ ident' \in 0..3
          /\ event' \in {"none", "complete", "error"}
      BY DEF TypeOK
    <2>4. UNCHANGED begun /\ intact' \in BOOLEAN /\ blind' \in BOOLEAN
      BY DEF TypeOK
    <2> QED
      BY <2>1, <2>2, <2>3, <2>4 DEF TypeOK
  <1>2. NestOK'
    BY DEF TypeOK, NestOK, Session, Turn
  <1>3. FitOK'
    BY DEF TypeOK, FitOK, Session, Committed, Version, IsOlderBuild, NestOK, Turn
  <1>4. PluginOK'
    BY DEF TypeOK, PluginOK, Session, NestOK, Turn
  <1>5. EventOK'
    BY DEF TypeOK, EventOK, FitOK, PluginOK, Session, Committed, NestOK, Turn
  <1> QED
    BY <1>1, <1>2, <1>3, <1>4, <1>5

LEMMA RemoveCscPluginStep ==
  ASSUME IInv, NEW s \in Session, Turn(s), RemoveCscPlugin(s)
  PROVE  IInv'
  <1> USE DEF IInv, RemoveCscPlugin, At, Fails, files, told, begun, Removing
  <1>1. TypeOK'
    <2>1. at' \in [Session -> Places] /\ failed' \subseteq Session
      <3>1. \E to \in Places : at' = [at EXCEPT ![s] = to]
        BY DEF Places
      <3>2. failed' = failed \/ failed' = failed \union {s}
        OBVIOUS
      <3> HIDE DEF RemoveCscPlugin, At, Fails
      <3> QED
        BY <3>1, <3>2 DEF TypeOK
    <2>2. product' \in Version \union {None} /\ service' \in Version \union {None}
          /\ tmp' \in Version \union {None} /\ plugin' \in Version \union {None}
      BY DEF TypeOK
    <2>3. resource' \in [Session -> {"none", "partial", "complete"}] /\ ident' \in 0..3
          /\ event' \in {"none", "complete", "error"}
      BY DEF TypeOK
    <2>4. UNCHANGED begun /\ intact' \in BOOLEAN /\ blind' \in BOOLEAN
      BY DEF TypeOK
    <2> QED
      BY <2>1, <2>2, <2>3, <2>4 DEF TypeOK
  <1>2. NestOK'
    BY DEF TypeOK, NestOK, Session, Turn
  <1>3. FitOK'
    BY DEF TypeOK, FitOK, Session, Committed, Version, IsOlderBuild, NestOK, Turn
  <1>4. PluginOK'
    BY DEF TypeOK, PluginOK, Session, NestOK, Turn
  <1>5. EventOK'
    BY DEF TypeOK, EventOK, FitOK, PluginOK, Session, Committed, NestOK, Turn
  <1> QED
    BY <1>1, <1>2, <1>3, <1>4, <1>5

LEMMA MoveFilesStep ==
  ASSUME IInv, NEW s \in Session, Turn(s), MoveFiles(s)
  PROVE  IInv'
  <1> USE DEF IInv, MoveFiles, At, Fails, files, told, begun, ForGood, Removing
  <1>1. TypeOK'
    <2>1. at' \in [Session -> Places] /\ failed' \subseteq Session
      BY DEF TypeOK, Session, Places
    <2>2. product' \in Version \union {None} /\ service' \in Version \union {None}
          /\ tmp' \in Version \union {None} /\ plugin' \in Version \union {None}
      BY DEF TypeOK
    <2>3. resource' \in [Session -> {"none", "partial", "complete"}] /\ ident' \in 0..3
          /\ event' \in {"none", "complete", "error"}
      BY DEF TypeOK
    <2>4. UNCHANGED begun /\ intact' \in BOOLEAN /\ blind' \in BOOLEAN
      BY DEF TypeOK
    <2> QED
      BY <2>1, <2>2, <2>3, <2>4 DEF TypeOK
  <1>2. NestOK'
    BY DEF TypeOK, NestOK, Session, Turn
  <1>3. FitOK'
    BY DEF TypeOK, FitOK, Session, Committed, Version, IsOlderBuild, NestOK, Turn
  <1>4. PluginOK'
    BY DEF TypeOK, PluginOK, Session, NestOK, Turn
  <1>5. EventOK'
    BY DEF TypeOK, EventOK, FitOK, PluginOK, Session, Committed, NestOK, Turn
  <1> QED
    BY <1>1, <1>2, <1>3, <1>4, <1>5

LEMMA RemoveExistingProductsStep ==
  ASSUME IInv, NEW s \in Session, Turn(s), RemoveExistingProducts(s)
  PROVE  IInv'
  <1> USE DEF IInv, RemoveExistingProducts, At, Fails, files, told, begun, Removing
  <1>1. TypeOK'
    <2>1. at' \in [Session -> Places] /\ failed' \subseteq Session
      BY DEF TypeOK, Session, Places
    <2>2. product' \in Version \union {None} /\ service' \in Version \union {None}
          /\ tmp' \in Version \union {None} /\ plugin' \in Version \union {None}
      BY DEF TypeOK
    <2>3. resource' \in [Session -> {"none", "partial", "complete"}] /\ ident' \in 0..3
          /\ event' \in {"none", "complete", "error"}
      BY DEF TypeOK
    <2>4. UNCHANGED begun /\ intact' \in BOOLEAN /\ blind' \in BOOLEAN
      BY DEF TypeOK
    <2> QED
      BY <2>1, <2>2, <2>3, <2>4 DEF TypeOK
  <1>2. NestOK'
    BY DEF TypeOK, NestOK, Session, Turn
  <1>3. FitOK'
    BY DEF TypeOK, FitOK, Session, Committed, Version, IsOlderBuild, NestOK, Turn
  <1>4. PluginOK'
    BY DEF TypeOK, PluginOK, Session, NestOK, Turn
  <1>5. EventOK'
    BY DEF TypeOK, EventOK, FitOK, PluginOK, Session, Committed, NestOK, Turn
  <1> QED
    BY <1>1, <1>2, <1>3, <1>4, <1>5

LEMMA CopyCscPluginStep ==
  ASSUME IInv, NEW s \in Session, Turn(s), CopyCscPlugin(s)
  PROVE  IInv'
  <1> USE DEF IInv, CopyCscPlugin, At, Fails, files, told, begun, Removing, CopyPlugin, CopySucceeds
  <1>1. TypeOK'
    <2>1. at' \in [Session -> Places] /\ failed' \subseteq Session
      BY DEF TypeOK, Session, Places
    <2>2. product' \in Version \union {None} /\ service' \in Version \union {None}
          /\ tmp' \in Version \union {None} /\ plugin' \in Version \union {None}
      BY DEF TypeOK
    <2>3. resource' \in [Session -> {"none", "partial", "complete"}] /\ ident' \in 0..3
          /\ event' \in {"none", "complete", "error"}
      BY DEF TypeOK
    <2>4. UNCHANGED begun /\ intact' \in BOOLEAN /\ blind' \in BOOLEAN
      BY DEF TypeOK
    <2> QED
      BY <2>1, <2>2, <2>3, <2>4 DEF TypeOK
  <1>2. NestOK'
    BY DEF TypeOK, NestOK, Session, Turn
  <1>3. FitOK'
    BY DEF TypeOK, FitOK, Session, Committed, Version, IsOlderBuild, NestOK, Turn
  <1>4. PluginOK'
    BY DEF TypeOK, PluginOK, Session, NestOK, Turn
  <1>5. EventOK'
    BY DEF TypeOK, EventOK, FitOK, PluginOK, Session, Committed, NestOK, Turn
  <1> QED
    BY <1>1, <1>2, <1>3, <1>4, <1>5

LEMMA InstallFinalizeStep ==
  ASSUME IInv, NEW s \in Session, Turn(s), InstallFinalize(s)
  PROVE  IInv'
  <1> USE DEF IInv, InstallFinalize, At, Fails, files, told, begun, Removing
  <1>1. TypeOK'
    <2>1. at' \in [Session -> Places] /\ failed' \subseteq Session
      BY DEF TypeOK, Session, Places
    <2>2. product' \in Version \union {None} /\ service' \in Version \union {None}
          /\ tmp' \in Version \union {None} /\ plugin' \in Version \union {None}
      BY DEF TypeOK
    <2>3. resource' \in [Session -> {"none", "partial", "complete"}] /\ ident' \in 0..3
          /\ event' \in {"none", "complete", "error"}
      BY DEF TypeOK
    <2>4. UNCHANGED begun /\ intact' \in BOOLEAN /\ blind' \in BOOLEAN
      BY DEF TypeOK
    <2> QED
      BY <2>1, <2>2, <2>3, <2>4 DEF TypeOK
  <1>2. NestOK'
    BY DEF TypeOK, NestOK, Session, Turn
  <1>3. FitOK'
    BY DEF TypeOK, FitOK, Session, Committed, Version, IsOlderBuild, NestOK, Turn
  <1>4. PluginOK'
    BY DEF TypeOK, PluginOK, Session, NestOK, Turn
  <1>5. EventOK'
    BY DEF TypeOK, EventOK, FitOK, PluginOK, Session, Committed, NestOK, Turn
  <1> QED
    BY <1>1, <1>2, <1>3, <1>4, <1>5

LEMMA SendEventOnUninstallCompleteStep ==
  ASSUME IInv, NEW s \in Session, Turn(s), SendEventOnUninstallComplete(s)
  PROVE  IInv'
  <1> USE DEF IInv, SendEventOnUninstallComplete, At, Fails, files, told, begun, SendEvent, ForGood, SupportLoads
  <1>1. TypeOK'
    <2>1. at' \in [Session -> Places] /\ failed' \subseteq Session
      BY DEF TypeOK, Session, Places
    <2>2. product' \in Version \union {None} /\ service' \in Version \union {None}
          /\ tmp' \in Version \union {None} /\ plugin' \in Version \union {None}
      BY DEF TypeOK
    <2>3. resource' \in [Session -> {"none", "partial", "complete"}] /\ ident' \in 0..3
          /\ event' \in {"none", "complete", "error"}
      BY DEF TypeOK
    <2>4. UNCHANGED begun /\ intact' \in BOOLEAN /\ blind' \in BOOLEAN
      BY DEF TypeOK
    <2> QED
      BY <2>1, <2>2, <2>3, <2>4 DEF TypeOK
  <1>2. NestOK'
    BY DEF TypeOK, NestOK, Session, Turn
  <1>3. FitOK'
    BY DEF TypeOK, FitOK, Session, Committed, Version, IsOlderBuild, NestOK, Turn
  <1>4. PluginOK'
    BY DEF TypeOK, PluginOK, Session, NestOK, Turn
  <1>5. EventOK'
    BY DEF TypeOK, EventOK, FitOK, PluginOK, Session, Committed, NestOK, Turn
  <1> QED
    BY <1>1, <1>2, <1>3, <1>4, <1>5

LEMMA RemoveCaResourcesStep ==
  ASSUME IInv, NEW s \in Session, Turn(s), RemoveCaResources(s)
  PROVE  IInv'
  <1> USE DEF IInv, RemoveCaResources, At, Fails, files, told, begun, SupportLoads
  <1>1. TypeOK'
    <2>1. at' \in [Session -> Places] /\ failed' \subseteq Session
      BY DEF TypeOK, Session, Places
    <2>2. product' \in Version \union {None} /\ service' \in Version \union {None}
          /\ tmp' \in Version \union {None} /\ plugin' \in Version \union {None}
      BY DEF TypeOK
    <2>3. resource' \in [Session -> {"none", "partial", "complete"}] /\ ident' \in 0..3
          /\ event' \in {"none", "complete", "error"}
      BY DEF TypeOK
    <2>4. UNCHANGED begun /\ intact' \in BOOLEAN /\ blind' \in BOOLEAN
      BY DEF TypeOK
    <2> QED
      BY <2>1, <2>2, <2>3, <2>4 DEF TypeOK
  <1>2. NestOK'
    BY DEF TypeOK, NestOK, Session, Turn
  <1>3. FitOK'
    BY DEF TypeOK, FitOK, Session, Committed, Version, IsOlderBuild, NestOK, Turn
  <1>4. PluginOK'
    BY DEF TypeOK, PluginOK, Session, NestOK, Turn
  <1>5. EventOK'
    BY DEF TypeOK, EventOK, FitOK, PluginOK, Session, Committed, NestOK, Turn
  <1> QED
    BY <1>1, <1>2, <1>3, <1>4, <1>5

LEMMA RollbackStep ==
  ASSUME IInv, NEW s \in Session, Turn(s), Rollback(s)
  PROVE  IInv'
  <1> USE DEF IInv, Rollback, At, Fails, files, told, begun, ForGood
  <1>1. TypeOK'
    <2>1. at' \in [Session -> Places] /\ failed' \subseteq Session
      BY DEF TypeOK, Session, Places
    <2>2. product' \in Version \union {None} /\ service' \in Version \union {None}
          /\ tmp' \in Version \union {None} /\ plugin' \in Version \union {None}
      BY DEF TypeOK, Files
    <2>3. resource' \in [Session -> {"none", "partial", "complete"}] /\ ident' \in 0..3
          /\ event' \in {"none", "complete", "error"}
      BY DEF TypeOK
    <2>4. UNCHANGED begun /\ intact' \in BOOLEAN /\ blind' \in BOOLEAN
      BY DEF TypeOK
    <2> QED
      BY <2>1, <2>2, <2>3, <2>4 DEF TypeOK
  <1>2. NestOK'
    BY DEF TypeOK, NestOK, Session, Turn
  <1>3. FitOK'
    BY DEF TypeOK, FitOK, Session, Committed, Version, IsOlderBuild, NestOK, Turn
  <1>4. PluginOK'
    BY DEF TypeOK, PluginOK, Session, NestOK, Turn
  <1>5. EventOK'
    BY DEF TypeOK, EventOK, FitOK, PluginOK, Session, Committed, NestOK, Turn
  <1> QED
    BY <1>1, <1>2, <1>3, <1>4, <1>5

LEMMA SendEventOnUninstallErrorStep ==
  ASSUME IInv, NEW s \in Session, Turn(s), SendEventOnUninstallError(s)
  PROVE  IInv'
  <1> USE DEF IInv, SendEventOnUninstallError, At, Fails, files, told, begun, SendEvent, ForGood, SupportLoads
  <1>1. TypeOK'
    <2>1. at' \in [Session -> Places] /\ failed' \subseteq Session
      BY DEF TypeOK, Session, Places
    <2>2. product' \in Version \union {None} /\ service' \in Version \union {None}
          /\ tmp' \in Version \union {None} /\ plugin' \in Version \union {None}
      BY DEF TypeOK
    <2>3. resource' \in [Session -> {"none", "partial", "complete"}] /\ ident' \in 0..3
          /\ event' \in {"none", "complete", "error"}
      BY DEF TypeOK
    <2>4. UNCHANGED begun /\ intact' \in BOOLEAN /\ blind' \in BOOLEAN
      BY DEF TypeOK
    <2> QED
      BY <2>1, <2>2, <2>3, <2>4 DEF TypeOK
  <1>2. NestOK'
    BY DEF TypeOK, NestOK, Session, Turn
  <1>3. FitOK'
    BY DEF TypeOK, FitOK, Session, Committed, Version, IsOlderBuild, NestOK, Turn
  <1>4. PluginOK'
    BY DEF TypeOK, PluginOK, Session, NestOK, Turn
  <1>5. EventOK'
    BY DEF TypeOK, EventOK, FitOK, PluginOK, Session, Committed, NestOK, Turn
  <1> QED
    BY <1>1, <1>2, <1>3, <1>4, <1>5

LEMMA NestedFailsStep == ASSUME IInv, NestedFails PROVE IInv'
  <1> USE DEF IInv, NestedFails, Turn, At, Fails, files, told, begun
  <1>1. TypeOK'
    BY DEF TypeOK, Session, Places
  <1>2. NestOK'
    BY DEF TypeOK, NestOK, Session
  <1>3. FitOK' /\ PluginOK' /\ EventOK'
    BY DEF TypeOK, FitOK, PluginOK, EventOK, Session, Committed, IsOlderBuild
  <1> QED
    BY <1>1, <1>2, <1>3

LEMMA StepInTurn == ASSUME NEW s \in Session, Step(s) PROVE Turn(s)
  BY DEF Step, ExtractCaResources, CollectUCData, DetectOlderBuildVersion,
     DetectValidWindowsVersion, RemoveCscPlugin, MoveFiles, RemoveExistingProducts,
     CopyCscPlugin, CopyPlugin, InstallFinalize, SendEventOnUninstallComplete,
     RemoveCaResources, Rollback, SendEventOnUninstallError, SendEvent, Fails, At

LEMMA SessionStep == ASSUME IInv, NEW s \in Session, Step(s) PROVE IInv'
  BY StepInTurn, ExtractCaResourcesStep, CollectUCDataStep, DetectOlderBuildVersionStep,
     DetectValidWindowsVersionStep, RemoveCscPluginStep, MoveFilesStep,
     RemoveExistingProductsStep, CopyCscPluginStep, InstallFinalizeStep,
     SendEventOnUninstallCompleteStep, RemoveCaResourcesStep, RollbackStep,
     SendEventOnUninstallErrorStep DEF Step

LEMMA StutterStep == ASSUME IInv, UNCHANGED vars PROVE IInv'
  BY DEF IInv, TypeOK, NestOK, FitOK, PluginOK, EventOK, Committed, IsOlderBuild, vars, files, told

LEMMA NextStep == ASSUME IInv, [Next]_vars PROVE IInv'
  <1>1. CASE \E m \in Modes, v \in Version : Begin(m, v)
    BY <1>1, BeginStep
  <1>2. CASE \E s \in Session : Step(s)
    BY <1>2, SessionStep
  <1>3. CASE NestedFails
    BY <1>3, NestedFailsStep
  <1>4. CASE UNCHANGED vars
    BY <1>4, StutterStep
  <1> QED
    BY <1>1, <1>2, <1>3, <1>4 DEF Next

\* The order of the custom actions settles, place by place, what the session may rely on: for
\* any set of releases and builds.
THEOREM Invariance == Spec => []IInv
  <1>1. Init => IInv
    BY InitIInv
  <1>2. IInv /\ [Next]_vars => IInv'
    BY NextStep
  <1> QED
    BY <1>1, <1>2, PTL DEF Spec

\* Every variable keeps its type.
THEOREM TypeCorrect == Spec => []TypeOK
  <1>1. IInv => TypeOK
    BY DEF IInv
  <1> QED
    BY <1>1, Invariance, PTL

\* CopyCscPlugin() and the removal nested in an upgrade leave the plugin of the installed
\* product, whenever the session succeeds.
THEOREM PluginFollowsProduct == Spec => []PluginFits
  <1>1. IInv => PluginFits
    BY DEF IInv, PluginOK, PluginFits, Over, Session
  <1> QED
    BY <1>1, Invariance, PTL

\* SendEventOnUninstallComplete() and SendEventOnUninstallError() tell the cloud what is the case.
THEOREM EventsAreTrue == Spec => []EventTellsTruth
  <1>1. IInv => EventTellsTruth
    BY DEF IInv, EventOK, EventTellsTruth
  <1> QED
    BY <1>1, Invariance, PTL

\* The product changes when the main session is committed, and then to a package that
\* DetectOlderBuildVersion() has let pass.
LEMMA ProductStep ==
  ASSUME IInv, [Next]_vars, product # None, product' # None
  PROVE  blind \/ Leq(product, product')
  <1>1. CASE product' = product
    <2>1. product \in Version
      BY DEF IInv, TypeOK
    <2>2. product.release \in Nat /\ product.build \in Nat
      BY <2>1, VersionAssumption DEF Version
    <2> QED
      BY <1>1, <2>2 DEF Leq
  <1>2. CASE product' # product
    <2>1. at["main"] = "finalize" /\ mode # "uninstall" /\ product' = target
      BY <1>2 DEF Next, Begin, Step, ExtractCaResources, CollectUCData, DetectOlderBuildVersion,
         DetectValidWindowsVersion, RemoveCscPlugin, MoveFiles, RemoveExistingProducts, CopyCscPlugin,
         InstallFinalize, SendEventOnUninstallComplete, RemoveCaResources, Rollback,
         SendEventOnUninstallError, NestedFails, At, vars, Session
    <2>2. mode = "upgrade" /\ target \in Version /\ target.release >= product.release
      BY <1>2, <2>1 DEF IInv, TypeOK, FitOK, Committed, Modes
    <2>3. blind \/ ~IsOlderBuild(product, target)
      BY <2>1, <2>2 DEF IInv, FitOK
    <2>4. product \in Version
      BY DEF IInv, TypeOK
    <2>5. /\ product.release \in Nat /\ product.build \in Nat
          /\ target.release \in Nat /\ target.build \in Nat
      BY <2>2, <2>4, VersionAssumption DEF Version
    <2> QED
      BY <2>1, <2>2, <2>3, <2>5 DEF IsOlderBuild, Leq
  <1> QED
    BY <1>1, <1>2

\* No upgrade brings an older release or an older build of the same release.
THEOREM NeverDowngraded == Spec => NoDowngrade
  <1>1. IInv /\ [Next]_vars => [(product # None /\ product' # None) => blind \/ Leq(product, product')]_vars
    BY ProductStep
  <1> QED
    BY <1>1, Invariance, PTL DEF Spec, NoDowngrade
=============================================================================
