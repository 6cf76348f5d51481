--------------------------- MODULE InstallerActions ---------------------------
(***************************************************************************)
(* The custom actions of the Windows Installer package, in the order of    *)
(* Product.wxs: a session installs, upgrades, repairs or removes the       *)
(* product; an upgrade removes the old product in a session nested in its  *)
(* own.  Windows Installer takes back what a failed session did to files   *)
(* and products; what the custom actions did to the plugin that Secure     *)
(* Client loads, csccmplugin.dll, it does not know and leaves.             *)
(***************************************************************************)
EXTENDS Naturals, Sequences

CONSTANTS Release,   \* the first three fields of a version, in their order
          Build,     \* the fourth, which Windows Installer ignores
          None

ASSUME VersionAssumption ==
  /\ Release \subseteq Nat /\ Build \subseteq Nat
  /\ None \notin [release : Release, build : Build]

Version  == [release : Release, build : Build]
Session  == {"main", "nested"}
Machine  == [arm : BOOLEAN, windows : {<<6, 3, 9600>>, <<10, 0, 19045>>, <<10, 0, 22000>>}]
Property == {"CSC_PLUGIN_DIRECTORY", "UCSERVICE_DIRECTORY", "UC_INSTALLCACHE_DIR"}

VARIABLES
  machine,   \* processor and version of ntdll.dll
  product,   \* the product that Windows Installer knows as installed
  service,   \* csccmplugin.dll in the directory of the service, by its version
  tmp,       \* the .tmp file beside it
  plugin,    \* csccmplugin.dll in the directory of Secure Client
  mode,      \* what the main session does
  target,    \* the version whose package it runs
  at,        \* where each session is
  failed,    \* the sessions that failed
  resource,  \* directory UC_RESOURCE_DIR of a session
  ident,     \* UC_EVENT_URL, _UCID and _UCID_TOKEN: how many of them were set
  event,     \* the event the main session has sent
  before,    \* history: the files when the main session began
  intact,    \* history: the last session succeeded
  blind      \* history: a version could not be read

files == <<service, tmp, plugin>>
told  == <<ident, event>>
begun == <<machine, mode, target, before>>
vars  == <<machine, product, files, mode, target, at, failed, resource, told, before, intact, blind>>

Files  == [service : Version \union {None}, tmp : Version \union {None}, plugin : Version \union {None}]
Places == {"idle", "extract", "collect", "older", "windows", "removal", "files", "existing",
           "copy", "finalize", "complete", "cleanup", "rollback", "error"}
Modes  == {"install", "upgrade", "repair", "uninstall"}

\* Every variable has its type.
TypeOK ==
  /\ machine \in Machine /\ product \in Version \union {None}
  /\ service \in Version \union {None} /\ tmp \in Version \union {None}
  /\ plugin \in Version \union {None}
  /\ mode \in Modes /\ target \in Version \union {None}
  /\ at \in [Session -> Places] /\ failed \subseteq Session
  /\ resource \in [Session -> {"none", "partial", "complete"}]
  /\ ident \in 0..3 /\ event \in {"none", "complete", "error"}
  /\ before \in Files
  /\ intact \in BOOLEAN /\ blind \in BOOLEAN

Init ==
  /\ machine \in Machine
  /\ product = None /\ service = None /\ tmp = None /\ plugin = None
  /\ mode = "install" /\ target = None
  /\ at = [s \in Session |-> "idle"] /\ failed = {}
  /\ resource = [s \in Session |-> "none"]
  /\ ident = 0 /\ event = "none"
  /\ before = [service |-> None, tmp |-> None, plugin |-> None]
  /\ intact = TRUE /\ blind = FALSE

\* REMOVE~="ALL", with or without UPGRADINGPRODUCTCODE.
Removing(s) == s = "nested" \/ mode = "uninstall"

\* Mutant: the condition forgets UPGRADINGPRODUCTCODE.
BugEveryRemoval(s) == Removing(s)

\* (REMOVE~="ALL") AND (NOT UPGRADINGPRODUCTCODE).
ForGood(s) == s = "main" /\ mode = "uninstall"

\* The main session waits for the nested one.
Turn(s) == s = "main" => at["nested"] = "idle"

At(s, from, to) == Turn(s) /\ at[s] = from /\ at' = [at EXCEPT ![s] = to]
Fails(s, from)  == At(s, from, "rollback") /\ failed' = failed \union {s}

(***************************************************************************)
(* Before the installation: ExtractCaResources, CollectUCData and the two  *)
(* checks.                                                                 *)
(***************************************************************************)

\* ExtractResources() creates a directory of its own for the session and goes on when a file
\* cannot be written; UC_RESOURCE_DIR names the directory only if it is complete and the
\* property could be stored.  A path that cannot be created throws out of the action.
ExtractCaResources(s) ==
  \/ /\ At(s, "extract", "collect")
     /\ \E r \in {"partial", "complete"} : resource' = [resource EXCEPT ![s] = r]
     /\ UNCHANGED <<product, files, failed, told, begun, intact, blind>>
  \/ Fails(s, "extract") /\ UNCHANGED <<product, files, resource, told, begun, intact, blind>>

\* LoadCaSupportDll(): from the directory of this session or not at all.
SupportLoads(s) == resource[s] = "complete"

\* Errors are ignored; the three properties are set one after the other.
CollectUCData(s) ==
  /\ At(s, "collect", "older")
  /\ ident' \in IF ForGood(s) /\ SupportLoads(s) THEN 0..3 ELSE {ident}
  /\ UNCHANGED <<product, files, failed, resource, event, begun, intact, blind>>

\* Mutant: the numbers are compared the wrong way round.
BugOlder(old, new) == new.build > old.build

\* The version as a string up to the last point is the same, and the number after it less.
IsOlderBuild(old, new) == old.release = new.release /\ old.build > new.build

\* Only if FindRelatedProducts has found the product to upgrade.
IsSideGrade(s) == s = "main" /\ mode = "upgrade" /\ IsOlderBuild(product, target)

\* GetPreviousBuildVersion(): a version that cannot be read, of this product or of one listed
\* before it, is no reason to fail.
DetectOlderBuildVersion(s) ==
  /\ \/ ~IsSideGrade(s) /\ At(s, "older", "windows") /\ UNCHANGED <<failed, blind>>
     \/ IsSideGrade(s) /\ Fails(s, "older") /\ UNCHANGED blind
     \/ IsSideGrade(s) /\ At(s, "older", "windows") /\ blind' = TRUE /\ UNCHANGED failed
  /\ UNCHANGED <<product, files, resource, told, begun, intact>>

IsWindows10OrGreater(v) == v[1] >= 10
IsWindows11OrGreater(v) ==
  \/ v[1] > 10
  \/ v[1] = 10 /\ v[2] > 0
  \/ v[1] = 10 /\ v[2] = 0 /\ v[3] >= 22000

IsValidWindows(m) == IF m.arm THEN IsWindows11OrGreater(m.windows) ELSE IsWindows10OrGreater(m.windows)

DetectValidWindowsVersion(s) ==
  /\ \/ IsValidWindows(machine) /\ At(s, "windows", "removal") /\ UNCHANGED failed
     \/ ~IsValidWindows(machine) /\ Fails(s, "windows")
  /\ UNCHANGED <<product, files, resource, told, begun, intact, blind>>

(***************************************************************************)
(* The plugin.                                                             *)
(***************************************************************************)

\* BuildCustomActionData() leaves out a property it cannot read and Tokenize() one that is
\* empty: what the deferred action gets is the list without those.
CustomActionData(list, lost) == SelectSeq(list, LAMBDA p : p \notin lost)

\* Whether the action works on the paths it was given: with too few of them it goes on all the
\* same, on empty paths, because hr is still S_OK.
HasPaths(list, lost) == Len(CustomActionData(list, lost)) >= Len(list)

\* SetupRemoveCscPluginData fails when nothing is left to hand over.  RemoveCscPlugin() succeeds
\* even when MovePluginForDeletion() does not.
RemoveCscPlugin(s) ==
  \/ /\ ~Removing(s) /\ At(s, "removal", "files")
     /\ UNCHANGED <<product, files, failed, resource, told, begun, intact, blind>>
  \/ /\ Removing(s)
     /\ UNCHANGED <<product, service, tmp, resource, told, begun, intact, blind>>
     /\ \E lost \in SUBSET Property :
          LET list == <<"CSC_PLUGIN_DIRECTORY", "UC_INSTALLCACHE_DIR">>
          IN  \/ /\ CustomActionData(list, lost) = <<>>
                 /\ Fails(s, "removal") /\ UNCHANGED plugin
              \/ /\ At(s, "removal", "files") /\ UNCHANGED failed
                 /\ plugin' \in IF HasPaths(list, lost) THEN {plugin, None} ELSE {plugin}

\* Mutant: what copy_file() reports is only logged.
BugCopyUnchecked(copied, renamed) == renamed

\* hr at the end of CopyCscPlugin().
CopySucceeds(copied, renamed) == copied /\ renamed

\* The plugin that is there is moved away for deletion; then the new one is copied beside the
\* service's and renamed.  The rename is tried even if the copy has failed, and then takes a
\* .tmp file that an earlier session left.
CopyPlugin(s) ==
  \E copied, renamed \in BOOLEAN :
    LET file == IF copied THEN service ELSE tmp
    IN  /\ copied => service # None
        /\ renamed => file # None
        /\ plugin' = IF renamed THEN file ELSE None
        /\ tmp' = IF renamed THEN None ELSE file
        /\ IF CopySucceeds(copied, renamed)
           THEN At(s, "copy", "finalize") /\ UNCHANGED failed
           ELSE Fails(s, "copy")

CopyCscPlugin(s) ==
  \/ /\ Removing(s) /\ At(s, "copy", "finalize")
     /\ UNCHANGED <<product, files, failed, resource, told, begun, intact, blind>>
  \/ /\ ~Removing(s) /\ "nested" \notin failed
     /\ UNCHANGED <<product, service, resource, told, begun, intact, blind>>
     /\ \/ Fails(s, "copy") /\ UNCHANGED <<plugin, tmp>>
        \/ CopyPlugin(s)

(***************************************************************************)
(* The events of an uninstallation, and the end of the session.            *)
(***************************************************************************)

\* EventFacade's result is TRUE whatever became of the event, and nobody looks at it.
SendEvent(s, kind, from, to) ==
  /\ At(s, from, to)
  /\ event' \in IF ForGood(s) /\ SupportLoads(s) THEN {event, kind} ELSE {event}

SendEventOnUninstallComplete(s) ==
  /\ SendEvent(s, "complete", "complete", "cleanup")
  /\ UNCHANGED <<product, files, failed, resource, ident, begun, intact, blind>>

SendEventOnUninstallError(s) ==
  /\ SendEvent(s, "error", "error", "idle")
  /\ UNCHANGED <<product, files, failed, resource, ident, begun, intact, blind>>

\* RemoveCaResources runs after a success only.  DeleteResources() removes the directory, now or
\* with the next start of Windows.
RemoveCaResources(s) ==
  /\ At(s, "cleanup", "idle")
  /\ resource' = IF SupportLoads(s) THEN [resource EXCEPT ![s] = "none"] ELSE resource
  /\ UNCHANGED <<product, files, failed, told, begun, intact, blind>>

(***************************************************************************)
(* Windows Installer.                                                      *)
(***************************************************************************)

\* An older release is refused, another build of the same one is an upgrade.
Fits(m, v) ==
  CASE m = "install" -> product = None
    [] m = "upgrade" -> product # None /\ v # product /\ v.release >= product.release
    [] OTHER         -> product # None /\ v = product

Begin(m, v) ==
  /\ at["main"] = "idle" /\ Fits(m, v)
  /\ mode' = m /\ target' = v
  /\ at' = [at EXCEPT !["main"] = "extract"] /\ failed' = {}
  /\ resource' = [s \in Session |-> "none"]
  /\ ident' = 0 /\ event' = "none"
  /\ before' = [service |-> service, tmp |-> tmp, plugin |-> plugin]
  /\ UNCHANGED <<machine, product, files, intact, blind>>

\* Files are installed or removed; a removal takes what it finds in the service's directory.
MoveFiles(s) ==
  \/ /\ At(s, "files", "existing")
     /\ service' = CASE s = "nested" -> service
                     [] mode = "uninstall" -> None
                     [] OTHER -> target
     /\ tmp' = IF ForGood(s) THEN None ELSE tmp
     /\ UNCHANGED <<product, plugin, failed, resource, told, begun, intact, blind>>
  \/ Fails(s, "files") /\ UNCHANGED <<product, files, resource, told, begun, intact, blind>>

\* RemoveExistingProducts, scheduled after InstallExecute: a session nested in this one.
RemoveExistingProducts(s) ==
  /\ Turn(s) /\ at[s] = "existing"
  /\ UNCHANGED <<product, files, told, begun, intact, blind>>
  /\ \/ /\ s = "nested" \/ mode # "upgrade"
        /\ At(s, "existing", "copy") /\ UNCHANGED <<failed, resource>>
     \/ /\ s = "main" /\ mode = "upgrade"
        /\ at' = [at EXCEPT !["main"] = "copy", !["nested"] = "extract"]
        /\ UNCHANGED <<failed, resource>>

InstallFinalize(s) ==
  \/ /\ At(s, "finalize", "complete")
     /\ product' = CASE s = "nested" -> product
                     [] mode = "uninstall" -> None
                     [] OTHER -> target
     /\ intact' = (s = "main" \/ intact)
     /\ UNCHANGED <<files, failed, resource, told, begun, blind>>
  \/ Fails(s, "finalize") /\ UNCHANGED <<product, files, resource, told, begun, intact, blind>>

\* The main session fails when the nested one has failed.
NestedFails ==
  /\ "nested" \in failed /\ Fails("main", "copy")
  /\ UNCHANGED <<product, files, resource, told, begun, intact, blind>>

\* The files and products are as before; the plugin is not among them.
Rollback(s) ==
  /\ At(s, "rollback", "error")
  /\ service' = IF s = "main" THEN before.service ELSE service
  /\ tmp' = IF ForGood(s) THEN before.tmp ELSE tmp
  /\ intact' = FALSE
  /\ UNCHANGED <<product, plugin, failed, resource, told, begun, blind>>

Step(s) ==
  \/ ExtractCaResources(s) \/ CollectUCData(s) \/ DetectOlderBuildVersion(s)
  \/ DetectValidWindowsVersion(s) \/ RemoveCscPlugin(s) \/ MoveFiles(s)
  \/ RemoveExistingProducts(s) \/ CopyCscPlugin(s) \/ InstallFinalize(s)
  \/ SendEventOnUninstallComplete(s) \/ RemoveCaResources(s)
  \/ Rollback(s) \/ SendEventOnUninstallError(s)

Next ==
  \/ \E m \in Modes, v \in Version : Begin(m, v)
  \/ \E s \in Session : Step(s)
  \/ NestedFails

Spec == Init /\ [][Next]_vars

(***************************************************************************)
(* Properties.                                                             *)
(***************************************************************************)

Over == \A s \in Session : at[s] = "idle"

\* After a session that succeeded the plugin Secure Client loads is the one of the installed
\* product: the removal nested in an upgrade comes before the copy, and a copy that fails or
\* finds an old .tmp file makes the session fail.
PluginFits == (Over /\ intact /\ product # None) => plugin = product

Leq(old, new) ==
  old.release < new.release \/ (old.release = new.release /\ old.build <= new.build)

\* An installed product is never replaced by an older one, by release or by build, as long as
\* its version can be read.
NoDowngrade == [][(product # None /\ product' # None) => blind \/ Leq(product, product')]_vars

\* The cloud is told that the product was removed only when it was, that this failed only when
\* the product is still there, and nothing of the removal that is part of an upgrade.
EventTellsTruth ==
  Over => /\ event = "complete" => (mode = "uninstall" /\ product = None)
          /\ event = "error" => (mode = "uninstall" /\ product # None)

\* Product.wxs: if an upgrade fails, the removal of the installed product is rolled back.
FailedUpgradeRestores ==
  (Over /\ mode = "upgrade" /\ "main" \in failed) => plugin = before.plugin
=============================================================================
