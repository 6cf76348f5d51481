-------------------------- MODULE PackageDiscovery --------------------------
(***************************************************************************)
(* DiscoverInstalledPackages(): what the rules of the catalog find, first  *)
(* in the list of Windows Installer, which is read product by product, and *)
(* then in the registry, while installers change both.                     *)
(***************************************************************************)
EXTENDS Naturals, Sequences

CONSTANTS Component,
          Place,          \* where Windows Installer may have something: a product code in a
                          \* context of a user or of the machine
          CompOf,         \* place -> the component its product is a build of
          Version,        \* of four numbers, the registry's filled up with zeros
          ByUpgradeCode,  \* the components whose rules in the catalog name an upgrade code,
          ByMsi,          \* a name and a vendor,
          ByRegistry,     \* keys of the registry
          Disturbances,   \* bound: the changes and the failed queries of one discovery
          Nothing

ASSUME DiscoveryAssumption ==
  /\ Disturbances \in Nat /\ Nothing \notin Version \union Component \union Place
  /\ CompOf \in [Place -> Component]
  /\ ByUpgradeCode \union ByMsi \union ByRegistry \subseteq Component

\* MsiApiProductInfo: named if name and publisher could be read.
Entry   == [place : Place, named : BOOLEAN, advertised : BOOLEAN, ver : Version \union {Nothing}]

\* PmInstalledPackage, with what it was read from: a place, or Nothing for the registry.
Package == [comp : Component, of : Place \union {Nothing}, ver : Version \union {Nothing}]
Paths   == {"a", "b"}

\* PackageConfigInfo: one of the two paths is the file's, the other one empty.
ConfigInfo == [deployPath : Paths \union {""}, cfgPath : Paths \union {""}, by : 1..2]

VARIABLES
  products,   \* place -> the version installed or advertised there, or Nothing
  advertised, \* the places with a product that is only advertised
  registry,   \* component -> the version in its registry key, or Nothing
  phase,      \* where the discovery is
  cache,      \* productCache of DiscoverInstalledPackages()
  list,       \* the vector that the running query fills
  left,       \* the places at the indices from the query's on
  todo,       \* the rules of the catalog left
  comp,       \* the component of the current rule
  found,      \* detectedInstallations, by index, from the loop's iterator on
  packages,   \* the inventory
  configs,    \* packageConfigs of the package added last
  counted,    \* history: the files the configurables of its rule have found for it
  disturbed,  \* history: what was installed or removed since the discovery began, and what
              \* it asked for and did not get although it is there
  seen        \* history: <<component, version>> that was there at some time since then

installed == <<products, advertised, registry>>
catalog   == <<todo, comp>>
search    == <<cache, list, left, catalog, found, packages, configs, counted>>
history   == <<disturbed, seen>>
discoveryVars == <<installed, phase, search, history>>

Phases ==
  {"idle", "enum", "state", "version", "rules", "msi", "install_key", "version_key", "detected"}

\* The phases in which a query fills the vector.
Query == {"enum", "state", "version"}

\* Every variable has its type.
DiscoveryTypeOK ==
  /\ products \in [Place -> Version \union {Nothing}] /\ advertised \subseteq Place
  /\ registry \in [Component -> Version \union {Nothing}]
  /\ phase \in Phases
  /\ cache \in Seq(Entry) /\ list \in Seq(Entry) /\ left \subseteq Place
  /\ todo \subseteq Component /\ comp \in Component \union {Nothing}
  /\ found \subseteq Nat \X Package /\ packages \in Seq(Package)
  /\ configs \subseteq ConfigInfo /\ counted \subseteq Paths
  /\ disturbed \in 0..Disturbances
  /\ seen \subseteq Component \X Version

DiscoveryInit ==
  /\ products = [p \in Place |-> Nothing] /\ advertised = {}
  /\ registry = [c \in Component |-> Nothing] /\ phase = "idle"
  /\ cache = <<>> /\ list = <<>> /\ left = {} /\ todo = {} /\ comp = Nothing
  /\ found = {} /\ packages = <<>>
  /\ configs = {} /\ counted = {}
  /\ disturbed = 0 /\ seen = {}

Go(from, to) == phase = from /\ phase' = to

\* What is there may be refused all the same: any error of a query counts as not there.
Disturb == disturbed < Disturbances /\ disturbed' = disturbed + 1
Answered(ok) == IF ok THEN UNCHANGED disturbed ELSE Disturb

(***************************************************************************)
(* What installers do.                                                     *)
(***************************************************************************)

Present == {p \in Place : products[p] # Nothing}

Here ==
  {cv \in Component \X Version :
     registry[cv[1]] = cv[2] \/ \E p \in Place : CompOf[p] = cv[1] /\ products[p] = cv[2]}

\* All products, or those related by an upgrade code, of all users and contexts.
Listed(c, places) == {p \in places : c = Nothing \/ CompOf[p] = c}
Source(c) == Listed(c, Present)

\* A product comes, goes, or changes its build or its state.  Windows lists products in an order
\* of its own: the indices that a running query has not reached may then be those of any.
InstallerRuns ==
  /\ \E p \in Place, v \in Version \union {Nothing} :
       /\ products' = [products EXCEPT ![p] = v]
       /\ advertised' \in {advertised \ {p}, advertised \union {p}}
  /\ advertised' \subseteq Present'
  /\ left' \in IF phase \in Query THEN SUBSET Listed(comp, Present') ELSE {left}
  /\ UNCHANGED registry

RegistryChanges ==
  /\ \E c \in ByRegistry, v \in Version \union {Nothing} : registry' = [registry EXCEPT ![c] = v]
  /\ UNCHANGED <<products, advertised, left>>

Change ==
  /\ InstallerRuns \/ RegistryChanges
  /\ ~UNCHANGED installed
  /\ IF phase = "idle" THEN UNCHANGED history
     ELSE Disturb /\ seen' = seen \union Here'
  /\ UNCHANGED <<phase, cache, list, catalog, found, packages, configs, counted>>

(***************************************************************************)
(* MsiApi.                                                                 *)
(***************************************************************************)

DiscoverInstalledPackages ==
  /\ Go("idle", "enum")
  /\ left' = Source(Nothing) /\ todo' = Component /\ seen' = Here
  /\ UNCHANGED <<installed, cache, list, comp, found, packages, configs, counted, disturbed>>

\* A product with none of its properties known yet.
Unknown(p) == [place |-> p, named |-> FALSE, advertised |-> FALSE, ver |-> Nothing]

\* Mutant: the index is counted twice.
BugIndex(p) == {left \ {p, q} : q \in left}

NextIndex(p) == {left \ {p}}

\* The next product of a loop over MsiEnumProductsEx(), in FindRelatedProducts() over
\* MsiEnumRelatedProducts() and, for each product code, over MsiEnumProductsEx().
NextProduct ==
  /\ Go("enum", "state")
  /\ \E p \in left : left' \in NextIndex(p) /\ list' = Append(list, Unknown(p))
  /\ UNCHANGED <<installed, cache, catalog, found, packages, configs, counted, history>>

\* A failure of the inner loop of FindRelatedProducts() is hidden by a second retValue: the rest
\* of this product is left out, and the outer loop goes on.
ProductSkipped ==
  /\ phase = "enum" /\ comp # Nothing /\ Disturb
  /\ \E rest \in SUBSET left : rest # {} /\ left' = left \ rest
  /\ UNCHANGED <<installed, phase, cache, list, catalog, found, packages, configs, counted, seen>>

\* What of a vector the current rule names and is more than advertised, by index.  The rule of
\* an upgrade code takes all that was listed, without a look at the names.
Detected(seq, byName) ==
  {<<i, [comp |-> comp, of |-> seq[i].place, ver |-> seq[i].ver]>> :
     i \in {k \in DOMAIN seq :
             /\ ~seq[k].advertised
             /\ byName => seq[k].named /\ CompOf[seq[k].place] = comp}}

\* The loop ends with the first error, ERROR_NO_MORE_ITEMS being a success; what was read before
\* an error stays in the vector, and is used.
QueryEnds ==
  /\ phase = "enum"
  /\ Answered(left = {})
  /\ IF comp = Nothing
     THEN phase' = "rules" /\ cache' = list /\ UNCHANGED found
     ELSE /\ found' = Detected(list, FALSE) /\ UNCHANGED cache
          /\ phase' = IF found' = {} THEN "msi" ELSE "detected"
  /\ list' = <<>> /\ left' = {}
  /\ UNCHANGED <<installed, catalog, packages, configs, counted, seen>>

Current == list[Len(list)].place

\* MsiQueryProductState(), and QueryProperty() for name and publisher: of a product that has gone,
\* or on any error, the state is not "advertised" and the strings are empty.
QueryState ==
  /\ Go("state", "version")
  /\ \E state, names \in BOOLEAN :
       /\ list' = [list EXCEPT ![Len(list)].advertised = state /\ Current \in advertised,
                               ![Len(list)].named = names /\ Current \in Present]
       /\ Answered(state /\ names)
  /\ UNCHANGED <<installed, cache, left, catalog, found, packages, configs, counted, seen>>

\* QueryProperty() for the version: an empty string for a product that has gone, or on any error.
QueryVersion ==
  /\ Go("version", "enum")
  /\ \E ok \in BOOLEAN :
       /\ list' = [list EXCEPT ![Len(list)].ver = IF ok THEN products[Current] ELSE Nothing]
       /\ Answered(ok)
  /\ UNCHANGED <<installed, cache, left, catalog, found, packages, configs, counted, seen>>

(***************************************************************************)
(* PackageDiscovery and PackageDiscoveryMethods.                           *)
(***************************************************************************)

\* ApplyDiscoveryMethods(): by upgrade code, by name and vendor, by registry, until one finds it.
NextRule ==
  /\ phase = "rules"
  /\ \E c \in todo :
       /\ comp' = c
       /\ phase' = IF c \in ByUpgradeCode THEN "enum" ELSE "msi"
       /\ left' = IF c \in ByUpgradeCode THEN Source(c) ELSE {}
  /\ UNCHANGED <<installed, cache, list, todo, found, packages, configs, counted, history>>

DiscoverByMsiRules ==
  /\ phase = "msi"
  /\ found' = IF comp \in ByMsi THEN Detected(cache, TRUE) ELSE {}
  /\ phase' = IF found' = {} /\ comp \in ByRegistry THEN "install_key" ELSE "detected"
  /\ UNCHANGED <<installed, cache, list, left, catalog, packages, configs, counted, history>>

\* The key of the installation and then that of the version; a path that cannot be decoded or
\* read finds nothing.
DiscoverByRegistry ==
  /\ UNCHANGED <<installed, cache, list, left, catalog, packages, configs, counted, seen>>
  /\ \/ /\ phase \in {"install_key", "version_key"} /\ phase' = "detected"
        /\ Answered(registry[comp] = Nothing) /\ UNCHANGED found
     \/ /\ Go("install_key", "version_key") /\ registry[comp] # Nothing
        /\ UNCHANGED <<found, disturbed>>
     \/ /\ Go("version_key", "detected") /\ registry[comp] # Nothing
        /\ found' = {<<1, [comp |-> comp, of |-> Nothing, ver |-> registry[comp]]>>}
        /\ UNCHANGED disturbed

\* A configurable: the files that exist at its deploy path and at its configuration path, and
\* how many of them count; 0 counts as 1.
Configurable == [deploy : {<<>>, <<"a">>}, cfg : {<<"b", "a">>}, max : 0..2]

Instances(k) ==
  LET existing == IF k.deploy # <<>> THEN k.deploy ELSE k.cfg
      count    == IF k.max = 0 THEN 1 ELSE k.max
  IN  {existing[i] : i \in {n \in DOMAIN existing : n <= count}}

Infos(k, n) ==
  {IF k.deploy # <<>> THEN [deployPath |-> f, cfgPath |-> "", by |-> n]
                      ELSE [deployPath |-> "", cfgPath |-> f, by |-> n] : f \in Instances(k)}

\* Mutant: paths are compared without a look whether they are empty.
BugMatches(e, d) ==
  \/ e.deployPath \in {d.deployPath, d.cfgPath}
  \/ e.cfgPath \in {d.deployPath, d.cfgPath}

\* A file that an earlier configurable has found, at either kind of path, is left out.
Matches(e, d) ==
  \/ e.deployPath # "" /\ e.deployPath \in {d.deployPath, d.cfgPath}
  \/ e.cfgPath # "" /\ e.cfgPath \in {d.deployPath, d.cfgPath}

AddConfigs(entries, k, n) == entries \union {e \in Infos(k, n) : \A d \in entries : ~Matches(e, d)}

DiscoverPackageConfigurables(k, l) == AddConfigs(AddConfigs({}, k, 1), l, 2)

\* The loop over detectedInstallations: each joins the inventory, with its configuration files.
AddToInventory ==
  /\ phase = "detected"
  /\ \E p \in found :
       /\ \A q \in found : p[1] <= q[1]
       /\ packages' = Append(packages, p[2]) /\ found' = found \ {p}
  /\ \E k, l \in Configurable :
       configs' = DiscoverPackageConfigurables(k, l) /\ counted' = Instances(k) \union Instances(l)
  /\ UNCHANGED <<installed, phase, cache, list, left, catalog, history>>

RuleEnds ==
  /\ Go("detected", "rules") /\ found = {}
  /\ todo' = todo \ {comp} /\ comp' = Nothing /\ configs' = {} /\ counted' = {}
  /\ UNCHANGED <<installed, cache, list, left, found, packages, history>>

\* m_lastDetectedPackages, which GetCachedInventory() returns, is a copy of what is returned here.
DiscoveryEnds == phase = "rules" /\ todo = {}

ReturnInventory ==
  /\ DiscoveryEnds /\ phase' = "idle"
  /\ cache' = <<>> /\ packages' = <<>>
  /\ disturbed' = 0 /\ seen' = {}
  /\ UNCHANGED <<installed, list, left, catalog, found, configs, counted>>

Discovery ==
  \/ NextProduct \/ ProductSkipped \/ QueryEnds \/ QueryState \/ QueryVersion
  \/ NextRule \/ DiscoverByMsiRules \/ DiscoverByRegistry \/ AddToInventory \/ RuleEnds \/ ReturnInventory

DiscoveryNext == DiscoverInstalledPackages \/ Discovery \/ Change

DiscoverySpec == DiscoveryInit /\ [][DiscoveryNext]_discoveryVars

(***************************************************************************)
(* Properties.                                                             *)
(***************************************************************************)

\* What the rules of the catalog name, read from the installation as it is.
Shown(c) == {p \in Source(c) : p \notin advertised}

Expected(c) ==
  CASE c \in ByUpgradeCode \union ByMsi /\ Shown(c) # {}
         -> {[comp |-> c, of |-> p, ver |-> products[p]] : p \in Shown(c)}
    [] c \in ByRegistry /\ registry[c] # Nothing /\ (Shown(c) = {} \/ c \notin ByUpgradeCode \union ByMsi)
         -> {[comp |-> c, of |-> Nothing, ver |-> registry[c]]}
    [] OTHER -> {}

\* The products are listed index by index and asked for their properties one by one, while
\* installers that an earlier call gave up go on.  The inventory never names a version that was
\* not there, but may have an empty one when something changed meanwhile or a query failed; and
\* when neither happened it is exactly what is installed, each installation once, several of one
\* component included.
InventoryIsTrue ==
  DiscoveryEnds =>
    /\ \A i \in DOMAIN packages :
         \/ <<packages[i].comp, packages[i].ver>> \in seen
         \/ packages[i].ver = Nothing /\ disturbed > 0
    /\ disturbed = 0 =>
         /\ {packages[i] : i \in DOMAIN packages} = UNION {Expected(c) : c \in Component}
         /\ \A i, k \in DOMAIN packages : packages[i] = packages[k] => i = k

FileOf(e) == IF e.deployPath # "" THEN e.deployPath ELSE e.cfgPath

\* The configuration files of a package are those that its configurables count, each once, although
\* the same file may be found by two of them and at either kind of path, and although entries are
\* told apart by two paths of which one is always empty.
FilesListedOnce ==
  /\ {FileOf(e) : e \in configs} = counted
  /\ \A d, e \in configs : FileOf(d) = FileOf(e) => d = e
=============================================================================
