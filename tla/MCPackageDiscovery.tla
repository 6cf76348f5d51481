------------------------- MODULE MCPackageDiscovery -------------------------
(* PackageDiscovery with two installations of one component, found by its  *)
(* upgrade code or by name, and a second component that is looked for by   *)
(* name among them and then in the registry.                               *)
EXTENDS PackageDiscovery, TLC

CONSTANTS c1, c2, p1, p2, v1, v2

ComponentOf == p1 :> c1 @@ p2 :> c1

Interchangeable == Permutations({p1, p2}) \union Permutations({v1, v2})
=============================================================================
