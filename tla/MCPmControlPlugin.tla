------------------------- MODULE MCPmControlPlugin -------------------------
(* Model values and symmetry for PmControlPlugin.                           *)
EXTENDS PmControlPlugin, TLC

CONSTANTS t1, t2, a1, a2, a3

Interchangeable == Permutations({t1, t2}) \cup Permutations({a1, a2, a3})
=============================================================================
