--------------------------- MODULE MCDiagnostics ---------------------------
(***************************************************************************)
(* Instances of Diagnostics for TLC.                                       *)
(***************************************************************************)
EXTENDS Diagnostics, TLC

CONSTANTS t1, t2, t3

\* No tool is told apart from another.
Interchangeable == Permutations(Tool)
=============================================================================
