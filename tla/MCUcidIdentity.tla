--------------------------- MODULE MCUcidIdentity ---------------------------
(* UcidIdentity with two callers.                                            *)
EXTENDS UcidIdentity, TLC

CONSTANTS c1, c2

Interchangeable == Permutations({c1, c2})
=============================================================================
