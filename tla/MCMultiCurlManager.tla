------------------------- MODULE MCMultiCurlManager -------------------------
(***************************************************************************)
(* Small instances of MultiCurlManager for TLC.                            *)
(***************************************************************************)
EXTENDS MultiCurlManager, TLC

\* Addresses are interchangeable, and callers too when all of them have a timeout (used
\* by the safety runs only).
AddressSymmetry == Permutations(Easies)
Symmetry == Permutations(Callers) \cup Permutations(Easies)
=============================================================================
