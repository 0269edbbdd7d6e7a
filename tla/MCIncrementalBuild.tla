------------------------- MODULE MCIncrementalBuild -------------------------
(* Instances of IncrementalBuild for TLC. *)
EXTENDS IncrementalBuild, TLC

CONSTANTS a, b, c

(* Modules without interface are interchangeable, and no liveness is checked. *)
Symmetry == Permutations(Module \ WithInterface)
=============================================================================
