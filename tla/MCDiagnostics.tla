--------------------------- MODULE MCDiagnostics ---------------------------
(* Instances of Diagnostics for TLC.                                       *)
EXTENDS Diagnostics, TLC
CONSTANTS tokens, model, e1, e2, e3

MCSymmetry == Permutations(Entries)
=============================================================================
