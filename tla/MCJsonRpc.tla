----------------------------- MODULE MCJsonRpc -----------------------------
(* Instances of JsonRpc for TLC.                                           *)
EXTENDS JsonRpc, TLC
CONSTANTS a, b, bye

(* All requests but the one to shut down are alike.                        *)
Alike == Permutations({a, b})
=============================================================================
