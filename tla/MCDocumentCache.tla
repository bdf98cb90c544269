-------------------------- MODULE MCDocumentCache --------------------------
(* Instances of DocumentCache for TLC.                                     *)
EXTENDS DocumentCache
CONSTANTS t1, t2, t3, tokens
=============================================================================
