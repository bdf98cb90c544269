-------------------------- MODULE MCImportsManager --------------------------
(* The instance TLC checks.  Two events from outside are enough for every  *)
(* race of two tasks.  A third one is looked at where it matters: the end  *)
(* of an import that refers to two entries, the one in the table and the   *)
(* one a removal took out of it.  Nothing is imported again after it.      *)
EXTENDS ImportsManager

LastEvent ==
    /\ count # count' /\ count' = MaxEvents =>
         /\ Cardinality(removals') > 1
         /\ events = {} /\ notices = {} /\ latest = 0
         /\ \A i \in Importers : pc'[i] = "idle"
    /\ count = MaxEvents => \A i \in Importers : pc[i] = "idle" => pc'[i] = "idle"
=============================================================================
