------------------------------ MODULE MCEditor ------------------------------
(* What the editor's user sees, in one instance: a behaviour is one of a   *)
(* run stepped through with the debugger, of the tree of tests or of the   *)
(* language clients.  The variables of the other modules keep the values   *)
(* they begin with.                                                        *)
EXTENDS MCDebugger, TestItems, LanguageClients
CONSTANTS p1, p2, p3

VARIABLE part
editorVars == <<part, vars, tiVars, lcVars>>

MCInit ==
  /\ part \in {"stepping", "tests", "clients"}
  /\ Init /\ tiInit /\ lcInit
  /\ part # "stepping" => ~stop_on_entry /\ ~no_debug
  /\ part # "tests" => folders = Folders /\ ~namesake
  /\ part # "clients" => folder = [p \in Callers |-> "A"]

Stepping == part = "stepping" /\ Next /\ UNCHANGED <<part, tiVars, lcVars>>
ShowingTests == part = "tests" /\ tiNext /\ UNCHANGED <<part, vars, lcVars>>
Connecting == part = "clients" /\ lcNext /\ UNCHANGED <<part, vars, tiVars>>

MCSpec == MCInit /\ [][Stepping \/ ShowingTests \/ Connecting]_editorVars
=============================================================================
