---------------------------- MODULE MCWorkspace ----------------------------
(* Two parts of the language server in one instance: a behaviour is one of *)
(* the diagnostics of a document or one of the file watchers, and the      *)
(* variables of the other part keep their initial values.                  *)
EXTENDS MCDiagnostics, FileWatchers
CONSTANTS A, B, v, w

VARIABLE part
workspaceVars == <<part, vars, fwVars>>

Publishing == part = "diagnostics" /\ Next /\ UNCHANGED <<part, fwVars>>
Watching == part = "watchers" /\ fwNext /\ UNCHANGED <<part, vars>>

MCInit == part \in {"diagnostics", "watchers"} /\ Init /\ fwInit
MCSpec == MCInit /\ [][Publishing \/ Watching]_workspaceVars
=============================================================================
