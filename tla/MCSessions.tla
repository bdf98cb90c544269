----------------------------- MODULE MCSessions -----------------------------
(* Debug sessions in one instance: a behaviour is one of a session with a  *)
(* client that sets breakpoints, finishes its configuration and stops the  *)
(* session at any time, or one of the editor's test runs.  The variables   *)
(* of the other module keep their initial values, where no action that its *)
(* fairness is about is enabled.                                           *)
EXTENDS DapSession, TestRuns
CONSTANTS r1, r2, none

VARIABLE part
sessionsVars == <<part, vars, trVars>>

Debugging == part = "session" /\ Next /\ UNCHANGED <<part, trVars>>
RunningTests == part = "test runs" /\ trNext /\ UNCHANGED <<part, vars>>

MCInit == part \in {"session", "test runs"} /\ Init /\ trInit

MCSpec ==
  /\ MCInit
  /\ [][Debugging \/ RunningTests]_sessionsVars
  /\ Fairness /\ trFairness
=============================================================================
