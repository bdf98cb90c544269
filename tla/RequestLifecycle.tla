------------------------- MODULE RequestLifecycle -------------------------
(***************************************************************************)
(* What a client of the language server may rely on, whatever happens      *)
(* between the server's tasks: a request is answered at most once and only *)
(* after it was sent; only a request somebody cancelled goes without an    *)
(* answer; and the server stops only when it was told to exit or when it   *)
(* has answered the request to shut down.  JsonRpc implements this.        *)
(***************************************************************************)
CONSTANTS Requests, Shutdown

VARIABLES
  status,    (* of every request                                           *)
  revoked,   (* the requests that may be left without an answer            *)
  exit,      (* was the server told to exit?                               *)
  up         (* does the server run?                                       *)

vars == <<status, revoked, exit, up>>

Init ==
  /\ status = [r \in Requests |-> "unsent"]
  /\ revoked = {} /\ exit = FALSE /\ up = TRUE

(* A request to shut down revokes every other one.                         *)
Send(r) ==
  /\ status[r] = "unsent"
  /\ status' = [status EXCEPT ![r] = "open"]
  /\ revoked' = IF r = Shutdown THEN revoked \cup (Requests \ {r}) ELSE revoked
  /\ UNCHANGED <<exit, up>>

Revoke(r) ==
  /\ revoked' = revoked \cup {r}
  /\ UNCHANGED <<status, exit, up>>

Exit ==
  /\ exit' = TRUE
  /\ UNCHANGED <<status, revoked, up>>

Answer(r) ==
  /\ up /\ status[r] = "open"
  /\ status' = [status EXCEPT ![r] = "answered"]
  /\ UNCHANGED <<revoked, exit, up>>

Drop(r) ==
  /\ up /\ status[r] = "open" /\ r \in revoked
  /\ status' = [status EXCEPT ![r] = "dropped"]
  /\ UNCHANGED <<revoked, exit, up>>

Stop ==
  /\ up
  /\ exit \/ status[Shutdown] = "answered"
  /\ up' = FALSE
  /\ UNCHANGED <<status, revoked, exit>>

Next ==
  \/ \E r \in Requests : Send(r) \/ Revoke(r) \/ Answer(r) \/ Drop(r)
  \/ Exit \/ Stop

Spec == Init /\ [][Next]_vars
=============================================================================
