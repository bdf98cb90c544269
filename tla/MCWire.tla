------------------------------- MODULE MCWire -------------------------------
(* The two layers of the JSON-RPC connection in one instance: a behaviour  *)
(* is one of the requests of JsonRpc or one of the bytes of Framing, and   *)
(* the variables of the other layer keep their initial values.             *)
EXTENDS JsonRpc, Framing
CONSTANTS a, bye

VARIABLE layer
wireVars == <<layer, vars, frVars>>

Byte(k) == [kind |-> "byte", n |-> k]
MCBodies == {<<Byte(1)>>, <<Byte(1), Byte(2)>>, <<Byte(2), Byte(2), Byte(1)>>}

Requesting == layer = "requests" /\ Next /\ UNCHANGED <<layer, frVars>>
Cutting == layer = "bytes" /\ frNext /\ UNCHANGED <<layer, vars>>

MCInit == layer \in {"requests", "bytes"} /\ Init /\ frInit

MCSpec ==
  /\ MCInit
  /\ [][Requesting \/ Cutting]_wireVars
  /\ layer = "requests" => Fairness
=============================================================================
