-------------------------- MODULE DapSession_proofs --------------------------
(***************************************************************************)
(* Proofs about a debug session, for all bounds: the types, that Robot     *)
(* Framework is not started before the breakpoints are set, and that an    *)
(* answer the adapter waits for is on its way.                             *)
(***************************************************************************)
EXTENDS DapSession, SequenceTheorems, TLAPS

LEMMA HeadTail ==
  ASSUME NEW S, NEW s \in Seq(S), s # <<>>
  PROVE  Head(s) \in S /\ Tail(s) \in Seq(S) /\ Len(Tail(s)) = Len(s) - 1
         /\ \A i \in 1 .. Len(Tail(s)) : Tail(s)[i] = s[i + 1]
         /\ Head(s) = s[1] /\ Len(s) >= 1
OBVIOUS

LEMMA Appended ==
  ASSUME NEW S, NEW s \in Seq(S), NEW e \in S
  PROVE  Append(s, e) \in Seq(S)
OBVIOUS

(* A request is sent with a number of its own or with the client's.        *)
LEMMA SendType ==
  ASSUME TypeOK, NEW r \in Requests, send_request(r.command, r.n, r.id)
  PROVE  to_launcher' \in Seq(Requests) /\ unanswered' \subseteq Ids
<1>1. r = [command |-> r.command, n |-> r.n, id |-> r.id] /\ r.id \in Ids
  BY DEF Requests
<1>. QED BY <1>1, Appended DEF send_request, TypeOK

LEMMA SendOwnType ==
  ASSUME TypeOK, NEW command \in Commands \ {"setBreakpoints"}, NEW n \in 0 .. MaxStops,
         send_own_request(command, n)
  PROVE  /\ to_launcher' \in Seq(Requests) /\ unanswered' \subseteq Ids
         /\ next_id' \in 1 .. (MaxId + 1)
<1>1. PICK id \in next_id .. MaxId : next_id' = id + 1 /\ send_request(command, n, id)
  BY DEF send_own_request
<1>2. id \in Ids /\ id + 1 \in 1 .. (MaxId + 1)
  BY SessionAssumption DEF TypeOK, Ids
<1>3. [command |-> command, n |-> n, id |-> id] \in Requests
  BY <1>2 DEF Requests
<1>. QED BY <1>1, <1>2, <1>3, SendType

LEMMA ClientType ==
  ASSUME TypeOK, Client
  PROVE  TypeOK'
<1>1. CASE launch_request
  BY <1>1 DEF launch_request, TypeOK, client, calls, launcher
<1>2. CASE set_breakpoints_request
  <2>1. asked' \in 1 .. MaxBreakpoints
    BY <1>2, SessionAssumption DEF set_breakpoints_request, TypeOK
  <2>2. [command |-> "setBreakpoints", n |-> asked', id |-> asked'] \in Requests
    BY <2>1, SessionAssumption DEF Requests, Ids
  <2>3. to_launcher' \in Seq(Requests) /\ unanswered' \subseteq Ids /\ next_id' = next_id
    BY <1>2, <2>2, SendType DEF set_breakpoints_request, calls, TypeOK
  <2>. QED BY <1>2, <2>1, <2>3 DEF set_breakpoints_request, TypeOK, adapter, launcher
<1>3. CASE configuration_done_request
  <2>1. /\ to_launcher' \in Seq(Requests) /\ unanswered' \subseteq Ids
        /\ next_id' \in 1 .. (MaxId + 1)
    BY <1>3, SendOwnType, SessionAssumption DEF configuration_done_request, calls, TypeOK, Commands
  <2>. QED BY <1>3, <2>1 DEF configuration_done_request, TypeOK, adapter, launcher
<1>4. ASSUME Stop PROVE stops' \in 0 .. MaxStops /\ stops' >= 1
  BY <1>4, SessionAssumption DEF Stop, TypeOK
<1>5. CASE terminate_request
  <2>1. /\ to_launcher' \in Seq(Requests) /\ unanswered' \subseteq Ids
        /\ next_id' \in 1 .. (MaxId + 1)
    BY <1>4, <1>5, SendOwnType DEF terminate_request, calls, TypeOK, Commands
  <2>2. told' \in Seq(Events)
    BY <1>5, Appended DEF terminate_request, TypeOK, Events
  <2>. QED BY <1>4, <1>5, <2>1, <2>2 DEF terminate_request, Stop, TypeOK, adapter, launcher
<1>6. CASE disconnect_request
  <2>1. /\ to_launcher' \in Seq(Requests) /\ unanswered' \subseteq Ids
        /\ next_id' \in 1 .. (MaxId + 1)
    BY <1>4, <1>6, SendOwnType DEF disconnect_request, calls, TypeOK, Commands
  <2>2. told' \in Seq(Events)
    BY <1>6, Appended DEF disconnect_request, TypeOK, Events
  <2>. QED BY <1>4, <1>6, <2>1, <2>2 DEF disconnect_request, Stop, TypeOK, adapter, launcher
<1>. QED BY <1>1, <1>2, <1>3, <1>5, <1>6 DEF Client

LEMMA AdapterType ==
  ASSUME TypeOK, Adapter
  PROVE  TypeOK'
<1>1. CASE start_process \/ start_connecting \/ connect \/ connect_timeout \/ on_connection_lost
  <2>1. /\ launch' \in {"none", "starting", "failed", "connecting", "connected", "timed_out"}
        /\ connected' \in BOOLEAN
        /\ link' \in {"none", "backlog", "accepted"}
        /\ process' \in {"none", "starting", "listening", "dead"}
    BY <1>1 DEF start_process, start_connecting, connect, connect_timeout, on_connection_lost,
       TypeOK, adapter
  <2>2. UNCHANGED <<told, client, saw_end, calls, to_launcher, to_adapter, run, launcher, cut>>
    BY <1>1 DEF start_process, start_connecting, connect, connect_timeout, on_connection_lost,
       adapter
  <2>. QED BY <2>1, <2>2 DEF TypeOK, client, calls, launcher
<1>2. ASSUME to_adapter # <<>>
      PROVE  Head(to_adapter) \in Messages /\ Tail(to_adapter) \in Seq(Messages)
  BY <1>2, HeadTail DEF TypeOK
<1>3. CASE handle_event
  <2>1. Head(to_adapter).name \in Events
    BY <1>2, <1>3 DEF handle_event, Arrived, Messages
  <2>2. told' \in Seq(Events) /\ to_adapter' \in Seq(Messages)
    BY <1>2, <1>3, <2>1, Appended DEF handle_event, Arrived, TypeOK
  <2>. QED BY <1>3, <2>2 DEF handle_event, TypeOK, client, calls, launcher
<1>4. CASE handle_response
  BY <1>2, <1>4 DEF handle_response, Arrived, TypeOK, client, adapter, launcher
<1>. QED BY <1>1, <1>3, <1>4 DEF Adapter

LEMMA ReceiveType ==
  ASSUME TypeOK, NEW command, Receive(command)
  PROVE  /\ to_launcher' \in Seq(Requests) /\ Request \in Requests /\ Request.command = command
         /\ Append(to_adapter, Message("response", Request.command, Request.id)) \in Seq(Messages)
<1>1. Request \in Requests /\ to_launcher' \in Seq(Requests) /\ Request.command = command
  BY HeadTail DEF Receive, Request, TypeOK
<1>2. Message("response", Request.command, Request.id) \in Messages
  BY <1>1 DEF Message, Messages, Requests, Commands
<1>. QED BY <1>1, <1>2, Appended DEF TypeOK

LEMMA ServerType ==
  ASSUME TypeOK, Server
  PROVE  TypeOK'
<1>1. CASE listen \/ connection_made
  <2>1. /\ process' \in {"none", "starting", "listening", "dead"}
        /\ link' \in {"none", "backlog", "accepted"}
    BY <1>1 DEF listen, connection_made, TypeOK
  <2>2. UNCHANGED <<told, client, adapter, calls, to_launcher, to_adapter, run, launcher, cut>>
    BY <1>1 DEF listen, connection_made
  <2>. QED BY <2>1, <2>2 DEF TypeOK, client, adapter, calls, launcher
<1>2. ASSUME NEW command, Receive(command), Respond \/ UNCHANGED to_adapter
      PROVE  to_launcher' \in Seq(Requests) /\ to_adapter' \in Seq(Messages)
  BY <1>2, ReceiveType DEF Respond, TypeOK
<1>3. CASE set_breakpoints
  <2>1. Request.n \in 1 .. MaxBreakpoints
    BY <1>3, ReceiveType DEF set_breakpoints, Requests
  <2>2. to_launcher' \in Seq(Requests) /\ to_adapter' \in Seq(Messages)
    BY <1>2, <1>3 DEF set_breakpoints
  <2>3. installed' \subseteq 1 .. MaxBreakpoints
    BY <1>3, <2>1 DEF set_breakpoints, TypeOK
  <2>. QED BY <1>3, <2>2, <2>3 DEF set_breakpoints, Receive, TypeOK, client, adapter, calls
<1>4. CASE configuration_done
  <2>1. to_launcher' \in Seq(Requests) /\ to_adapter' \in Seq(Messages)
    BY <1>2, <1>4 DEF configuration_done
  <2>. QED BY <1>4, <2>1 DEF configuration_done, Receive, TypeOK, client, adapter, calls
<1>5. CASE terminate
  <2>1. to_launcher' \in Seq(Requests) /\ to_adapter' \in Seq(Messages)
    BY <1>2, <1>5 DEF terminate
  <2>2. run' \in Phases /\ process' \in {process, "dead"} /\ cut' \in BOOLEAN
        /\ signaled' \in BOOLEAN /\ interrupt' \in BOOLEAN
    BY <1>5 DEF terminate, Kill, Die, TypeOK, Phases
  <2>. QED BY <1>5, <2>1, <2>2 DEF terminate, Receive, TypeOK, client, adapter, calls
<1>6. CASE disconnect
  <2>1. to_launcher' \in Seq(Requests) /\ to_adapter' \in Seq(Messages)
    BY <1>2, <1>6 DEF disconnect
  <2>2. run' \in Phases /\ process' \in {process, "dead"} /\ cut' \in BOOLEAN
    BY <1>6 DEF disconnect, Kill, Die, TypeOK, Phases
  <2>. QED BY <1>6, <2>1, <2>2 DEF disconnect, Receive, TypeOK, client, adapter, calls, launcher
<1>. QED BY <1>1, <1>3, <1>4, <1>5, <1>6 DEF Server

LEMMA RunType ==
  ASSUME TypeOK, run_robot
  PROVE  TypeOK'
<1>1. ASSUME NEW e \in Events, Tell(e) PROVE to_adapter' \in Seq(Messages)
  <2>1. Message("event", e, 0) \in Messages
    BY DEF Message, Messages
  <2>. QED BY <1>1, <2>1, Appended DEF Tell, TypeOK
<1>2. CASE send_initialized
  <2>1. to_adapter' \in Seq(Messages)
    BY <1>1, <1>2 DEF send_initialized, Events
  <2>. QED BY <1>2, <2>1 DEF send_initialized, Tell, Proceed, TypeOK, Phases, client, adapter, calls
<1>3. CASE send_robot_exited
  <2>1. to_adapter' \in Seq(Messages)
    BY <1>1, <1>3 DEF send_robot_exited, Events
  <2>. QED BY <1>3, <2>1 DEF send_robot_exited, Tell, Proceed, TypeOK, Phases, client, adapter, calls
<1>4. CASE exit
  <2>1. to_adapter' \in Seq(Messages)
    BY <1>1, <1>4 DEF exit, Events
  <2>. QED BY <1>4, <2>1 DEF exit, Tell, Proceed, TypeOK, Phases, client, adapter, calls
<1>5. CASE send_terminated
  <2>1. to_adapter' \in Seq(Messages)
    BY <1>1, <1>5 DEF send_terminated, Events
  <2>. QED BY <1>5, <2>1 DEF send_terminated, Tell, Proceed, TypeOK, Phases, client, adapter, calls
<1>6. CASE wait_for_server \/ wait_for_client \/ wait_for_client_timeout
             \/ wait_for_configuration_done \/ wait_for_configuration_done_timeout \/ start_robot
  <2>1. run' \in Phases /\ cut' \in BOOLEAN /\ Silently /\ UNCHANGED <<exited, terminated>>
    BY <1>6 DEF wait_for_server, wait_for_client, wait_for_client_timeout,
       wait_for_configuration_done, wait_for_configuration_done_timeout, start_robot,
       Proceed, TypeOK, Phases
  <2>. QED BY <2>1 DEF Silently, TypeOK, client, adapter, calls
<1>7. CASE wait_for_server_timeout \/ robot_ends \/ server_close \/ keyboard_interrupt
  <2>1. run' \in Phases
    BY <1>7 DEF wait_for_server_timeout, robot_ends, server_close, keyboard_interrupt, Cancelled,
       Kill, Die, Proceed, Phases
  <2>2. process' \in {process, "dead"} /\ cut' \in BOOLEAN /\ interrupt' \in BOOLEAN
    BY <1>7 DEF wait_for_server_timeout, robot_ends, server_close, keyboard_interrupt,
       Kill, Die, Proceed, launcher, TypeOK
  <2>3. UNCHANGED <<told, client, adapter, calls, link, to_launcher, to_adapter,
                    configured, exited, terminated, signaled, installed>>
    BY <1>7 DEF wait_for_server_timeout, robot_ends, server_close, keyboard_interrupt, launcher
  <2>. QED BY <2>1, <2>2, <2>3 DEF TypeOK, client, adapter, calls
<1>. QED BY <1>2, <1>3, <1>4, <1>5, <1>6, <1>7 DEF run_robot

LEMMA InitType ==
  ASSUME Init
  PROVE  TypeOK
<1>1. wanted \in -1 .. MaxBreakpoints /\ next_id \in 1 .. (MaxId + 1)
      /\ asked \in 0 .. MaxBreakpoints /\ stops \in 0 .. MaxStops
  BY SessionAssumption DEF Init
<1>2. told \in Seq(Events) /\ to_launcher \in Seq(Requests) /\ to_adapter \in Seq(Messages)
  BY DEF Init
<1>3. run \in Phases /\ unanswered \subseteq Ids /\ installed \subseteq 1 .. MaxBreakpoints
  BY DEF Init, Phases
<1>. QED BY <1>1, <1>2, <1>3 DEF Init, TypeOK

LEMMA NextType ==
  ASSUME TypeOK, [Next]_vars
  PROVE  TypeOK'
<1>1. CASE UNCHANGED vars
  BY <1>1 DEF vars, TypeOK, client, adapter, calls, launcher
<1>. QED BY <1>1, ClientType, AdapterType, ServerType, RunType DEF Next

(* The variables of a session keep their types.                            *)
THEOREM TypeCorrect == Spec => []TypeOK
BY InitType, NextType, PTL DEF Spec

-----------------------------------------------------------------------------
(* Breakpoint k is set, or will be before request i + 1 is handled.        *)
Installing(k, i) ==
  \/ k \in installed
  \/ \E j \in 1 .. i : to_launcher[j].command = "setBreakpoints" /\ to_launcher[j].n = k

(* Nothing is asked for or told before there is a connection.              *)
NoLink ==
  /\ launch # "connected" => link = "none"
  /\ connected => link # "none"
  /\ link = "none" =>
       to_adapter = <<>> /\ to_launcher = <<>> /\ ~Told("initialized") /\ asked = 0 /\ wanted = -1

(* Requests are handled in their order: what the client asked for is set   *)
(* or on its way, and configurationDone is behind what it is to wait for.  *)
AskedComes == connected => \A k \in 1 .. asked : Installing(k, Len(to_launcher))
InOrder ==
  \A i \in 1 .. Len(to_launcher) :
    to_launcher[i].command = "configurationDone" =>
      wanted # -1 /\ \A k \in 1 .. wanted : Installing(k, i - 1)
DoneIsLast == configured => wanted # -1 /\ 1 .. wanted \subseteq installed
StartsConfigured == run \in {"start", "running"} /\ ~signaled => configured
InterruptIsSignal == interrupt => signaled

BInv ==
  /\ TypeOK
  /\ NoLink
  /\ AskedComes
  /\ InOrder
  /\ DoneIsLast
  /\ StartsConfigured
  /\ InterruptIsSignal

(* A request joins the queue: nothing before it changes.                   *)
LEMMA Sent ==
  ASSUME BInv, NEW command, NEW n, NEW id, send_request(command, n, id), UNCHANGED installed
  PROVE  /\ Len(to_launcher') = Len(to_launcher) + 1
         /\ \A i \in 1 .. Len(to_launcher) : to_launcher'[i] = to_launcher[i]
         /\ to_launcher'[Len(to_launcher')] = [command |-> command, n |-> n, id |-> id]
         /\ \A k : \A i \in 0 .. Len(to_launcher) : \A l \in i .. Len(to_launcher') :
               Installing(k, i) => Installing(k, l)'
<1>1. /\ Len(to_launcher') = Len(to_launcher) + 1
      /\ \A i \in 1 .. Len(to_launcher) : to_launcher'[i] = to_launcher[i]
      /\ to_launcher'[Len(to_launcher')] = [command |-> command, n |-> n, id |-> id]
      /\ Len(to_launcher) \in Nat
  BY DEF send_request, BInv, TypeOK
<1>. QED BY <1>1 DEF Installing

(* A request leaves the queue, and its breakpoint is set if it had one.    *)
LEMMA Received ==
  ASSUME BInv, NEW command, Receive(command),
         installed \subseteq installed',
         command = "setBreakpoints" => Request.n \in installed'
  PROVE  /\ Len(to_launcher') = Len(to_launcher) - 1 /\ Len(to_launcher') \in Nat
         /\ \A i \in 1 .. Len(to_launcher') : to_launcher'[i] = to_launcher[i + 1]
         /\ \A k : \A i \in 1 .. Len(to_launcher) : Installing(k, i) => Installing(k, i - 1)'
<1>1. /\ Len(to_launcher') = Len(to_launcher) - 1
      /\ \A i \in 1 .. Len(to_launcher') : to_launcher'[i] = to_launcher[i + 1]
      /\ Len(to_launcher) \in Nat /\ Len(to_launcher') \in Nat
      /\ Request = to_launcher[1] /\ Request.command = command
  BY HeadTail DEF Receive, Request, BInv, TypeOK
<1>2. ASSUME NEW k, NEW i \in 1 .. Len(to_launcher), Installing(k, i)
      PROVE  Installing(k, i - 1)'
  <2>1. CASE k \in installed
    BY <2>1 DEF Installing
  <2>2. ASSUME NEW j \in 1 .. i, to_launcher[j].command = "setBreakpoints", to_launcher[j].n = k
        PROVE  Installing(k, i - 1)'
    <3>1. CASE j = 1
      BY <1>1, <2>2, <3>1 DEF Installing
    <3>2. CASE j # 1
      <4>1. j - 1 \in 1 .. (i - 1) /\ j - 1 \in 1 .. Len(to_launcher')
        BY <1>1, <1>2, <2>2, <3>2
      <4>2. to_launcher'[j - 1] = to_launcher[j]
        BY <1>1, <4>1
      <4>. QED BY <2>2, <4>1, <4>2 DEF Installing
    <3>. QED BY <3>1, <3>2
  <2>. QED BY <1>2, <2>1, <2>2 DEF Installing
<1>. QED BY <1>1, <1>2

(* The requests the client sends keep the invariant.                       *)
LEMMA ClientOrder ==
  ASSUME BInv, TypeOK', Client
  PROVE  BInv'
<1>1. CASE launch_request
  BY <1>1 DEF launch_request, BInv, NoLink, AskedComes, InOrder, DoneIsLast, StartsConfigured,
     InterruptIsSignal, Installing, Told, client, calls, launcher
<1>2. CASE set_breakpoints_request
  <2>1. UNCHANGED <<told, wanted, adapter, link, to_adapter, run, launcher>> /\ link # "none"
    BY <1>2 DEF set_breakpoints_request, BInv, NoLink
  <2>2. CASE connected
    <3>1. asked' = asked + 1 /\ send_request("setBreakpoints", asked', asked')
      BY <1>2, <2>2 DEF set_breakpoints_request
    <3>2. /\ Len(to_launcher') = Len(to_launcher) + 1
          /\ \A i \in 1 .. Len(to_launcher) : to_launcher'[i] = to_launcher[i]
          /\ to_launcher'[Len(to_launcher')] = [command |-> "setBreakpoints", n |-> asked', id |-> asked']
          /\ \A k : \A i \in 0 .. Len(to_launcher) : \A l \in i .. Len(to_launcher') :
               Installing(k, i) => Installing(k, l)'
      BY <2>1, <3>1, Sent DEF launcher
    <3>3. Len(to_launcher) \in Nat /\ asked \in Nat /\ wanted \in Int
      BY SessionAssumption DEF BInv, TypeOK
    <3>4. AskedComes'
      <4>. SUFFICES ASSUME NEW k \in 1 .. asked' PROVE Installing(k, Len(to_launcher))'
        BY DEF AskedComes
      <4>1. CASE k = asked'
        BY <3>2, <3>3, <4>1 DEF Installing
      <4>2. CASE k \in 1 .. asked
        <5>1. Installing(k, Len(to_launcher))
          BY <2>2, <4>2 DEF BInv, AskedComes
        <5>. QED BY <3>2, <3>3, <5>1
      <4>. QED BY <3>1, <3>3, <4>1, <4>2
    <3>5. InOrder'
      BY <2>1, <3>2, <3>3 DEF BInv, InOrder
    <3>. QED BY <2>1, <3>4, <3>5 DEF BInv, NoLink, DoneIsLast, StartsConfigured, InterruptIsSignal,
         Told, adapter, launcher
  <2>3. CASE ~connected
    BY <1>2, <2>1, <2>3 DEF set_breakpoints_request, BInv, NoLink, AskedComes, InOrder, DoneIsLast,
       StartsConfigured, InterruptIsSignal, Installing, Told, adapter, launcher, calls
  <2>. QED BY <2>2, <2>3
<1>3. CASE configuration_done_request
  <2>1. UNCHANGED <<told, asked, adapter, link, to_adapter, run, launcher>> /\ link # "none"
        /\ wanted = -1 /\ wanted' = asked
    BY <1>3 DEF configuration_done_request, BInv, NoLink
  <2>2. asked \in Nat /\ ~configured
    BY <2>1, SessionAssumption DEF BInv, TypeOK, DoneIsLast
  <2>3. CASE connected
    <3>1. PICK id \in next_id .. MaxId : send_request("configurationDone", 0, id)
      BY <1>3, <2>3 DEF configuration_done_request, send_own_request
    <3>2. /\ Len(to_launcher') = Len(to_launcher) + 1
          /\ \A i \in 1 .. Len(to_launcher) : to_launcher'[i] = to_launcher[i]
          /\ \A k : \A i \in 0 .. Len(to_launcher) : \A l \in i .. Len(to_launcher') :
               Installing(k, i) => Installing(k, l)'
      BY <2>1, <3>1, Sent DEF launcher
    <3>3. Len(to_launcher) \in Nat
      BY DEF BInv, TypeOK
    <3>4. \A k \in 1 .. asked : \A l \in Len(to_launcher) .. Len(to_launcher') : Installing(k, l)'
      <4>. SUFFICES ASSUME NEW k \in 1 .. asked, NEW l \in Len(to_launcher) .. Len(to_launcher')
                    PROVE  Installing(k, l)'
        OBVIOUS
      <4>1. Installing(k, Len(to_launcher))
        BY <2>3 DEF BInv, AskedComes
      <4>. QED BY <3>2, <3>3, <4>1
    <3>5. AskedComes' /\ InOrder'
      BY <2>1, <2>2, <3>2, <3>3, <3>4 DEF BInv, InOrder, AskedComes
    <3>. QED BY <2>1, <2>2, <3>5 DEF BInv, NoLink, DoneIsLast, StartsConfigured, InterruptIsSignal,
         Told, adapter, launcher
  <2>4. CASE ~connected
    BY <1>3, <2>1, <2>2, <2>4 DEF configuration_done_request, BInv, NoLink, AskedComes, InOrder,
       DoneIsLast, StartsConfigured, InterruptIsSignal, Installing, Told, adapter, launcher, calls
  <2>. QED BY <2>3, <2>4
<1>4. CASE terminate_request \/ disconnect_request
  <2>1. UNCHANGED <<asked, wanted, adapter, link, to_adapter, run, launcher>>
    BY <1>4 DEF terminate_request, disconnect_request, Stop
  <2>0. Told("initialized")' => Told("initialized")
    <3>1. told' = told \/ told' = Append(told, "terminated")
      BY <1>4 DEF terminate_request, disconnect_request
    <3>2. told \in Seq(Events)
      BY DEF BInv, TypeOK
    <3>. QED BY <3>1, <3>2 DEF Told
  <2>2. CASE UNCHANGED to_launcher
    BY <2>0, <2>1, <2>2 DEF BInv, NoLink, AskedComes, InOrder, DoneIsLast, StartsConfigured,
       InterruptIsSignal, Installing, adapter, launcher
  <2>3. ASSUME NEW command \in {"terminate", "disconnect"}, NEW n, NEW id,
               send_request(command, n, id), connected
        PROVE  BInv'
    <3>1. /\ Len(to_launcher') = Len(to_launcher) + 1
          /\ \A i \in 1 .. Len(to_launcher) : to_launcher'[i] = to_launcher[i]
          /\ to_launcher'[Len(to_launcher')] = [command |-> command, n |-> n, id |-> id]
          /\ \A k : \A i \in 0 .. Len(to_launcher) : \A l \in i .. Len(to_launcher') :
               Installing(k, i) => Installing(k, l)'
      BY <2>1, <2>3, Sent DEF launcher
    <3>2. Len(to_launcher) \in Nat
      BY DEF BInv, TypeOK
    <3>3. asked' = asked /\ wanted' = wanted /\ connected' = connected /\ link # "none"
      BY <2>1, <2>3 DEF adapter, BInv, NoLink, TypeOK
    <3>4. AskedComes'
      <4>. SUFFICES ASSUME NEW k \in 1 .. asked PROVE Installing(k, Len(to_launcher))'
        BY <3>3 DEF AskedComes
      <4>1. Installing(k, Len(to_launcher))
        BY <2>3 DEF BInv, AskedComes
      <4>. QED BY <3>1, <3>2, <4>1
    <3>5. InOrder'
      BY <3>1, <3>2, <3>3 DEF BInv, InOrder
    <3>. QED BY <2>0, <2>1, <3>3, <3>4, <3>5 DEF BInv, NoLink, DoneIsLast, StartsConfigured,
         InterruptIsSignal, adapter, launcher
  <2>. QED BY <1>4, <2>2, <2>3 DEF terminate_request, disconnect_request, send_own_request
<1>. QED BY <1>1, <1>2, <1>3, <1>4 DEF Client

(* What the adapter does keeps the invariant.                              *)
LEMMA AdapterOrder ==
  ASSUME BInv, TypeOK', Adapter
  PROVE  BInv'
<1>1. UNCHANGED <<client, to_launcher, run, launcher>>
  BY DEF Adapter, start_process, start_connecting, connect, connect_timeout, handle_event,
     handle_response, on_connection_lost, client, launcher
<1>2. InOrder' /\ DoneIsLast' /\ StartsConfigured' /\ InterruptIsSignal'
  BY <1>1 DEF BInv, InOrder, DoneIsLast, StartsConfigured, InterruptIsSignal, Installing,
     client, launcher
<1>3. CASE connect
  <2>1. link = "none" /\ asked = 0 /\ link' = "backlog" /\ launch' = "connected" /\ asked' = 0
    BY <1>3 DEF connect, BInv, NoLink, client
  <2>. QED BY <1>2, <2>1 DEF BInv, NoLink, AskedComes
<1>4. CASE handle_event \/ handle_response
  <2>1. link # "none" /\ UNCHANGED <<launch, connected, link>>
    BY <1>4 DEF handle_event, handle_response, Arrived, adapter, BInv, NoLink
  <2>. QED BY <1>1, <1>2, <2>1 DEF BInv, NoLink, AskedComes, Installing, client, launcher
<1>5. CASE start_process \/ start_connecting \/ connect_timeout \/ on_connection_lost
  <2>1. /\ UNCHANGED <<told, link, to_adapter>>
        /\ launch' # "connected" => launch # "connected"
        /\ connected' => connected
    BY <1>5 DEF start_process, start_connecting, connect_timeout, on_connection_lost, adapter
  <2>. QED BY <1>1, <1>2, <2>1 DEF BInv, NoLink, AskedComes, Installing, Told, client, launcher
<1>. QED BY <1>3, <1>4, <1>5 DEF Adapter

(* A request is handled.                                                   *)
LEMMA ServerOrder ==
  ASSUME BInv, TypeOK', Server
  PROVE  BInv'
<1>1. CASE listen
  BY <1>1 DEF listen, BInv, NoLink, AskedComes, InOrder, DoneIsLast, StartsConfigured,
     InterruptIsSignal, Installing, Told, client, adapter, launcher
<1>2. CASE connection_made
  BY <1>2 DEF connection_made, BInv, NoLink, AskedComes, InOrder, DoneIsLast, StartsConfigured,
     InterruptIsSignal, Installing, Told, client, adapter, launcher
<1>3. ASSUME NEW command, Receive(command), installed \subseteq installed',
             command = "setBreakpoints" => Request.n \in installed'
      PROVE  NoLink' /\ AskedComes' /\ InOrder'
  <2>1. link # "none" /\ UNCHANGED <<told, client, adapter, link>>
    BY <1>3 DEF Receive
  <2>2. /\ Len(to_launcher') = Len(to_launcher) - 1 /\ Len(to_launcher') \in Nat
        /\ \A i \in 1 .. Len(to_launcher') : to_launcher'[i] = to_launcher[i + 1]
        /\ \A k : \A i \in 1 .. Len(to_launcher) : Installing(k, i) => Installing(k, i - 1)'
    BY <1>3, Received
  <2>3. NoLink'
    BY <2>1 DEF NoLink, BInv, client, adapter
  <2>4. Len(to_launcher) \in Nat /\ Len(to_launcher) \in 1 .. Len(to_launcher)
    BY <2>2, <1>3 DEF BInv, TypeOK
  <2>5. AskedComes'
    <3>. SUFFICES ASSUME connected, NEW k \in 1 .. asked PROVE Installing(k, Len(to_launcher))'
      BY <2>1 DEF AskedComes, client, adapter
    <3>1. Installing(k, Len(to_launcher))
      BY DEF BInv, AskedComes
    <3>2. ASSUME NEW i \in 1 .. Len(to_launcher), i = Len(to_launcher)
          PROVE  Installing(k, Len(to_launcher))'
      <4>1. Installing(k, i - 1)' /\ i - 1 = Len(to_launcher')
        BY <2>2, <3>1, <3>2
      <4>. QED BY <4>1 DEF Installing
    <3>. QED BY <2>4, <3>2
  <2>6. InOrder'
    <3>. SUFFICES ASSUME NEW i \in 1 .. Len(to_launcher'),
                         to_launcher'[i].command = "configurationDone"
                  PROVE  wanted # -1 /\ \A k \in 1 .. wanted : Installing(k, i - 1)'
      BY <2>1 DEF InOrder, client
    <3>1. i + 1 \in 1 .. Len(to_launcher) /\ to_launcher[i + 1].command = "configurationDone"
          /\ i \in 1 .. Len(to_launcher)
      BY <2>2, <2>4
    <3>2. wanted # -1 /\ \A k \in 1 .. wanted : Installing(k, i)
      BY <3>1 DEF BInv, InOrder
    <3>. QED BY <2>2, <3>1, <3>2
  <2>. QED BY <2>3, <2>5, <2>6
<1>4. CASE set_breakpoints
  <2>1. installed \subseteq installed' /\ Request.n \in installed'
        /\ UNCHANGED <<run, configured, signaled, interrupt, wanted>>
    BY <1>4 DEF set_breakpoints, Receive, client
  <2>. QED BY <1>3, <1>4, <2>1 DEF set_breakpoints, BInv, DoneIsLast, StartsConfigured, InterruptIsSignal
<1>5. CASE configuration_done
  <2>1. UNCHANGED <<run, installed, signaled, interrupt, wanted>> /\ configured'
    BY <1>5 DEF configuration_done, Receive, client
  <2>2. to_launcher[1].command = "configurationDone" /\ 1 \in 1 .. Len(to_launcher)
    BY <1>5, HeadTail DEF configuration_done, Receive, Request, BInv, TypeOK
  <2>3. wanted # -1 /\ \A k \in 1 .. wanted : k \in installed
    BY <2>2 DEF BInv, InOrder, Installing
  <2>. QED BY <1>3, <1>5, <2>1, <2>3
       DEF configuration_done, BInv, DoneIsLast, StartsConfigured, InterruptIsSignal
<1>6. CASE terminate
  <2>1. UNCHANGED <<configured, installed, wanted>> /\ signaled' /\ run' \in {run, "closed"}
    BY <1>6 DEF terminate, Receive, client, Kill, Die
  <2>. QED BY <1>3, <1>6, <2>1 DEF terminate, BInv, DoneIsLast, StartsConfigured, InterruptIsSignal
<1>7. CASE disconnect
  <2>1. UNCHANGED <<configured, installed, wanted, signaled, interrupt>> /\ run' \in {run, "closed"}
    BY <1>7 DEF disconnect, Receive, client, launcher, Kill, Die
  <2>. QED BY <1>3, <1>7, <2>1 DEF disconnect, BInv, DoneIsLast, StartsConfigured, InterruptIsSignal
<1>. QED BY <1>1, <1>2, <1>4, <1>5, <1>6, <1>7 DEF Server

(* The main thread starts Robot Framework when the configuration is there, *)
(* or because a signal ended its wait.                                     *)
LEMMA RunOrder ==
  ASSUME BInv, TypeOK', run_robot
  PROVE  BInv'
<1>1. UNCHANGED <<told, client, adapter, calls, link, to_launcher, configured, installed, signaled>>
      /\ (interrupt' => interrupt)
  BY DEF run_robot, wait_for_server, wait_for_server_timeout, wait_for_client,
     wait_for_client_timeout, send_initialized, wait_for_configuration_done,
     wait_for_configuration_done_timeout, start_robot, robot_ends, send_robot_exited, exit,
     send_terminated, server_close, keyboard_interrupt, Silently, Tell, launcher
<1>2. AskedComes' /\ InOrder' /\ DoneIsLast' /\ InterruptIsSignal'
  BY <1>1 DEF BInv, AskedComes, InOrder, DoneIsLast, InterruptIsSignal, Installing, client, adapter
<1>3. link = "none" => to_adapter' = to_adapter
  BY DEF run_robot, wait_for_server, wait_for_server_timeout, wait_for_client,
     wait_for_client_timeout, send_initialized, wait_for_configuration_done,
     wait_for_configuration_done_timeout, start_robot, robot_ends, send_robot_exited, exit,
     send_terminated, server_close, keyboard_interrupt, Silently, Tell
<1>4. NoLink'
  BY <1>1, <1>3 DEF BInv, NoLink, Told, client, adapter
<1>5. StartsConfigured'
  <2>1. CASE run' \notin {"start", "running"}
    BY <2>1 DEF StartsConfigured
  <2>2. CASE wait_for_configuration_done
    BY <1>1, <2>2 DEF wait_for_configuration_done, StartsConfigured
  <2>3. CASE keyboard_interrupt
    BY <1>1, <2>3 DEF keyboard_interrupt, BInv, InterruptIsSignal, StartsConfigured
  <2>4. CASE start_robot
    BY <1>1, <2>4 DEF start_robot, Proceed, BInv, StartsConfigured
  <2>5. run_robot => \/ run' \notin {"start", "running"}
                     \/ wait_for_configuration_done \/ keyboard_interrupt \/ start_robot
    BY DEF run_robot, wait_for_server, wait_for_server_timeout, wait_for_client,
       wait_for_client_timeout, send_initialized, wait_for_configuration_done_timeout,
       robot_ends, send_robot_exited, exit, send_terminated, server_close, Proceed, Kill, Die
  <2>. QED BY <2>1, <2>2, <2>3, <2>4, <2>5
<1>. QED BY <1>2, <1>4, <1>5 DEF BInv

(* Robot Framework runs only with the breakpoints the client asked for     *)
(* before configurationDone, unless the session is being terminated.       *)
THEOREM NoBreakpointIsLate == Spec => []BreakpointsFirst
<1>1. Init => BInv
  <2>. SUFFICES ASSUME Init PROVE BInv
    OBVIOUS
  <2>1. TypeOK
    BY InitType
  <2>. QED BY <2>1 DEF Init, BInv, NoLink, AskedComes, InOrder, DoneIsLast, StartsConfigured,
       InterruptIsSignal, Told
<1>2. BInv /\ [Next]_vars => BInv'
  <2>. SUFFICES ASSUME BInv, [Next]_vars PROVE BInv'
    OBVIOUS
  <2>1. TypeOK'
    BY NextType DEF BInv
  <2>2. CASE UNCHANGED vars
    BY <2>1, <2>2 DEF vars, BInv, NoLink, AskedComes, InOrder, DoneIsLast, StartsConfigured,
       InterruptIsSignal, Installing, Told, client, adapter, launcher
  <2>. QED BY <2>1, <2>2, ClientOrder, AdapterOrder, ServerOrder, RunOrder DEF Next
<1>3. BInv => BreakpointsFirst
  BY DEF BInv, DoneIsLast, StartsConfigured, BreakpointsFirst
<1>. QED BY <1>1, <1>2, <1>3, PTL DEF Spec

-----------------------------------------------------------------------------
(* A number is on its way: in a request, or in a response.                 *)
InRequest(id) == \E i \in 1 .. Len(to_launcher) : to_launcher[i].id = id
InResponse(id) ==
  \E i \in 1 .. Len(to_adapter) : to_adapter[i].type = "response" /\ to_adapter[i].id = id
OnItsWay(id) == InRequest(id) \/ InResponse(id)
AnswersCome == process # "dead" => \A id \in unanswered : OnItsWay(id)

(* A dead launcher stays dead.                                             *)
LEMMA DeadIsForever ==
  ASSUME [Next]_vars, process = "dead"
  PROVE  process' = "dead"
BY DEF Next, Client, Adapter, Server, run_robot, vars, launch_request, set_breakpoints_request,
   configuration_done_request, terminate_request, disconnect_request, Stop, start_process,
   start_connecting, connect, connect_timeout, handle_event, handle_response, on_connection_lost,
   listen, connection_made, set_breakpoints, configuration_done, terminate, disconnect, Receive,
   wait_for_server, wait_for_server_timeout, wait_for_client, wait_for_client_timeout,
   send_initialized, wait_for_configuration_done, wait_for_configuration_done_timeout, start_robot,
   robot_ends, send_robot_exited, exit, send_terminated, server_close, keyboard_interrupt,
   Proceed, Kill, Die

(* A message that joins a queue hides none of those before it.             *)
LEMMA Joined ==
  ASSUME NEW S, NEW s \in Seq(S), NEW e
  PROVE  /\ Len(Append(s, e)) = Len(s) + 1 /\ Len(s) \in Nat
         /\ \A i \in 1 .. Len(s) : Append(s, e)[i] = s[i]
         /\ Append(s, e)[Len(s) + 1] = e
OBVIOUS

(* What is sent with a number is on its way, and nothing else is lost.     *)
LEMMA SendComes ==
  ASSUME TypeOK, AnswersCome, UNCHANGED <<process, to_adapter>>,
         NEW command, NEW n, NEW id, send_request(command, n, id)
  PROVE  AnswersCome'
<1>1. /\ Len(to_launcher') = Len(to_launcher) + 1 /\ Len(to_launcher) \in Nat
      /\ \A i \in 1 .. Len(to_launcher) : to_launcher'[i] = to_launcher[i]
      /\ to_launcher'[Len(to_launcher) + 1] = [command |-> command, n |-> n, id |-> id]
  BY Joined DEF send_request, TypeOK
<1>2. \A k : InRequest(k) => InRequest(k)'
  BY <1>1 DEF InRequest
<1>3. InRequest(id)'
  BY <1>1 DEF InRequest
<1>4. \A k : InResponse(k) => InResponse(k)'
  BY DEF InResponse
<1>. QED BY <1>2, <1>3, <1>4 DEF AnswersCome, OnItsWay, send_request

(* What the client asks for is on its way.                                 *)
LEMMA ClientSends ==
  ASSUME TypeOK, AnswersCome, Client
  PROVE  AnswersCome'
<1>1. UNCHANGED <<process, to_adapter>>
  BY DEF Client, launch_request, set_breakpoints_request, configuration_done_request,
     terminate_request, disconnect_request, Stop
<1>2. UNCHANGED <<to_launcher, unanswered>> \/ \E command, n, id : send_request(command, n, id)
  BY DEF Client, launch_request, set_breakpoints_request, configuration_done_request,
     terminate_request, disconnect_request, send_own_request, calls
<1>3. CASE UNCHANGED <<to_launcher, unanswered>>
  BY <1>1, <1>3 DEF AnswersCome, OnItsWay, InRequest, InResponse
<1>. QED BY <1>1, <1>2, <1>3, SendComes

(* An event hides no response, and a response leaves with its entry.       *)
LEMMA AdapterTakes ==
  ASSUME TypeOK, AnswersCome, Adapter
  PROVE  AnswersCome'
<1>1. UNCHANGED to_launcher /\ (process = "dead" => process' = "dead")
  BY DeadIsForever DEF Adapter, start_process, start_connecting, connect, connect_timeout,
     handle_event, handle_response, on_connection_lost, Next
<1>2. CASE UNCHANGED <<to_adapter, unanswered>>
  BY <1>1, <1>2 DEF AnswersCome, OnItsWay, InRequest, InResponse
<1>3. CASE handle_event \/ handle_response
  <2>1. to_adapter # <<>> /\ to_adapter' = Tail(to_adapter) /\ UNCHANGED process
    BY <1>3 DEF handle_event, handle_response, Arrived
  <2>2. /\ Len(to_adapter') = Len(to_adapter) - 1 /\ Head(to_adapter) = to_adapter[1]
        /\ \A i \in 1 .. Len(to_adapter') : to_adapter'[i] = to_adapter[i + 1]
        /\ Len(to_adapter) \in Nat
    BY <2>1, HeadTail DEF TypeOK
  <2>3. \A id \in unanswered' :
          ~(to_adapter[1].type = "response" /\ to_adapter[1].id = id) /\ id \in unanswered
    BY <1>3, <2>2 DEF handle_event, handle_response, Arrived, calls
  <2>4. ASSUME NEW id \in unanswered', InResponse(id) PROVE InResponse(id)'
    <3>1. PICK i \in 1 .. Len(to_adapter) : to_adapter[i].type = "response" /\ to_adapter[i].id = id
      BY <2>4 DEF InResponse
    <3>2. i # 1
      BY <2>3, <2>4, <3>1
    <3>3. i - 1 \in 1 .. Len(to_adapter') /\ to_adapter'[i - 1] = to_adapter[i]
      BY <2>2, <3>1, <3>2
    <3>. QED BY <3>1, <3>3 DEF InResponse
  <2>5. \A id : InRequest(id) => InRequest(id)'
    BY <1>1 DEF InRequest
  <2>. QED BY <2>1, <2>3, <2>4, <2>5 DEF AnswersCome, OnItsWay
<1>4. UNCHANGED <<to_adapter, unanswered>> \/ handle_event \/ handle_response
  BY DEF Adapter, start_process, start_connecting, connect, connect_timeout,
     on_connection_lost, calls
<1>. QED BY <1>2, <1>3, <1>4

(* A request that is handled is answered, or its handler ends the process. *)
LEMMA ServerAnswers ==
  ASSUME TypeOK, AnswersCome, Server
  PROVE  AnswersCome'
<1>1. CASE listen \/ connection_made
  <2>1. UNCHANGED <<to_launcher, to_adapter, unanswered>> /\ process # "dead"
    BY <1>1 DEF listen, connection_made, calls
  <2>. QED BY <2>1 DEF AnswersCome, OnItsWay, InRequest, InResponse
<1>2. ASSUME NEW command, Receive(command), Respond PROVE AnswersCome'
  <2>1. /\ Len(to_launcher') = Len(to_launcher) - 1 /\ Request = to_launcher[1]
        /\ \A i \in 1 .. Len(to_launcher') : to_launcher'[i] = to_launcher[i + 1]
        /\ Len(to_launcher) \in Nat
    BY <1>2, HeadTail DEF Receive, Request, TypeOK
  <2>2. /\ Len(to_adapter') = Len(to_adapter) + 1 /\ Len(to_adapter) \in Nat
        /\ \A i \in 1 .. Len(to_adapter) : to_adapter'[i] = to_adapter[i]
        /\ to_adapter'[Len(to_adapter) + 1] = Message("response", Request.command, Request.id)
    BY <1>2, Joined DEF Respond, TypeOK
  <2>3. \A id : InResponse(id) => InResponse(id)'
    BY <2>2 DEF InResponse
  <2>4. \A id : id = Request.id => InResponse(id)'
    BY <2>2 DEF InResponse, Message
  <2>5. ASSUME NEW id, InRequest(id) PROVE OnItsWay(id)'
    <3>1. PICK i \in 1 .. Len(to_launcher) : to_launcher[i].id = id
      BY <2>5 DEF InRequest
    <3>2. CASE i = 1
      BY <2>1, <2>4, <3>1, <3>2 DEF OnItsWay
    <3>3. CASE i # 1
      <4>1. i - 1 \in 1 .. Len(to_launcher') /\ to_launcher'[i - 1] = to_launcher[i]
        BY <2>1, <3>1, <3>3
      <4>. QED BY <3>1, <4>1 DEF InRequest, OnItsWay
    <3>. QED BY <3>2, <3>3
  <2>6. process # "dead" /\ UNCHANGED unanswered
    BY <1>2 DEF Receive, calls
  <2>. QED BY <2>3, <2>5, <2>6 DEF AnswersCome, OnItsWay
<1>3. set_breakpoints \/ configuration_done \/ terminate \/ disconnect =>
        process' = "dead" \/ \E command : Receive(command) /\ Respond
  BY DEF set_breakpoints, configuration_done, terminate, disconnect, Kill, Die
<1>. QED BY <1>1, <1>2, <1>3 DEF Server, AnswersCome

(* The main thread only adds events.                                       *)
LEMMA RunTells ==
  ASSUME TypeOK, AnswersCome, run_robot
  PROVE  AnswersCome'
<1>1. UNCHANGED <<to_launcher, unanswered>>
  BY DEF run_robot, wait_for_server, wait_for_server_timeout, wait_for_client,
     wait_for_client_timeout, send_initialized, wait_for_configuration_done,
     wait_for_configuration_done_timeout, start_robot, robot_ends, send_robot_exited, exit,
     send_terminated, server_close, keyboard_interrupt, Silently, Tell, calls
<1>2. process = "dead" => process' = "dead"
  BY DeadIsForever DEF Next
<1>3. to_adapter' = to_adapter \/ \E e : to_adapter' = Append(to_adapter, Message("event", e, 0))
  BY DEF run_robot, wait_for_server, wait_for_server_timeout, wait_for_client,
     wait_for_client_timeout, send_initialized, wait_for_configuration_done,
     wait_for_configuration_done_timeout, start_robot, robot_ends, send_robot_exited, exit,
     send_terminated, server_close, keyboard_interrupt, Silently, Tell
<1>4. \A id : InResponse(id) => InResponse(id)'
  <2>1. CASE to_adapter' = to_adapter
    BY <2>1 DEF InResponse
  <2>2. ASSUME NEW e, to_adapter' = Append(to_adapter, Message("event", e, 0))
        PROVE  \A id : InResponse(id) => InResponse(id)'
    <3>1. /\ Len(to_adapter') = Len(to_adapter) + 1 /\ Len(to_adapter) \in Nat
          /\ \A i \in 1 .. Len(to_adapter) : to_adapter'[i] = to_adapter[i]
      BY <2>2, Joined DEF TypeOK
    <3>. QED BY <3>1 DEF InResponse
  <2>. QED BY <1>3, <2>1, <2>2
<1>5. \A id : InRequest(id) => InRequest(id)'
  BY <1>1 DEF InRequest
<1>. QED BY <1>1, <1>2, <1>4, <1>5 DEF AnswersCome, OnItsWay

(* No handler of the adapter waits for an answer that is not on its way,   *)
(* as long as the launcher lives.                                          *)
THEOREM AnswersAreOnTheirWay == Spec => []WaitsForAnswers
<1>1. Init => TypeOK /\ AnswersCome
  BY InitType DEF Init, AnswersCome
<1>2. TypeOK /\ AnswersCome /\ [Next]_vars => TypeOK' /\ AnswersCome'
  <2>. SUFFICES ASSUME TypeOK, AnswersCome, [Next]_vars PROVE TypeOK' /\ AnswersCome'
    OBVIOUS
  <2>1. TypeOK'
    BY NextType
  <2>2. CASE UNCHANGED vars
    BY <2>1, <2>2 DEF vars, calls, AnswersCome, OnItsWay, InRequest, InResponse
  <2>. QED BY <2>1, <2>2, ClientSends, AdapterTakes, ServerAnswers, RunTells DEF Next
<1>3. TypeOK /\ AnswersCome => WaitsForAnswers
  <2>. SUFFICES ASSUME TypeOK, AnswersCome, process # "dead", NEW id \in unanswered
                PROVE  id \in Flying
    BY DEF WaitsForAnswers
  <2>1. DOMAIN to_launcher = 1 .. Len(to_launcher) /\ DOMAIN to_adapter = 1 .. Len(to_adapter)
    BY DEF TypeOK
  <2>2. InRequest(id) \/ InResponse(id)
    BY DEF AnswersCome, OnItsWay
  <2>3. CASE InRequest(id)
    BY <2>1, <2>3 DEF InRequest, Flying
  <2>4. CASE InResponse(id)
    BY <2>1, <2>4 DEF InResponse, Flying
  <2>. QED BY <2>2, <2>3, <2>4
<1>. QED BY <1>1, <1>2, <1>3, PTL DEF Spec
=============================================================================
