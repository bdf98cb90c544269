----------------------------- MODULE DapSession -----------------------------
(***************************************************************************)
(* One debug session, from launch to its end.  Three processes take part:  *)
(* the client; the debug adapter (debugger/launcher/server.py and          *)
(* debugger/client.py), which starts the launcher, connects to it and      *)
(* forwards requests one way and events the other; and the launcher        *)
(* (debugger/server.py, debugger/__main__.py), whose main thread waits for *)
(* the client and its configuration, runs Robot Framework and tells the    *)
(* end, while a second thread serves the requests.                         *)
(*                                                                         *)
(* Handlers of messages start in the order of the messages, and none of    *)
(* the handlers modelled awaits anything before its effect: a request of   *)
(* the client and its handler in the adapter are one action, and so is a   *)
(* request and its handler in the launcher.  setBreakpoints stands for all *)
(* requests the adapter has no handler for, which keep the client's number *)
(* when they are forwarded; the adapter's own requests have numbers of its *)
(* own, and the two may be equal.                                          *)
(***************************************************************************)
EXTENDS Integers, Sequences, FiniteSets

CONSTANTS
  MaxBreakpoints,   (* bound: setBreakpoints requests                      *)
  MaxStops,         (* bound: terminate and disconnect requests            *)
  MaxId             (* bound: the numbers the adapter gives its requests   *)

ASSUME SessionAssumption == MaxBreakpoints \in Nat /\ MaxStops \in Nat /\ MaxId \in Nat

VARIABLES
  (* the client *)
  told,         (* the events it was sent                                  *)
  asked,        (* how many setBreakpoints requests it made                *)
  wanted,       (* how many of them before configurationDone, -1 before    *)
  stops,        (* how many terminate and disconnect requests it made      *)
  (* the adapter: DAPServerProtocol, DAPClient, DAPClientProtocol *)
  launch,       (* where the handler of launch is                          *)
  connected,    (* connected: _protocol is not None                        *)
  saw_end,      (* terminated: a TerminatedEvent has arrived               *)
  next_id,      (* _next_id: the least number not yet used                 *)
  unanswered,   (* the keys of _sended_request                             *)
  (* the connection *)
  link,         (* none, in the launcher's backlog, or accepted            *)
  to_launcher,  (* requests on their way                                   *)
  to_adapter,   (* events and responses on their way                       *)
  (* the launcher *)
  process,      (* none, starting, listening or dead                       *)
  run,          (* where run_robot is                                      *)
  configured,   (* _received_configuration_done                            *)
  exited, terminated,
  signaled,     (* _sigint_signaled                                        *)
  interrupt,    (* has the main thread still to see the signal?            *)
  installed,    (* the breakpoints set in the Debugger                     *)
  (* history *)
  cut           (* was the launcher killed, or did it wait in vain?        *)

client == <<asked, wanted, stops>>
adapter == <<launch, connected, saw_end>>
calls == <<next_id, unanswered>>
launcher == <<configured, exited, terminated, signaled, interrupt, installed>>
vars == <<told, client, adapter, calls, link, to_launcher, to_adapter,
          process, run, launcher, cut>>

Events == {"initialized", "robotExited", "exited", "terminated"}
Commands == {"setBreakpoints", "configurationDone", "terminate", "disconnect"}
Ids == 0 .. (MaxId + MaxBreakpoints)
Phases == {"boot", "wait_client", "initialized", "wait_configuration", "start", "running",
           "robot_exited", "exit", "terminate", "close", "closed"}
Message(type, name, id) == [type |-> type, name |-> name, id |-> id]

Init ==
  /\ told = <<>> /\ asked = 0 /\ wanted = -1 /\ stops = 0
  /\ launch = "none" /\ connected = FALSE /\ saw_end = FALSE
  /\ next_id = 1 /\ unanswered = {}
  /\ link = "none" /\ to_launcher = <<>> /\ to_adapter = <<>>
  /\ process = "none" /\ run = "boot" /\ configured = FALSE
  /\ exited = FALSE /\ terminated = FALSE /\ signaled = FALSE /\ interrupt = FALSE
  /\ installed = {} /\ cut = FALSE

-----------------------------------------------------------------------------
(* The adapter: launch                                                     *)

launch_request ==
  /\ launch = "none"
  /\ launch' = "starting"
  /\ UNCHANGED <<told, client, connected, saw_end, calls, link, to_launcher, to_adapter,
                 process, run, launcher, cut>>

(* The process is started, by the client in a terminal or by the adapter   *)
(* itself, and may be on its way before the adapter goes on.               *)
start_process ==
  /\ launch = "starting" /\ process = "none"
  /\ process' = "starting"
  /\ UNCHANGED <<told, client, adapter, calls, link, to_launcher, to_adapter,
                 run, launcher, cut>>

start_connecting ==
  /\ launch = "starting"
  /\ launch' = IF process = "none" THEN "failed" ELSE "connecting"
  /\ UNCHANGED <<told, client, connected, saw_end, calls, link, to_launcher, to_adapter,
                 process, run, launcher, cut>>

(* A refused connection is tried again until the timeout.                  *)
connect ==
  /\ launch = "connecting" /\ process = "listening"
  /\ launch' = "connected"
  /\ connected' = TRUE
  /\ link' = "backlog"
  /\ UNCHANGED <<told, client, saw_end, calls, to_launcher, to_adapter,
                 process, run, launcher, cut>>

(* "Can't connect to debug launcher."                                      *)
connect_timeout ==
  /\ launch = "connecting"
  /\ launch' = "timed_out"
  /\ UNCHANGED <<told, client, connected, saw_end, calls, link, to_launcher, to_adapter,
                 process, run, launcher, cut>>

-----------------------------------------------------------------------------
(* The adapter: requests of the client                                     *)

Told(e) == \E i \in DOMAIN told : told[i] = e

(* An entry with the same key is replaced.                                 *)
send_request(command, n, id) ==
  /\ to_launcher' = Append(to_launcher, [command |-> command, n |-> n, id |-> id])
  /\ unanswered' = unanswered \cup {id}

send_own_request(command, n) ==
  \E id \in next_id .. MaxId :
    /\ next_id' = id + 1
    /\ send_request(command, n, id)

(* handle_unknown_command: an error if there is no connection.             *)
set_breakpoints_request ==
  /\ Told("initialized") /\ asked < MaxBreakpoints
  /\ asked' = asked + 1
  /\ IF connected
     THEN send_request("setBreakpoints", asked', asked') /\ UNCHANGED next_id
     ELSE UNCHANGED <<calls, to_launcher>>
  /\ UNCHANGED <<told, wanted, stops, adapter, link, to_adapter,
                 process, run, launcher, cut>>

configuration_done_request ==
  /\ Told("initialized") /\ wanted = -1
  /\ wanted' = asked
  /\ IF connected
     THEN send_own_request("configurationDone", 0)
     ELSE UNCHANGED <<calls, to_launcher>>
  /\ UNCHANGED <<told, asked, stops, adapter, link, to_adapter,
                 process, run, launcher, cut>>

Stop ==
  /\ launch # "none" /\ stops < MaxStops
  /\ stops' = stops + 1
  /\ UNCHANGED <<asked, wanted, adapter, link, to_adapter, process, run, launcher, cut>>

(* An error if there is not even a DAPClient.                              *)
terminate_request ==
  /\ Stop
  /\ IF connected
     THEN send_own_request("terminate", stops') /\ UNCHANGED told
     ELSE /\ told' = IF launch \in {"starting", "failed"} THEN told ELSE Append(told, "terminated")
          /\ UNCHANGED <<calls, to_launcher>>

disconnect_request ==
  /\ Stop
  /\ IF connected /\ ~saw_end
     THEN send_own_request("disconnect", stops') /\ UNCHANGED told
     ELSE /\ told' = IF connected THEN told ELSE Append(told, "terminated")
          /\ UNCHANGED <<calls, to_launcher>>

-----------------------------------------------------------------------------
(* The adapter: what the launcher sends                                    *)

Arrived(type) == to_adapter # <<>> /\ Head(to_adapter).type = type

(* Every event is passed on.                                               *)
handle_event ==
  /\ Arrived("event")
  /\ told' = Append(told, Head(to_adapter).name)
  /\ saw_end' = (saw_end \/ Head(to_adapter).name = "terminated")
  /\ to_adapter' = Tail(to_adapter)
  /\ UNCHANGED <<client, launch, connected, calls, link, to_launcher,
                 process, run, launcher, cut>>

(* Without an entry it is an "Invalid response".                           *)
handle_response ==
  /\ Arrived("response")
  /\ unanswered' = unanswered \ {Head(to_adapter).id}
  /\ to_adapter' = Tail(to_adapter)
  /\ UNCHANGED <<told, client, adapter, next_id, link, to_launcher,
                 process, run, launcher, cut>>

(* The end of the connection comes after everything that was sent on it;   *)
(* requests without an answer stay without one.                            *)
on_connection_lost ==
  /\ connected /\ process = "dead" /\ to_adapter = <<>>
  /\ connected' = FALSE
  /\ UNCHANGED <<told, client, launch, saw_end, calls, link, to_launcher, to_adapter,
                 process, run, launcher, cut>>

-----------------------------------------------------------------------------
(* The launcher: the thread of the server                                  *)

listen ==
  /\ process = "starting"
  /\ process' = "listening"
  /\ UNCHANGED <<told, client, adapter, calls, link, to_launcher, to_adapter,
                 run, launcher, cut>>

connection_made ==
  /\ process = "listening" /\ link = "backlog"
  /\ link' = "accepted"
  /\ UNCHANGED <<told, client, adapter, calls, to_launcher, to_adapter,
                 process, run, launcher, cut>>

Request == Head(to_launcher)
Receive(command) ==
  /\ process = "listening" /\ link = "accepted"
  /\ to_launcher # <<>> /\ Request.command = command
  /\ to_launcher' = Tail(to_launcher)
  /\ UNCHANGED <<told, client, adapter, calls, link>>
Respond == to_adapter' = Append(to_adapter, Message("response", Request.command, Request.id))

Die == process' = "dead" /\ run' = "closed"
Kill == Die /\ cut' = TRUE

set_breakpoints ==
  /\ Receive("setBreakpoints")
  /\ installed' = installed \cup {Request.n}
  /\ Respond
  /\ UNCHANGED <<process, run, configured, exited, terminated, signaled, interrupt, cut>>

configuration_done ==
  /\ Receive("configurationDone")
  /\ configured' = TRUE
  /\ Respond
  /\ UNCHANGED <<process, run, exited, terminated, signaled, interrupt, installed, cut>>

(* The first one interrupts the main thread, the second one ends the       *)
(* process unless Robot Framework, which handles both signals, is running. *)
(* Mutant: the response is forgotten.                                      *)
terminate_silently ==
  /\ Receive("terminate")
  /\ interrupt' = (interrupt \/ ~signaled)
  /\ signaled' = TRUE
  /\ IF signaled /\ run # "running"
     THEN Kill /\ UNCHANGED to_adapter
     ELSE UNCHANGED <<process, run, cut, to_adapter>>
  /\ UNCHANGED <<configured, exited, terminated, installed>>
terminate ==
  /\ Receive("terminate")
  /\ interrupt' = (interrupt \/ ~signaled)
  /\ signaled' = TRUE
  /\ IF signaled /\ run # "running"
     THEN Kill /\ UNCHANGED to_adapter
     ELSE Respond /\ UNCHANGED <<process, run, cut>>
  /\ UNCHANGED <<configured, exited, terminated, installed>>

(* The process is ended unless the run is over, or the client asks to      *)
(* leave it alone (terminateDebuggee).                                     *)
disconnect ==
  /\ Receive("disconnect")
  /\ \/ ~(exited /\ terminated) /\ Kill /\ UNCHANGED to_adapter
     \/ Respond /\ UNCHANGED <<process, run, cut>>
  /\ UNCHANGED launcher

-----------------------------------------------------------------------------
(* The launcher: the main thread, run_robot                                *)

Proceed(from, to) == process # "dead" /\ run = from /\ run' = to
Silently == UNCHANGED <<told, client, adapter, calls, link, to_launcher, to_adapter,
                        process, signaled, interrupt, configured, installed>>
Tell(e) ==
  /\ to_adapter' = IF link = "accepted"
                   THEN Append(to_adapter, Message("event", e, 0))
                   ELSE to_adapter
  /\ UNCHANGED <<told, client, adapter, calls, link, to_launcher,
                 process, signaled, interrupt, configured, installed>>

wait_for_server ==
  /\ process = "listening" /\ Proceed("boot", "wait_client")
  /\ Silently /\ UNCHANGED <<exited, terminated, cut>>

wait_for_server_timeout ==
  /\ process = "starting" /\ Kill
  /\ UNCHANGED <<told, client, adapter, calls, link, to_launcher, to_adapter, launcher>>

wait_for_client ==
  /\ link = "accepted" /\ Proceed("wait_client", "initialized")
  /\ Silently /\ UNCHANGED <<exited, terminated, cut>>

(* "No incomming connection from a debugger client."                       *)
wait_for_client_timeout ==
  /\ link # "accepted" /\ Proceed("wait_client", "terminate")
  /\ cut' = TRUE
  /\ Silently /\ UNCHANGED <<exited, terminated>>

send_initialized ==
  /\ Proceed("initialized", "wait_configuration")
  /\ Tell("initialized") /\ UNCHANGED <<exited, terminated, cut>>

(* Mutant: the configuration is not waited for.                            *)
assume_configuration ==
  /\ Proceed("wait_configuration", "start")
  /\ Silently /\ UNCHANGED <<exited, terminated, cut>>
wait_for_configuration_done ==
  /\ configured /\ Proceed("wait_configuration", "start")
  /\ Silently /\ UNCHANGED <<exited, terminated, cut>>

(* "Timeout to get configuration from client."                             *)
(* Mutant: the server is closed without a word to the client.              *)
give_up_silently ==
  /\ ~configured /\ Proceed("wait_configuration", "close")
  /\ Silently /\ UNCHANGED <<exited, terminated, cut>>
wait_for_configuration_done_timeout ==
  /\ ~configured /\ Proceed("wait_configuration", "terminate")
  /\ Silently /\ UNCHANGED <<exited, terminated, cut>>

start_robot ==
  /\ Proceed("start", "running")
  /\ Silently /\ UNCHANGED <<exited, terminated, cut>>

(* A signal that came while Robot Framework ran has been dealt with.       *)
robot_ends ==
  /\ Proceed("running", "robot_exited")
  /\ interrupt' = FALSE
  /\ UNCHANGED <<told, client, adapter, calls, link, to_launcher, to_adapter, process,
                 configured, exited, terminated, signaled, installed, cut>>

send_robot_exited ==
  /\ Proceed("robot_exited", "exit")
  /\ Tell("robotExited") /\ UNCHANGED <<exited, terminated, cut>>

exit ==
  /\ Proceed("exit", "terminate")
  /\ exited' = (exited \/ link = "accepted")
  /\ Tell("exited") /\ UNCHANGED <<terminated, cut>>

send_terminated ==
  /\ Proceed("terminate", "close")
  /\ terminated' = (terminated \/ link = "accepted")
  /\ Tell("terminated") /\ UNCHANGED <<exited, cut>>

server_close ==
  /\ run = "close" /\ Die
  /\ UNCHANGED <<told, client, adapter, calls, link, to_launcher, to_adapter, launcher, cut>>

(* The KeyboardInterrupt of the first terminate cancels run_robot: a wait  *)
(* takes it for its end, any other await goes to the finally clause, which *)
(* is itself cut short.  The event of an await may have left before.       *)
Cancelled ==
  {<<"wait_client", "initialized">>, <<"wait_configuration", "start">>,
   <<"initialized", "terminate">>, <<"wait_configuration", "terminate">>,
   <<"start", "terminate">>, <<"robot_exited", "terminate">>, <<"exit", "terminate">>}
keyboard_interrupt ==
  /\ interrupt /\ process = "listening"
  /\ interrupt' = FALSE
  /\ \/ (\E c \in Cancelled : run = c[1] /\ run' = c[2]) /\ UNCHANGED <<process, cut>>
     \/ run \in {"boot", "terminate", "close"} /\ Kill
  /\ UNCHANGED <<told, client, adapter, calls, link, to_launcher, to_adapter,
                 configured, exited, terminated, signaled, installed>>

-----------------------------------------------------------------------------
Client ==
  \/ launch_request \/ set_breakpoints_request \/ configuration_done_request
  \/ terminate_request \/ disconnect_request
Adapter ==
  \/ start_process \/ start_connecting \/ connect \/ connect_timeout
  \/ handle_event \/ handle_response \/ on_connection_lost
Server ==
  \/ listen \/ connection_made
  \/ set_breakpoints \/ configuration_done \/ terminate \/ disconnect
run_robot ==
  \/ wait_for_server \/ wait_for_server_timeout
  \/ wait_for_client \/ wait_for_client_timeout \/ send_initialized
  \/ wait_for_configuration_done \/ wait_for_configuration_done_timeout
  \/ start_robot \/ robot_ends \/ send_robot_exited \/ exit
  \/ send_terminated \/ server_close \/ keyboard_interrupt
Next == Client \/ Adapter \/ Server \/ run_robot

Spec == Init /\ [][Next]_vars

(* The loops of the adapter and of the launcher run, the main thread gets  *)
(* on, and a run of Robot Framework ends (RunEnds of Debugger); the client *)
(* owes nothing.                                                           *)
Fairness == WF_vars(Adapter) /\ WF_vars(Server) /\ WF_vars(run_robot)
FairSpec == Spec /\ Fairness

-----------------------------------------------------------------------------
(* Properties                                                              *)

Requests ==
  [command : {"setBreakpoints"}, n : 1 .. MaxBreakpoints, id : Ids]
    \cup [command : Commands \ {"setBreakpoints"}, n : 0 .. MaxStops, id : Ids]
Messages ==
  [type : {"event"}, name : Events, id : {0}] \cup [type : {"response"}, name : Commands, id : Ids]

(* The values the variables take; a request in flight has a number.        *)
TypeOK ==
  /\ told \in Seq(Events)
  /\ asked \in 0 .. MaxBreakpoints /\ wanted \in -1 .. MaxBreakpoints
  /\ stops \in 0 .. MaxStops
  /\ launch \in {"none", "starting", "failed", "connecting", "connected", "timed_out"}
  /\ connected \in BOOLEAN /\ saw_end \in BOOLEAN
  /\ next_id \in 1 .. (MaxId + 1) /\ unanswered \subseteq Ids
  /\ link \in {"none", "backlog", "accepted"}
  /\ to_launcher \in Seq(Requests)
  /\ to_adapter \in Seq(Messages)
  /\ process \in {"none", "starting", "listening", "dead"}
  /\ run \in Phases
  /\ configured \in BOOLEAN /\ exited \in BOOLEAN /\ terminated \in BOOLEAN
  /\ signaled \in BOOLEAN /\ interrupt \in BOOLEAN
  /\ installed \subseteq 1 .. MaxBreakpoints
  /\ cut \in BOOLEAN

(* Robot Framework starts only when every breakpoint the client asked for  *)
(* before configurationDone is set, unless the run is being terminated:    *)
(* requests pass the adapter and the launcher by tasks of their own.       *)
BreakpointsFirst == run = "running" /\ ~signaled => 1 .. wanted \subseteq installed

(* While the launcher lives no handler of the adapter waits for an answer  *)
(* that is not on its way: each entry of _sended_request has its request   *)
(* or its response in flight.  (With equal numbers one entry replaces the  *)
(* other, so not every request in flight has an entry of its own.)         *)
Flying ==
  {to_launcher[i].id : i \in DOMAIN to_launcher}
    \cup {to_adapter[i].id : i \in {j \in DOMAIN to_adapter : to_adapter[j].type = "response"}}
WaitsForAnswers == process # "dead" => unanswered \subseteq Flying

(* A session that was connected ends for the client: it is told            *)
(* terminated, or the launcher was killed or gave up before it saw it.     *)
SessionEnds == launch = "connected" ~> (Told("terminated") \/ cut)

=============================================================================
