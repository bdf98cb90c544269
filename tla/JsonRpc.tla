------------------------------ MODULE JsonRpc ------------------------------
(***************************************************************************)
(* The JSON-RPC layer of the language server: JsonRPCProtocol and          *)
(* JsonRPCServer (robotcode/jsonrpc2), and the requests of the base        *)
(* protocol that act on other requests or on the server: $/cancelRequest,  *)
(* shutdown and exit (language_server/common/protocol.py).                 *)
(*                                                                         *)
(* Everything runs on one asyncio loop.  Code between two awaits is atomic,*)
(* and the loop runs what is ready first in, first out; an action is one   *)
(* entry of its queue.  A request occupies two tasks: one that handles the *)
(* message, and the one it creates for the method (the handler).           *)
(***************************************************************************)
EXTENDS Integers, Sequences, FiniteSets

CONSTANTS
  Requests,      (* the ids of the client's requests                       *)
  Shutdown,      (* the one that calls shutdown; the others call methods   *)
  Stdio,         (* the mode of the server: stdio or tcp?                  *)
  ClientErrors,  (* does the client answer requests with errors, too?      *)
  MaxCalls,      (* bound: requests the server makes of the client         *)
  MaxInbox       (* bound: messages on their way to the server             *)

ASSUME JsonRpcAssumption ==
  /\ Shutdown \in Requests /\ IsFiniteSet(Requests)
  /\ Stdio \in BOOLEAN /\ ClientErrors \in BOOLEAN
  /\ MaxCalls \in Nat /\ MaxInbox \in Nat

Calls == 1 .. MaxCalls

VARIABLES
  (* JsonRPCProtocol *)
  received,      (* the keys of _received_request                          *)
  sended,        (* the keys of _sended_request                            *)
  sended_count,  (* _sended_request_count                                  *)
  future,        (* the future of every call                               *)
  (* JsonRPCServer *)
  stop_event,    (* _stdio_stop_event                                      *)
  reader,        (* aio_readline                                           *)
  (* the loop and its tasks *)
  loop, ready,
  handler,       (* the task of every request's method                     *)
  cancelled,     (* the handlers that were cancelled                       *)
  awaits,        (* the call a suspended handler waits for, 0 for none     *)
  answers,       (* what was written in answer to every request            *)
  (* the client *)
  inbox,         (* messages on their way to the server                    *)
  sent, revoked, replied, exit

tables == <<received, sended, sended_count>>
server == <<stop_event, reader, loop>>
tasks == <<handler, cancelled, awaits, future>>
client == <<sent, revoked, replied, exit>>

vars == <<tables, server, ready, tasks, answers, inbox, client>>

Live == {"created", "suspended", "resumed"}

-----------------------------------------------------------------------------
(* The loop                                                                *)

(* The loop runs the first entry of its queue.  Once stopped it completes  *)
(* the entries it had collected, so some more may run.                     *)
Runs(task) == loop \in {"running", "stopping"} /\ ready # <<>> /\ Head(ready) = task

(* Queues of the members of a set, in some order.                          *)
Orders(S) == {q \in [1 .. Cardinality(S) -> S] : \A s \in S : \E i \in DOMAIN q : q[i] = s}

(* The suspended tasks of S wake up behind the queue q.                    *)
Wake(S, q) ==
  LET W == {r \in S : handler[r] = "suspended"} IN
  /\ handler' = [r \in Requests |-> IF r \in W THEN "resumed" ELSE handler[r]]
  /\ awaits' = [r \in Requests |-> IF r \in W THEN 0 ELSE awaits[r]]
  /\ \E o \in Orders(W) : ready' = q \o [i \in DOMAIN o |-> <<"handler", o[i]>>]

(* Task.cancel for each of S, by way of whatever it waits for.             *)
CancelTasks(S, q) ==
  /\ Wake(S, q)
  /\ future' = [c \in Calls |-> IF \E r \in S : handler[r] = "suspended" /\ awaits[r] = c
                                THEN "cancelled" ELSE future[c]]

Init ==
  /\ received = {} /\ sended = {} /\ sended_count = 0
  /\ future = [c \in Calls |-> "none"]
  /\ stop_event = FALSE /\ reader = "reading" /\ loop = "running" /\ ready = <<>>
  /\ handler = [r \in Requests |-> "none"] /\ cancelled = {}
  /\ awaits = [r \in Requests |-> 0] /\ answers = [r \in Requests |-> <<>>]
  /\ inbox = <<>> /\ sent = {} /\ revoked = {} /\ replied = {} /\ exit = FALSE

-----------------------------------------------------------------------------
(* The client.  After shutdown it makes no more requests; it may cancel a  *)
(* request at any time, also when it has already been answered.            *)

Sends(message) == Len(inbox) < MaxInbox /\ inbox' = Append(inbox, message)

client_request(r) ==
  /\ r \notin sent /\ Shutdown \notin sent
  /\ sent' = sent \cup {r}
  /\ Sends(<<"request", r>>)
  /\ UNCHANGED <<tables, server, ready, tasks, answers, revoked, replied, exit>>

client_cancel(r) ==
  /\ r \in sent \ revoked
  /\ revoked' = revoked \cup {r}
  /\ Sends(<<"cancel", r>>)
  /\ UNCHANGED <<tables, server, ready, tasks, answers, sent, replied, exit>>

client_reply(c, kind) ==
  /\ c <= sended_count /\ c \notin replied
  /\ kind = "response" \/ (kind = "error" /\ ClientErrors)
  /\ replied' = replied \cup {c}
  /\ Sends(<<kind, c>>)
  /\ UNCHANGED <<tables, server, ready, tasks, answers, sent, revoked, exit>>

client_exit ==
  /\ ~exit
  /\ exit' = TRUE
  /\ Sends(<<"exit", 0>>)
  /\ UNCHANGED <<tables, server, ready, tasks, answers, sent, revoked, replied>>

-----------------------------------------------------------------------------
(* Reading                                                                 *)

(* A read returns the next message.                                        *)
read ==
  /\ loop = "running" /\ reader = "reading" /\ inbox # <<>>
  /\ reader' = "woken"
  /\ ready' = Append(ready, <<"data", 0>>)
  /\ UNCHANGED <<tables, stop_event, loop, tasks, answers, inbox, client>>

(* data_received and _handle_messages create a task for the message.  On   *)
(* stdio the loop that reads ends once the stop event is set, and with it  *)
(* run_until_complete.                                                     *)
data_received ==
  /\ Runs(<<"data", 0>>)
  /\ inbox' = Tail(inbox)
  /\ reader' = IF stop_event THEN "ended" ELSE "reading"
  /\ ready' = Tail(ready) \o << <<"message", Head(inbox)>> >>
                          \o IF stop_event THEN << <<"stop", 0>> >> ELSE <<>>
  /\ UNCHANGED <<tables, stop_event, loop, tasks, answers, client>>

stop ==
  /\ Runs(<<"stop", 0>>)
  /\ loop' = "stopping"
  /\ ready' = Tail(ready)
  /\ UNCHANGED <<tables, stop_event, reader, tasks, answers, inbox, client>>

loop_ends ==
  /\ loop = "stopping"
  /\ loop' = "stopped"
  /\ UNCHANGED <<tables, stop_event, reader, ready, tasks, answers, inbox, client>>

-----------------------------------------------------------------------------
(* handle_message                                                          *)

Handles(kind, x) == Runs(<<"message", <<kind, x>> >>)

Answer(r, what) == answers' = [answers EXCEPT ![r] = Append(@, what)]

(* handle_request of an unknown method or with parameters it cannot convert*)
refuse_request(r) ==
  /\ Handles("request", r) /\ r # Shutdown
  /\ Answer(r, "error")
  /\ handler' = [handler EXCEPT ![r] = "closed"]
  /\ ready' = Tail(ready)
  /\ UNCHANGED <<tables, server, cancelled, awaits, future, inbox, client>>

Register(r) == received' = received \cup {r}

handle_request(r) ==
  /\ Handles("request", r)
  /\ handler' = [handler EXCEPT ![r] = "created"]
  /\ Register(r)
  /\ ready' = Append(Tail(ready), <<"handler", r>>)
  /\ UNCHANGED <<sended, sended_count, server, cancelled, awaits, future, answers, inbox, client>>

(* The rest of handle_request, when the handler is done.  A result that    *)
(* cannot be encoded is answered with an error.                            *)
Unregister(r) == received' = received \ {r}

reply(r) ==
  /\ Runs(<<"reply", r>>)
  /\ \/ handler[r] = "result" /\ Answer(r, "result")
     \/ handler[r] \in {"result", "error"} /\ Answer(r, "error")
     \/ handler[r] = "cancelled" /\ UNCHANGED answers
  /\ handler' = [handler EXCEPT ![r] = "closed"]
  /\ Unregister(r)
  /\ ready' = Tail(ready)
  /\ UNCHANGED <<sended, sended_count, server, cancelled, awaits, future, inbox, client>>

(* cancelRequest: a request that is not in the table is left alone.        *)
cancel_received_request(r) ==
  /\ Handles("cancel", r)
  /\ LET S == {r} \cap received IN
       /\ CancelTasks(S, Tail(ready))
       /\ cancelled' = cancelled \cup {s \in S : handler[s] \in Live}
  /\ UNCHANGED <<tables, server, answers, inbox, client>>

(* exit raises SystemExit, which ends the loop at once.                    *)
handle_exit ==
  /\ Handles("exit", 0)
  /\ loop' = "stopped"
  /\ ready' = Tail(ready)
  /\ UNCHANGED <<tables, stop_event, reader, tasks, answers, inbox, client>>

(* A response resolves the future of its call, unless that is done.        *)
(* Mutant: a result that cannot be converted leaves the future pending.    *)
ResolveConverted(c) ==
  \/ /\ ready' = Tail(ready)
     /\ UNCHANGED <<handler, awaits, future>>
  \/ LET S == {r \in Requests : awaits[r] = c} IN
     /\ Wake(S, Tail(ready))
     /\ future' = [future EXCEPT ![c] = IF @ = "pending" THEN "done" ELSE @]
Resolve(c) ==
  LET S == {r \in Requests : awaits[r] = c} IN
  /\ Wake(S, Tail(ready))
  /\ future' = [future EXCEPT ![c] = IF @ = "pending" THEN "done" ELSE @]

handle_response(c) ==
  /\ Handles("response", c)
  /\ sended' = sended \ {c}
  /\ Resolve(c)
  /\ UNCHANGED <<received, sended_count, server, cancelled, answers, inbox, client>>

(* An error only raises an exception in the task of the message.           *)
handle_error(c) ==
  /\ Handles("error", c)
  /\ ready' = Tail(ready)
  /\ UNCHANGED <<tables, server, tasks, answers, inbox, client>>

-----------------------------------------------------------------------------
(* Handlers                                                                *)

(* One step of a handler that may begin: a task that is cancelled before   *)
(* its first step never begins.                                            *)
Steps(r) == Runs(<<"handler", r>>) /\ ~(handler[r] = "created" /\ r \in cancelled)

(* It waits for something that is not the client: input or output, a       *)
(* thread, another task.                                                   *)
suspend(r) ==
  /\ Steps(r) /\ ~(r = Shutdown /\ handler[r] = "created")
  /\ handler' = [handler EXCEPT ![r] = "suspended"]
  /\ ready' = Tail(ready)
  /\ UNCHANGED <<tables, server, cancelled, awaits, future, answers, inbox, client>>

resume(r) ==
  /\ handler[r] = "suspended" /\ awaits[r] = 0 /\ loop # "stopped"
  /\ r = Shutdown => \A i \in DOMAIN ready : ready[i] # <<"cancel_all", 0>>
  /\ Wake({r}, ready)
  /\ UNCHANGED <<tables, server, cancelled, future, answers, inbox, client>>

(* send_request: it waits for an answer of the client.                     *)
send_request(r) ==
  /\ Steps(r) /\ r # Shutdown
  /\ sended_count < MaxCalls
  /\ sended_count' = sended_count + 1
  /\ sended' = sended \cup {sended_count'}
  /\ future' = [future EXCEPT ![sended_count'] = "pending"]
  /\ awaits' = [awaits EXCEPT ![r] = sended_count']
  /\ handler' = [handler EXCEPT ![r] = "suspended"]
  /\ ready' = Tail(ready)
  /\ UNCHANGED <<received, server, cancelled, answers, inbox, client>>

(* The handler ends.  Only one that was cancelled ends cancelled, and one  *)
(* that was may still return.  The task of the message is woken.           *)
Ends(r, outcome) ==
  /\ Runs(<<"handler", r>>)
  /\ outcome = "cancelled" => r \in cancelled
  /\ outcome # "cancelled" => Steps(r)
  /\ handler' = [handler EXCEPT ![r] = outcome]
  /\ ready' = Append(Tail(ready), <<"reply", r>>)

finish(r, outcome) ==
  /\ r # Shutdown
  /\ Ends(r, outcome)
  /\ UNCHANGED <<tables, server, cancelled, awaits, future, answers, inbox, client>>

(* shutdown first waits for a task that cancels what is received, then for *)
(* the listeners of on_shutdown, and then has the server stop reading.     *)
shutdown ==
  /\ Steps(Shutdown) /\ handler[Shutdown] = "created"
  /\ handler' = [handler EXCEPT ![Shutdown] = "suspended"]
  /\ ready' = Append(Tail(ready), <<"cancel_all", 0>>)
  /\ UNCHANGED <<tables, server, cancelled, awaits, future, answers, inbox, client>>

(* cancel_all_received_request cancels shutdown, too, which ignores it.    *)
cancel_all_received_request ==
  /\ Runs(<<"cancel_all", 0>>)
  /\ CancelTasks(received, Tail(ready))
  /\ cancelled' = cancelled \cup ({r \in received : handler[r] \in Live} \ {Shutdown})
  /\ UNCHANGED <<tables, server, answers, inbox, client>>

(* Mutant: the server stops the loop itself.                               *)
shutdown_loop == stop_event' = (stop_event \/ Stdio) /\ loop' = "stopping"
shutdown_protocol == stop_event' = (stop_event \/ Stdio) /\ UNCHANGED loop

finish_shutdown(outcome) ==
  /\ handler[Shutdown] = "created" => outcome = "cancelled"
  /\ Ends(Shutdown, outcome)
  /\ IF outcome = "result" THEN shutdown_protocol ELSE UNCHANGED <<stop_event, loop>>
  /\ UNCHANGED <<tables, reader, cancelled, awaits, future, answers, inbox, client>>

-----------------------------------------------------------------------------
(* The specification                                                       *)

Outcomes == {"result", "error", "cancelled"}

Client ==
  \/ \E r \in Requests : client_request(r) \/ client_cancel(r)
  \/ \E c \in Calls, kind \in {"response", "error"} : client_reply(c, kind)
  \/ client_exit

Message ==
  \/ \E r \in Requests :
       refuse_request(r) \/ handle_request(r) \/ cancel_received_request(r)
  \/ \E c \in Calls : handle_response(c) \/ handle_error(c)
  \/ handle_exit

Handler ==
  \/ \E r \in Requests : reply(r) \/ suspend(r) \/ send_request(r)
  \/ \E r \in Requests, outcome \in Outcomes : finish(r, outcome)
  \/ shutdown \/ cancel_all_received_request
  \/ \E outcome \in Outcomes : finish_shutdown(outcome)

Loop == data_received \/ stop \/ loop_ends \/ Message \/ Handler

Next == Client \/ read \/ Loop \/ \E r \in Requests : resume(r)

Spec == Init /\ [][Next]_vars

(* The loop runs what is ready and what was written is read; what a        *)
(* handler waits for happens, and the handler ends if it is run again and  *)
(* again; the client answers.                                              *)
Fairness ==
  /\ WF_vars(Loop) /\ WF_vars(loop_ends) /\ WF_vars(read)
  /\ \A r \in Requests :
       /\ WF_vars(resume(r))
       /\ SF_vars(\E outcome \in Outcomes :
                    finish(r, outcome) \/ (r = Shutdown /\ finish_shutdown(outcome)))
  /\ \A c \in Calls : WF_vars(\E kind \in {"response", "error"} : client_reply(c, kind))

FairSpec == Spec /\ Fairness

-----------------------------------------------------------------------------
(* Properties                                                              *)

Messages ==
  ({"request", "cancel"} \X Requests) \cup ({"response", "error"} \X Calls) \cup {<<"exit", 0>>}
Entries ==
  ({"message"} \X Messages) \cup ({"handler", "reply"} \X Requests)
    \cup ({"data", "stop", "cancel_all"} \X {0})

(* The types of the variables.                                             *)
TypeOK ==
  /\ received \subseteq Requests /\ sended \subseteq Calls
  /\ sended_count \in 0 .. MaxCalls
  /\ future \in [Calls -> {"none", "pending", "cancelled", "done"}]
  /\ stop_event \in BOOLEAN /\ reader \in {"reading", "woken", "ended"}
  /\ loop \in {"running", "stopping", "stopped"} /\ ready \in Seq(Entries)
  /\ handler \in [Requests -> {"none", "closed"} \cup Live \cup Outcomes]
  /\ cancelled \subseteq Requests /\ awaits \in [Requests -> 0 .. MaxCalls]
  /\ answers \in [Requests -> Seq({"result", "error"})]
  /\ inbox \in Seq(Messages)
  /\ sent \subseteq Requests /\ revoked \subseteq Requests /\ replied \subseteq Calls
  /\ exit \in BOOLEAN

(* Whatever a suspended handler awaits of the client is still in the table,*)
(* pending, so that the response finds it.                                 *)
CallersAreKnown ==
  \A r \in Requests :
    awaits[r] # 0 => /\ handler[r] = "suspended"
                     /\ awaits[r] \in sended /\ future[awaits[r]] = "pending"

(* The server keeps what RequestLifecycle promises: one answer, none left  *)
(* out but for cancelled requests, and no stop before shutdown is answered.*)
Status(r) ==
  CASE r \notin sent                                                  -> "unsent"
    [] r \in sent /\ answers[r] = <<>> /\ handler[r] # "closed"       -> "open"
    [] r \in sent /\ answers[r] = <<>> /\ handler[r] = "closed"       -> "dropped"
    [] r \in sent /\ Len(answers[r]) = 1                              -> "answered"
    [] OTHER                                                          -> "answered again"

Lifecycle == INSTANCE RequestLifecycle WITH
  status <- [r \in Requests |-> Status(r)],
  revoked <- revoked \cup (IF Shutdown \in sent THEN Requests \ {Shutdown} ELSE {}),
  up <- loop # "stopped"

KeepsLifecycle == Lifecycle!Spec

(* If the client never answers with an error, every request is closed      *)
(* unless the server stops.                                                *)
RequestsAreClosed ==
  \A r \in Requests : r \in sent ~> (handler[r] = "closed" \/ loop = "stopped")
=============================================================================
