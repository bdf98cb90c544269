-------------------------- MODULE LanguageClients --------------------------
(***************************************************************************)
(* LanguageClientsManager keeps one language client, and with it one       *)
(* server process, per workspace folder.  Whoever needs the server of a    *)
(* folder gets its client, or starts one; refresh stops all clients, for a *)
(* new Python, and starts those of the open documents again; dispose stops *)
(* them for good.  All of them take clientsMutex, and await the servers    *)
(* while they hold it.                                                     *)
(***************************************************************************)
EXTENDS Naturals, Sequences, SequencesExt

CONSTANTS Callers,         \* event handlers, and the extension being disposed
          ClientFolders,
          MaxClients       \* bound: the clients made

ASSUME ClientsAssumption == MaxClients \in Nat

Clients == 1 .. MaxClients
NoClient == 0

VARIABLES
  clients,       \* clients: folder |-> its client
  server,        \* per client: its server process
  made,          \* the last client made
  clientsMutex,  \* the callers that dispatched, the first one holds it
  call,          \* per caller: what it is doing
  folder,        \* per caller: the folder whose client it wants
  toStop,        \* the clients the holder has still to stop
  toReopen,      \* per caller of refresh: the open documents' folders left
  subscribed,    \* _disposables: are the manager's events still handled?
  unstopped,     \* history: servers left running by a stop that failed
  stale          \* history: stopAllClients failed before it could clear

callers == <<call, folder, toReopen>>
lcVars == <<clients, server, made, clientsMutex, callers, toStop, subscribed,
            unstopped, stale>>

lcInit ==
  /\ clients = [f \in ClientFolders |-> NoClient]
  /\ server = [c \in Clients |-> "none"]
  /\ made = 0
  /\ clientsMutex = <<>>
  /\ call = [p \in Callers |-> "none"]
  /\ folder \in [Callers -> ClientFolders]
  /\ toStop = {}
  /\ toReopen = [p \in Callers |-> {}]
  /\ subscribed = TRUE
  /\ unstopped = {}
  /\ stale = FALSE

Holds(p) == clientsMutex # <<>> /\ Head(clientsMutex) = p
Known == {clients[f] : f \in ClientFolders} \ {NoClient}

-----------------------------------------------------------------------------
(* A document is opened, or tests are asked for; the Python environment,   *)
(* the configuration or the folders change; the extension is disposed.     *)
Calls(p, what) ==
  /\ call[p] = "none"
  /\ subscribed \/ what = "dispose"
  /\ call' = [call EXCEPT ![p] = what]
  /\ clientsMutex' = Append(clientsMutex, p)
  /\ UNCHANGED <<clients, server, made, folder, toStop, toReopen, subscribed,
                 unstopped, stale>>

(* dispatch: the mutex is released however the function ends.  A refresh   *)
(* goes on with the next open document.                                    *)
Returns(p) ==
  /\ clientsMutex' = Tail(clientsMutex)
  /\ call' = [call EXCEPT ![p] = IF toReopen[p] # {} THEN "reopen" ELSE "done"]
  /\ UNCHANGED <<folder, toReopen>>

-----------------------------------------------------------------------------
(* getLanguageClientForResource *)

FindsClient(p) ==
  /\ Holds(p)
  /\ call[p] = "get"
  /\ clients[folder[p]] # NoClient
  /\ Returns(p)
  /\ UNCHANGED <<clients, server, made, toStop, subscribed, unstopped, stale>>

(* There is no Python to start the server with. *)
NoPython(p) ==
  /\ Holds(p)
  /\ call[p] = "get"
  /\ clients[folder[p]] = NoClient
  /\ Returns(p)
  /\ UNCHANGED <<clients, server, made, toStop, subscribed, unstopped, stale>>

(* Mutant: the mutex is not held. *)
StartsUnlocked(p) ==
  /\ call[p] = "get"
  /\ clients[folder[p]] = NoClient
  /\ made < MaxClients
  /\ made' = made + 1
  /\ server' = [server EXCEPT ![made + 1] = "up"]
  /\ call' = [call EXCEPT ![p] = "start"]
  /\ UNCHANGED <<clients, clientsMutex, folder, toStop, toReopen, subscribed,
                 unstopped, stale>>

StartsClient(p) ==
  /\ Holds(p)
  /\ call[p] = "get"
  /\ clients[folder[p]] = NoClient
  /\ made < MaxClients
  /\ made' = made + 1
  /\ server' = [server EXCEPT ![made + 1] = "up"]
  /\ call' = [call EXCEPT ![p] = "start"]
  /\ UNCHANGED <<clients, clientsMutex, folder, toStop, toReopen, subscribed,
                 unstopped, stale>>

(* onReady resolves, and the client is kept. *)
Ready(p) ==
  /\ Holds(p)
  /\ call[p] = "start"
  /\ clients' = [clients EXCEPT ![folder[p]] = made]
  /\ Returns(p)
  /\ UNCHANGED <<server, made, toStop, subscribed, unstopped, stale>>

(* onReady rejects: the server has failed to initialize. *)
NotReady(p) ==
  /\ Holds(p)
  /\ call[p] = "start"
  /\ server' = [server EXCEPT ![made] = "down"]
  /\ Returns(p)
  /\ UNCHANGED <<clients, made, toStop, subscribed, unstopped, stale>>

-----------------------------------------------------------------------------
(* refresh and stopAllClients *)

StopsClients(p) ==
  /\ Holds(p)
  /\ call[p] \in {"refresh", "dispose"}
  /\ call' = [call EXCEPT ![p] = IF @ = "refresh" THEN "stop" ELSE "stopAll"]
  /\ toStop' = Known
  /\ UNCHANGED <<clients, server, made, clientsMutex, folder, toReopen,
                 subscribed, unstopped, stale>>

(* refresh awaits one client after the other and ignores what fails;       *)
(* stopAllClients awaits all at once.  A client that was stopped before is *)
(* stopped again to no effect.                                             *)
Stopped(p) ==
  /\ Holds(p)
  /\ call[p] \in {"stop", "stopAll"}
  /\ \E c \in toStop :
       /\ toStop' = toStop \ {c}
       /\ server' = [server EXCEPT ![c] = "down"]
  /\ UNCHANGED <<clients, made, clientsMutex, callers, subscribed, unstopped, stale>>

StopFails(p) ==
  /\ Holds(p)
  /\ call[p] = "stop"
  /\ \E c \in toStop :
       /\ toStop' = toStop \ {c}
       /\ unstopped' = unstopped \cup {c}
  /\ UNCHANGED <<clients, server, made, clientsMutex, callers, subscribed, stale>>

(* Promise.all rejects with the first stop that does: the clients are not  *)
(* cleared and the events stay subscribed, while the others are stopped.   *)
StopAllFails(p) ==
  /\ Holds(p)
  /\ call[p] = "stopAll"
  /\ \E c \in toStop :
       /\ unstopped' = unstopped \cup {c}
       /\ server' = [d \in Clients |-> IF d \in toStop \ {c} THEN "down" ELSE server[d]]
  /\ toStop' = {}
  /\ stale' = TRUE
  /\ Returns(p)
  /\ UNCHANGED <<clients, made, subscribed>>

(* The map is cleared; a refresh comes to the open documents next. *)
Cleared(p) ==
  /\ Holds(p)
  /\ call[p] = "stop"
  /\ toStop = {}
  /\ clients' = [f \in ClientFolders |-> NoClient]
  /\ stale' = FALSE
  /\ clientsMutex' = Tail(clientsMutex)
  /\ \E open \in SUBSET ClientFolders :
       /\ toReopen' = [toReopen EXCEPT ![p] = open]
       /\ call' = [call EXCEPT ![p] = IF open # {} THEN "reopen" ELSE "done"]
  /\ UNCHANGED <<server, made, folder, toStop, subscribed, unstopped>>

AllStopped(p) ==
  /\ Holds(p)
  /\ call[p] = "stopAll"
  /\ toStop = {}
  /\ clients' = [f \in ClientFolders |-> NoClient]
  /\ stale' = FALSE
  /\ subscribed' = FALSE
  /\ Returns(p)
  /\ UNCHANGED <<server, made, toStop, unstopped>>

Reopens(p) ==
  /\ call[p] = "reopen"
  /\ \E f \in toReopen[p] :
       /\ folder' = [folder EXCEPT ![p] = f]
       /\ toReopen' = [toReopen EXCEPT ![p] = @ \ {f}]
  /\ call' = [call EXCEPT ![p] = "get"]
  /\ clientsMutex' = Append(clientsMutex, p)
  /\ UNCHANGED <<clients, server, made, toStop, subscribed, unstopped, stale>>

-----------------------------------------------------------------------------
lcNext == \E p \in Callers :
  \/ \E what \in {"get", "refresh", "dispose"} : Calls(p, what)
  \/ FindsClient(p) \/ NoPython(p) \/ StartsClient(p) \/ Ready(p) \/ NotReady(p)
  \/ StopsClients(p) \/ Stopped(p) \/ StopFails(p) \/ StopAllFails(p)
  \/ Cleared(p) \/ AllStopped(p) \/ Reopens(p)

lcSpec == lcInit /\ [][lcNext]_lcVars

(* While nobody holds the mutex, the servers that run are those of the     *)
(* clients in the map, one per folder: none is forgotten, and no client of *)
(* a stopped server is handed out.  It takes a stop that fails to leave a  *)
(* server behind, and one that fails in stopAllClients to keep its clients.*)
ServersAreKnown ==
  clientsMutex = <<>> =>
    LET up == {c \in Clients : server[c] = "up"}
    IN  /\ up \ unstopped \subseteq Known
        /\ Known \subseteq up \/ stale
        /\ \A f, g \in ClientFolders : clients[f] = clients[g] => f = g \/ clients[f] = NoClient
=============================================================================
