---------------------------- MODULE Diagnostics ----------------------------
(***************************************************************************)
(* One text document of the client and its diagnostics: the handlers of    *)
(* didOpen, didChange, didSave and didClose                                *)
(* (language_server/common/parts/documents.py) and the publishing of what  *)
(* the collectors find (language_server/common/parts/diagnostics.py).      *)
(*                                                                         *)
(* Handlers of notifications start in the order the client sends them, so  *)
(* a notification and the first part of its handler are one action.  Then  *)
(* the handler calls the listeners of its event one after the other: the   *)
(* one that publishes diagnostics comes before or after one of the         *)
(* imports manager, which may wait long for its lock, so it is called at   *)
(* any later time.  _task_lock is never held across an await.              *)
(***************************************************************************)
EXTENDS Integers, FiniteSets

CONSTANTS
  Collectors,           (* the listeners of DiagnosticsProtocolPart.collect *)
  Unreliable,           (* those that may raise an exception                *)
  Entries,              (* the PublishDiagnosticsEntry objects, used again  *)
  ReopenWhileClosing,   (* may the client open the document again before    *)
                        (* the handler of didClose is done?                 *)
  MaxText,              (* bound: changes of the text                       *)
  MaxOpen,              (* bound: how often the document is opened          *)
  MaxRestart            (* bound: saves and changes of imported files       *)

ASSUME DiagnosticsAssumption ==
  /\ Unreliable \subseteq Collectors
  /\ ReopenWhileClosing \in BOOLEAN
  /\ MaxText \in Nat /\ MaxOpen \in Nat /\ MaxRestart \in Nat

Docs == 1 .. MaxOpen          (* the TextDocument objects                   *)
Closings == 1 .. MaxOpen      (* the didClose notifications                 *)
Texts == 0 .. MaxText
NoDiagnostics == [c \in Collectors |-> -1]

VARIABLES
  (* the client *)
  open,        (* is the document open?                                    *)
  opened,      (* how often it was opened                                  *)
  text,        (* which text it has: the number of changes                 *)
  restarts,    (* saves and changes of imported files                      *)
  shut,        (* has it sent shutdown?                                    *)
  shown,       (* the diagnostics shown: the text each collector saw, -1   *)
               (* for none                                                 *)
  (* TextDocumentProtocolPart *)
  document,    (* the entry of _documents for the uri, 0 for none          *)
  text_of,     (* the text of every TextDocument                           *)
  references,  (* those referenced by the part                             *)
  to_start,    (* handlers that have still to start the diagnostics        *)
  closing,     (* the handlers of didClose: where they are                 *)
  closes,      (* and the document they close                              *)
  (* DiagnosticsProtocolPart *)
  running,     (* _running_diagnostics: the entry of the document, if any  *)
  stored,      (* the diagnostics kept in the data of every document       *)
  has_data,    (* the documents that have such data                        *)
  (* PublishDiagnosticsEntry *)
  timer,       (* the entries whose _timer_handle is armed                 *)
  task,        (* _task                                                    *)
  cancelling,  (* the entries for which the task cancel() is queued        *)
  (* publish_diagnostics *)
  doc,         (* document                                                 *)
  since,       (* the text the document had when collecting began          *)
  todo,        (* the collectors that have not answered                    *)
  failed,      (* those that raised an exception                           *)
  diagnostics  (* diagnostics                                              *)

client == <<open, opened, text, restarts, shut>>
documents == <<document, text_of, references>>
handlers == <<to_start, closing, closes>>
publishing == <<doc, since, todo, failed, diagnostics>>
entries == <<timer, task, cancelling>>
data == <<stored, has_data>>
vars == <<client, shown, documents, handlers, running, data, entries, publishing>>

Init ==
  /\ open = FALSE /\ opened = 0 /\ text = 0 /\ restarts = 0 /\ shut = FALSE
  /\ shown = NoDiagnostics
  /\ document = 0 /\ text_of = [d \in Docs |-> 0] /\ references = {}
  /\ to_start = 0
  /\ closing = [i \in Closings |-> "none"] /\ closes = [i \in Closings |-> 0]
  /\ running = {}
  /\ stored = [d \in Docs |-> NoDiagnostics] /\ has_data = {}
  /\ timer = {} /\ task = [e \in Entries |-> "none"] /\ cancelling = {}
  /\ doc = [e \in Entries |-> 0] /\ since = [e \in Entries |-> 0]
  /\ todo = [e \in Entries |-> {}] /\ failed = [e \in Entries |-> {}]
  /\ diagnostics = [e \in Entries |-> NoDiagnostics]

-----------------------------------------------------------------------------
(* The notifications of the client                                         *)

(* The document is looked up or created, and referenced by the part.       *)
did_open ==
  /\ ~shut /\ ~open /\ opened < MaxOpen
  /\ ReopenWhileClosing \/ \A i \in Closings : closing[i] = "none"
  /\ open' = TRUE /\ opened' = opened + 1
  /\ \E t \in text .. MaxText, d \in Docs :
       /\ IF document = 0 THEN d = opened' ELSE d = document
       /\ text' = t
       /\ document' = d
       /\ text_of' = [text_of EXCEPT ![d] = t]
       /\ references' = references \cup {d}
  /\ to_start' = to_start + 1
  /\ UNCHANGED <<restarts, shut, shown, closing, closes, running, data, entries, publishing>>

(* "Document ... is not opened.": without a document nothing happens.      *)
did_change ==
  /\ ~shut /\ open /\ text < MaxText
  /\ text' = text + 1
  /\ IF document = 0
     THEN UNCHANGED <<text_of, to_start>>
     ELSE /\ text_of' = [text_of EXCEPT ![document] = text']
          /\ to_start' = to_start + 1
  /\ UNCHANGED <<open, opened, restarts, shut, shown, document, references, closing, closes,
                 running, data, entries, publishing>>

(* A save starts the diagnostics, and so does namespace_invalidated, also  *)
(* of a closed document, when what the document imports has changed.       *)
restart ==
  /\ ~shut /\ restarts < MaxRestart
  /\ restarts' = restarts + 1
  /\ to_start' = to_start + 1
  /\ UNCHANGED <<open, opened, text, shut, shown, documents, closing, closes, running, data,
                 entries, publishing>>

did_close ==
  /\ ~shut /\ open
  /\ open' = FALSE
  /\ IF document = 0
     THEN UNCHANGED <<references, closing, closes>>
     ELSE /\ references' = references \ {document}
          /\ closing' = [closing EXCEPT ![opened] = "listeners"]
          /\ closes' = [closes EXCEPT ![opened] = document]
  /\ UNCHANGED <<opened, text, restarts, shut, shown, document, text_of, to_start, running, data,
                 entries, publishing>>

-----------------------------------------------------------------------------
(* PublishDiagnosticsEntry                                                 *)

(* cancel for the entries old, the constructor for the entries new.  The   *)
(* timer is stopped at once, a task by another one that is queued.         *)
(* Mutant: only the timer is stopped.                                      *)
CancelTimer(old, new) ==
  /\ timer' = (timer \ old) \cup new
  /\ UNCHANGED cancelling
CancelAndArm(old, new) ==
  /\ timer' = (timer \ old) \cup new
  /\ cancelling' = cancelling \cup {e \in old : task[e] # "none"}

(* DIAGNOSTICS_DEBOUNCE is over.  The task that cancels an older entry was *)
(* queued when this timer was set, so it has run.                          *)
create_task(e) ==
  /\ e \in timer /\ cancelling = {}
  /\ timer' = timer \ {e}
  /\ task' = [task EXCEPT ![e] = "created"]
  /\ UNCHANGED <<client, shown, documents, handlers, running, data, cancelling, publishing>>

(* A task that ends, and its local variables with it.                      *)
End(e) ==
  /\ task' = [task EXCEPT ![e] = "none"]
  /\ doc' = [doc EXCEPT ![e] = 0]
  /\ since' = [since EXCEPT ![e] = 0]
  /\ todo' = [todo EXCEPT ![e] = {}]
  /\ failed' = [failed EXCEPT ![e] = {}]
  /\ diagnostics' = [diagnostics EXCEPT ![e] = NoDiagnostics]

cancel(e) ==
  /\ e \in cancelling
  /\ cancelling' = cancelling \ {e}
  /\ End(e)
  /\ UNCHANGED <<client, shown, documents, handlers, running, data, timer>>

-----------------------------------------------------------------------------
(* DiagnosticsProtocolPart                                                 *)

Unused == {e \in Entries : task[e] = "none"} \ (timer \cup cancelling)

(* The entry of the document is cancelled, a new one takes its place.      *)
start_publish_diagnostics_task ==
  /\ to_start > 0
  /\ to_start' = to_start - 1
  /\ \E e \in Unused :
       /\ running' = {e}
       /\ CancelAndArm(running, {e})
  /\ UNCHANGED <<client, shown, documents, closing, closes, data, task, publishing>>

on_did_close(i) ==
  /\ closing[i] = "listeners"
  /\ closing' = [closing EXCEPT ![i] = "close_document"]
  /\ running' = {}
  /\ CancelAndArm(running, {})
  /\ UNCHANGED <<client, shown, documents, to_start, closes, data, task, publishing>>

(* on_shutdown                                                             *)
cancel_all_tasks ==
  /\ ~shut
  /\ shut' = TRUE
  /\ running' = {}
  /\ CancelAndArm(running, {})
  /\ UNCHANGED <<open, opened, text, restarts, shown, documents, handlers, data, task, publishing>>

(* close_document: without a reference the document is cleared, and what   *)
(* _documents has for its uri is removed.                                  *)
(* Mutant: references are not looked at.                                   *)
Close(d) ==
  /\ document' = 0
  /\ stored' = [stored EXCEPT ![d] = NoDiagnostics]
  /\ has_data' = has_data \ {d}
CloseUnreferenced(d) ==
  IF d \in references
  THEN UNCHANGED <<document, data>>
  ELSE Close(d)

close_document(i) ==
  /\ closing[i] = "close_document"
  /\ closing' = [closing EXCEPT ![i] = "none"]
  /\ closes' = [closes EXCEPT ![i] = 0]
  /\ CloseUnreferenced(closes[i])
  /\ UNCHANGED <<client, shown, text_of, references, to_start, running, entries, publishing>>

-----------------------------------------------------------------------------
(* publish_diagnostics                                                     *)

(* The collectors start; without a document there is nothing to do.        *)
publish_diagnostics(e) ==
  /\ task[e] = "created"
  /\ IF document = 0
     THEN End(e)
     ELSE /\ task' = [task EXCEPT ![e] = "collecting"]
          /\ doc' = [doc EXCEPT ![e] = document]
          /\ since' = [since EXCEPT ![e] = text_of[document]]
          /\ todo' = [todo EXCEPT ![e] = Collectors]
          /\ failed' = [failed EXCEPT ![e] = {}]
          /\ diagnostics' = [diagnostics EXCEPT ![e] = stored[document]]
  /\ UNCHANGED <<client, shown, documents, handlers, running, data, timer, cancelling>>

(* A collector answers with something made from a text the document had    *)
(* meanwhile (DocumentCache!ResultsAreFresh).  The diagnostics of all      *)
(* collectors are sent.  If the document has data, it is what is changed.  *)
collect(e, c) ==
  /\ task[e] = "collecting" /\ c \in todo[e]
  /\ todo' = [todo EXCEPT ![e] = @ \ {c}]
  /\ \E t \in since[e] .. text_of[doc[e]] :
       diagnostics' = [diagnostics EXCEPT ![e][c] = t]
  /\ shown' = diagnostics'[e]
  /\ stored' = IF doc[e] \in has_data THEN [stored EXCEPT ![doc[e]] = diagnostics'[e]] ELSE stored
  /\ UNCHANGED <<client, documents, handlers, running, has_data, entries, doc, since, failed>>

(* It raises an exception.  Mutant: so does publish_diagnostics.           *)
collect_raises(e, c) ==
  /\ task[e] = "collecting" /\ c \in todo[e] \cap Unreliable
  /\ End(e)
  /\ UNCHANGED <<client, shown, documents, handlers, running, data, timer, cancelling>>
collect_fails(e, c) ==
  /\ task[e] = "collecting" /\ c \in todo[e] \cap Unreliable
  /\ todo' = [todo EXCEPT ![e] = @ \ {c}]
  /\ failed' = [failed EXCEPT ![e] = @ \cup {c}]
  /\ UNCHANGED <<client, shown, documents, handlers, running, data, entries, doc, since, diagnostics>>

(* What a collector that failed had found before is forgotten, not unsent. *)
Kept(e) == [c \in Collectors |-> IF c \in failed[e] THEN -1 ELSE diagnostics[e][c]]

set_data(e) ==
  /\ task[e] = "collecting" /\ todo[e] = {}
  /\ End(e)
  /\ stored' = [stored EXCEPT ![doc[e]] = Kept(e)]
  /\ has_data' = has_data \cup {doc[e]}
  /\ UNCHANGED <<client, shown, documents, handlers, running, timer, cancelling>>

-----------------------------------------------------------------------------
Publish(e) ==
  \/ create_task(e) \/ publish_diagnostics(e) \/ set_data(e)
  \/ \E c \in Collectors : collect(e, c) \/ collect_fails(e, c)

Closes(i) == on_did_close(i) \/ close_document(i)

Next ==
  \/ did_open \/ did_change \/ restart \/ did_close
  \/ start_publish_diagnostics_task \/ cancel_all_tasks
  \/ \E i \in Closings : Closes(i)
  \/ \E e \in Entries : Publish(e) \/ cancel(e)

Spec == Init /\ [][Next]_vars

(* Tasks and timers run, listeners are called, collectors answer or fail.  *)
FairSpec ==
  /\ Spec
  /\ WF_vars(start_publish_diagnostics_task)
  /\ \A i \in Closings : WF_vars(Closes(i))
  /\ \A e \in Entries : WF_vars(Publish(e)) /\ WF_vars(cancel(e))

-----------------------------------------------------------------------------
(* Properties                                                              *)

(* The types of the variables.                                             *)
TypeOK ==
  /\ open \in BOOLEAN /\ opened \in 0 .. MaxOpen /\ text \in Texts
  /\ restarts \in 0 .. MaxRestart /\ shut \in BOOLEAN
  /\ shown \in [Collectors -> Texts \cup {-1}]
  /\ document \in 0 .. MaxOpen /\ text_of \in [Docs -> Texts] /\ references \subseteq Docs
  /\ to_start \in Nat
  /\ closing \in [Closings -> {"none", "listeners", "close_document"}]
  /\ closes \in [Closings -> 0 .. MaxOpen]
  /\ running \subseteq Entries /\ timer \subseteq Entries /\ cancelling \subseteq Entries
  /\ stored \in [Docs -> [Collectors -> Texts \cup {-1}]] /\ has_data \subseteq Docs
  /\ task \in [Entries -> {"none", "created", "collecting"}]
  /\ doc \in [Entries -> 0 .. MaxOpen] /\ since \in [Entries -> Texts]
  /\ todo \in [Entries -> SUBSET Collectors] /\ failed \in [Entries -> SUBSET Collectors]
  /\ diagnostics \in [Entries -> [Collectors -> Texts \cup {-1}]]

(* Nothing is published behind the back of _running_diagnostics: an entry  *)
(* that waits or works is the one of the document, or about to be          *)
(* cancelled.                                                              *)
NoOrphans ==
  /\ timer \subseteq running
  /\ \A e \in Entries : task[e] # "none" => e \in running \cup cancelling

(* Two tasks never publish at once: they would write to one dictionary.    *)
OnePublishes == \A e, f \in Entries : task[e] # "none" /\ task[f] # "none" => e = f

(* The document the client has open is in the table, referenced, and has   *)
(* the text of the client.                                                 *)
OpenIsKept == open => document \in references /\ text_of[document] = text

(* A change is refused, with the message that the document is not opened,  *)
(* only if the client does not have it open.                               *)
RefusedIsNotOpen == document = 0 => ~open

(* What a collector found in a text is never replaced by what it found in  *)
(* an older one, whatever was cancelled, closed and opened meanwhile.      *)
NeverOlder == [][\A c \in Collectors : shown'[c] = -1 \/ shown'[c] >= shown[c]]_shown

(* When the client stops editing and leaves the document open, what it is  *)
(* shown in the end is what the collectors, others failing or not, find in *)
(* the text it has.                                                        *)
Settled == open => \A c \in Collectors \ Unreliable : shown[c] = text
Settles == <>[](shut \/ Settled)
=============================================================================
