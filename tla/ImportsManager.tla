--------------------------- MODULE ImportsManager ---------------------------
(***************************************************************************)
(* The table of libraries or of resources of an ImportsManager, for one    *)
(* imported file: its entry, the locks of the table and of the entry, the  *)
(* namespaces that import it, the document of a resource, the handlers of  *)
(* changes, and the finalizers of imports that are gone.                   *)
(*                                                                         *)
(* Everything runs on one asyncio loop: an action is what a task does      *)
(* between two awaits that may suspend it.  Locks are not variables, who   *)
(* holds one follows from where the tasks are.  Who waits for a lock gets  *)
(* it in any order, but for one thing: only imports wait for the lock of   *)
(* an entry without that of the table, so one that waits was there before  *)
(* every other task that wants the lock, and asyncio's locks are first in, *)
(* first out.                                                              *)
(*                                                                         *)
(* An import is named by the document that has it: that document's data    *)
(* keeps the object alive as long as the import is there.                  *)
(***************************************************************************)
EXTENDS Naturals, FiniteSets

CONSTANTS
    Importers,      \* documents that may import the file
    Entries,        \* objects for entries of the table
    MaxVersions,    \* bound: texts the file and its document have one after the other
    MaxEvents,      \* bound: things that come from outside: changes, failures, ends of imports
    None

ASSUME ImportsAssumption ==
    /\ MaxVersions \in Nat /\ MaxEvents \in Nat
    /\ None \notin Nat /\ None \notin Entries /\ None \notin [live : BOOLEAN, at : Nat \union {None}]

VARIABLES
    kind,           \* what is imported: a library or a resource
    defaults,       \* who imports it as a default library, without a sentinel
    source,         \* version of the file on disk
    latest,         \* last version there is
    \* the document of a resource, in the table of documents
    text,           \* version of its text, None if there is no document
    opened,         \* the editor is one of its references
    versioned,      \* its version is not None
    drefs,          \* imports among its references
    finals,         \* for each import, which documents its end closes: the current, old ones
    \* the imports manager
    table,          \* the entry in the table, or None
    entry,          \* the entries
    registered,     \* entries whose watch the client knows
    listening,      \* the manager's callback is among those of changed files
    \* the namespaces of the importers
    pc, round, mine, seen,
    \* tasks
    events,         \* handlers of changes
    removals,       \* coroutines of finalizers that remove an entry
    closings,       \* coroutines of finalizers that close a document
    notices,        \* calls of Namespace.libraries_changed, resources_changed
    \* history
    count,          \* of them so far
    missed,         \* importers that were told of a change before they were initialised
    unheard         \* last version of the file that nobody listened for

what == <<kind, defaults>>
files == <<source, latest, text, opened, versioned, drefs, finals>>
manager == <<table, entry, registered, listening>>
importers == <<pc, round, mine, seen>>
tasks == <<events, removals, closings, notices>>
vars == <<what, files, manager, importers, tasks, count, missed, unheard>>

\* A document an entry refers to: the one in the table of documents, or one
\* that was dropped from it and keeps its last text.
Shared == [live |-> TRUE, at |-> 0]
NewEntry == [doc |-> None, refs |-> {}, pinned |-> FALSE, watched |-> FALSE]

Text(d) == IF d.live THEN text ELSE d.at

Init ==
    /\ kind \in {"library", "resource"}
    /\ defaults \in IF kind = "library" THEN SUBSET Importers ELSE {{}}
    /\ source = 0 /\ latest = 0 /\ text = None
    /\ opened = FALSE /\ versioned = FALSE /\ drefs = {}
    /\ finals = [i \in Importers |-> {}]
    /\ table = None /\ entry = [e \in Entries |-> NewEntry]
    /\ registered = {} /\ listening = FALSE
    /\ pc = [i \in Importers |-> "idle"] /\ round = [i \in Importers |-> 1]
    /\ mine = [i \in Importers |-> None] /\ seen = [i \in Importers |-> None]
    /\ events = {} /\ removals = {} /\ closings = {} /\ notices = {}
    /\ count = 0 /\ missed = {} /\ unheard = 0

Outside == count < MaxEvents /\ count' = count + 1

-----------------------------------------------------------------------------
(* Locks *)

\* A library is loaded under the lock of the table, a resource is not.
TableLocked ==
    \/ kind = "library" /\ \E i \in Importers : pc[i] \in {"entered", "loading", "loaded", "watching"}
    \/ \E h \in events : h.pc # "posted"
    \/ \E r \in removals : r.pc \in {"invalidate", "unwatch"}

EntryLocked(e) ==
    \/ \E i \in Importers : mine[i] = e /\ pc[i] \in {"loading", "loaded", "watching"}
    \/ \E h \in events : h.entry = e /\ h.pc = "unwatch"
    \/ \E r \in removals : r.entry = e /\ r.pc = "unwatch"

\* The lock is not to be had at once: it is taken, or an import waits for it.
EntryBusy(e) == EntryLocked(e) \/ \E i \in Importers : mine[i] = e /\ pc[i] = "entered"

-----------------------------------------------------------------------------
(* A namespace imports the file *)

\* Namespace.ensure_initialized comes to the import: find_library or
\* find_file in the process pool.
find_file(i) ==
    /\ pc[i] = "idle"
    /\ pc' = [pc EXCEPT ![i] = "found"]
    /\ round' = [round EXCEPT ![i] = 1]
    /\ seen' = [seen EXCEPT ![i] = None]
    /\ missed' = missed \ {i}
    /\ UNCHANGED <<what, files, manager, mine, tasks, count, unheard>>

\* An entry object that nobody knows any more: the finalizers of its
\* references hold it, and so do the tasks that work with it.
Unused(e) ==
    /\ table # e /\ entry[e].refs = {}
    /\ \A i \in Importers : mine[i] # e
    /\ \A t \in events \union removals : t.entry # e

\* weakref.finalize(r, close_document): the end of an import closes the document.
Finalize(refs) ==
    [i \in Importers |-> IF i \in refs THEN finals[i] \union {"current"} ELSE finals[i]]

\* _LibrariesEntry.get_libdoc, under the locks of the table and of the entry.
get_libdoc(i, e, ent) ==
    /\ entry' = ent
    /\ IF ent[e].doc = None
       THEN pc' = [pc EXCEPT ![i] = "loading"] /\ UNCHANGED seen
       ELSE /\ pc' = [pc EXCEPT ![i] = "holding"]
            /\ seen' = [seen EXCEPT ![i] = ent[e].doc.at]
    /\ UNCHANGED <<text, drefs, finals, registered, listening>>

\* _ResourcesEntry.get_document with _update and _get_document, no await
\* inside: a document that is there is taken, else the file is read.  Only
\* those who refer to the entry by now become references of the document.
get_document(i, e, ent) ==
    LET load == ent[e].doc = None
        at == IF load THEN IF text = None THEN source ELSE text ELSE Text(ent[e].doc)
        watch == load /\ (text = None \/ ~versioned)
    IN
    /\ IF load
       THEN /\ text' = at
            /\ drefs' = drefs \union ent[e].refs
            /\ finals' = Finalize(ent[e].refs)
            /\ entry' = [ent EXCEPT ![e].doc = Shared]
       ELSE entry' = ent /\ UNCHANGED <<text, drefs, finals>>
    /\ IF watch
       THEN registered' = registered \union {e} /\ listening' = TRUE
       ELSE UNCHANGED <<registered, listening>>
    /\ seen' = [seen EXCEPT ![i] = IF round[i] = 1 THEN at ELSE @]
    /\ pc' = [pc EXCEPT ![i] = IF watch THEN "watching" ELSE "computing"]

\* The entry for a key, its references, and what it has unless it is locked.
\* The entry made for a default library takes no references, ever.  (A resource
\* is asked for twice; if it gets another entry then, it has lost the first.)
get_entry(i, e) ==
    LET pinned == IF table = None THEN i \in defaults ELSE entry[e].pinned
        ent == [entry EXCEPT ![e].pinned = pinned,
                             ![e].refs = IF pinned \/ i \in defaults THEN @ ELSE @ \union {i}]
    IN
    /\ pc[i] = "found" /\ ~TableLocked
    /\ IF table = None THEN Unused(e) /\ entry[e] = NewEntry ELSE e = table
    /\ table' = e
    /\ mine' = [mine EXCEPT ![i] = e]
    /\ missed' = IF round[i] = 2 /\ mine[i] # e THEN missed \union {i} ELSE missed
    /\ IF kind = "library" THEN get_libdoc(i, e, ent)
       ELSE IF ~EntryBusy(e) THEN get_document(i, e, ent)
       ELSE /\ entry' = ent
            /\ pc' = [pc EXCEPT ![i] = "entered"]
            /\ UNCHANGED <<text, drefs, finals, registered, listening, seen>>
    /\ UNCHANGED <<what, source, latest, opened, versioned, round, tasks, count, unheard>>

\* The lock of the entry is free for who waited for it.
get_locked_document(i) ==
    /\ pc[i] = "entered" /\ ~EntryLocked(mine[i])
    /\ get_document(i, mine[i], entry)
    /\ UNCHANGED <<what, source, latest, opened, versioned, table, round, mine, tasks, count, missed, unheard>>

\* The process of the pool has read the library.
load_library(i) ==
    /\ pc[i] = "loading"
    /\ pc' = [pc EXCEPT ![i] = "loaded"]
    /\ seen' = [seen EXCEPT ![i] = source]
    /\ UNCHANGED <<what, files, manager, round, mine, tasks, count, missed, unheard>>

\* _LibrariesEntry._update: keep the result, then have its files watched.
update_library(i) ==
    LET e == mine[i] IN
    /\ pc[i] = "loaded"
    /\ entry' = [entry EXCEPT ![e].doc = [live |-> FALSE, at |-> seen[i]]]
    /\ registered' = registered \union {e}
    /\ listening' = TRUE
    /\ pc' = [pc EXCEPT ![i] = "watching"]
    /\ UNCHANGED <<what, files, table, round, mine, seen, tasks, count, missed, unheard>>

\* asyncio.wait_for gives up, or the process fails: the import is an error of
\* the namespace.
load_fails(i) ==
    /\ pc[i] = "loading"
    /\ pc' = [pc EXCEPT ![i] = "ready"]
    /\ Outside
    /\ UNCHANGED <<what, files, manager, round, mine, seen, tasks, missed, unheard>>

\* The client has answered the registration of the watch.
add_file_watchers(i) ==
    /\ pc[i] = "watching"
    /\ entry' = [entry EXCEPT ![mine[i]].watched = TRUE]
    /\ pc' = [pc EXCEPT ![i] = IF kind = "library" THEN "holding" ELSE "computing"]
    /\ UNCHANGED <<what, files, table, registered, listening, round, mine, seen, tasks, count, missed, unheard>>

\* A resource is asked for twice: get_namespace_for_resource_import, then
\* get_libdoc_for_resource_import.
get_resource_entry(i) ==
    /\ pc[i] = "computing"
    /\ pc' = [pc EXCEPT ![i] = IF round[i] = 1 THEN "found" ELSE "holding"]
    /\ round' = [round EXCEPT ![i] = 2]
    /\ UNCHANGED <<what, files, manager, mine, seen, tasks, count, missed, unheard>>

\* The other imports are there as well: the namespace knows its imports.
initialized(i) ==
    /\ pc[i] = "holding"
    /\ pc' = [pc EXCEPT ![i] = "ready"]
    /\ UNCHANGED <<what, files, manager, round, mine, seen, tasks, count, missed, unheard>>

\* The request that initialises the namespace is cancelled at an await.
cancel(i) ==
    /\ pc[i] \notin {"idle", "ready"}
    /\ pc' = [pc EXCEPT ![i] = "idle"]
    /\ mine' = [mine EXCEPT ![i] = None]
    /\ Outside
    /\ UNCHANGED <<what, files, manager, round, seen, tasks, missed, unheard>>

-----------------------------------------------------------------------------
(* Changes *)

NewVersion == latest < MaxVersions /\ latest' = latest + 1
Happens(type) ==
    /\ Outside
    /\ events' = events \union {[id |-> count, type |-> type, entry |-> None, pc |-> "posted"]}

\* The file changes on disk; the client tells if it is watched.
change_file ==
    /\ NewVersion /\ source' = latest + 1
    /\ IF listening /\ registered # {}
       THEN Happens("file")
       ELSE Outside /\ UNCHANGED events
    /\ unheard' = IF opened \/ (kind = "library" /\ listening /\ registered # {}) THEN unheard ELSE latest + 1
    /\ UNCHANGED <<what, text, opened, versioned, drefs, finals, manager, importers, removals, closings, notices, missed>>

\* The watch of another entry of the manager is added or removed: the
\* callback is the same for all.
other_watch ==
    /\ listening' = ~listening
    /\ Outside
    /\ UNCHANGED <<what, files, table, entry, registered, importers, tasks, missed, unheard>>

\* didOpen, with the text of the file; didChange; didSave; didClose up to its
\* listeners.
did_open ==
    /\ kind = "resource" /\ ~opened
    /\ text' = source /\ opened' = TRUE /\ versioned' = TRUE
    /\ Happens("document")
    /\ UNCHANGED <<what, source, latest, drefs, finals, manager, importers, removals, closings, notices, missed, unheard>>

did_change ==
    /\ opened /\ text # None
    /\ NewVersion /\ text' = latest + 1 /\ versioned' = TRUE
    /\ Happens("document")
    /\ UNCHANGED <<what, source, opened, drefs, finals, manager, importers, removals, closings, notices, missed, unheard>>

did_save ==
    /\ opened /\ text # None
    /\ source' = text
    /\ Happens("document")
    /\ UNCHANGED <<what, latest, text, opened, versioned, drefs, finals, manager, importers, removals, closings, notices, missed, unheard>>

did_close ==
    /\ opened /\ opened' = FALSE
    /\ IF text # None THEN Happens("close") ELSE Outside /\ UNCHANGED events
    /\ UNCHANGED <<what, source, latest, text, versioned, drefs, finals, manager, importers, removals, closings, notices, missed, unheard>>

\* One handler of an event: its id tells it from the others.
Others(h) == {g \in events : g.id # h.id}
Become(h, s) == events' = Others(h) \union {[h EXCEPT !.pc = s]}

\* The handler is over: a closed document is closed next.
Finish(h) ==
    /\ events' = Others(h)
    /\ closings' = closings \union (IF h.type = "close" THEN {<<None, "current">>} ELSE {})

\* libraries_changed and resources_changed call every namespace there is.
Notify(p) == notices' = notices \union {<<i, p>> : i \in {j \in Importers : pc[j] # "idle"}}

\* _ResourcesEntry.check_file_changed looks only at documents with a version.
IgnoresFile(e) ==
    kind = "resource" /\ (entry[e].doc = None \/ ~entry[e].doc.live \/ ~versioned)

Cleared(e) == [entry EXCEPT ![e].doc = None, ![e].watched = FALSE]

\* Mutant: the entry is emptied and nobody is told.
InvalidatedSilently(h) ==
    IF h.type = "file" /\ kind = "resource"
    THEN Become(h, "reload") /\ UNCHANGED <<notices, closings>>
    ELSE Finish(h) /\ UNCHANGED notices

\* The end of _invalidate, and the call of libraries_changed or
\* resources_changed; after a changed file the resource is loaded again first.
Invalidated(h) ==
    IF h.type = "file" /\ kind = "resource"
    THEN Become(h, "reload") /\ UNCHANGED <<notices, closings>>
    ELSE Finish(h) /\ Notify(IF kind = "library" THEN entry[h.entry].doc.at ELSE None)

\* invalidate, check_file_changed: who has watches awaits their end.
Invalidate(h) ==
    LET e == h.entry IN
    IF h.type = "file" /\ IgnoresFile(e)
    THEN Finish(h) /\ UNCHANGED <<entry, registered, listening, notices>>
    ELSE IF entry[e].watched
    THEN /\ Become(h, "unwatch")
         /\ registered' = registered \ {e} /\ listening' = FALSE
         /\ UNCHANGED <<entry, closings, notices>>
    ELSE /\ entry' = Cleared(e)
         /\ Invalidated(h)
         /\ UNCHANGED <<registered, listening>>

\* Is the entry valid?  A library is invalidated at once, of a resource the
\* library document is computed first.
CheckValid(h) ==
    IF entry[h.entry].doc = None
    THEN Finish(h) /\ UNCHANGED <<entry, registered, listening, notices>>
    ELSE IF kind = "library"
    THEN Invalidate(h)
    ELSE Become(h, "libdoc") /\ UNCHANGED <<entry, registered, listening, closings, notices>>

\* Take the lock of the table and look for the entry.
handler_starts(h) ==
    /\ h.pc = "posted" /\ ~TableLocked
    /\ IF table = None
       THEN Finish(h) /\ UNCHANGED <<entry, registered, listening, notices>>
       ELSE LET g == [h EXCEPT !.entry = table] IN
            IF EntryBusy(table)
            THEN /\ Become(g, "check")
                 /\ UNCHANGED <<entry, registered, listening, closings, notices>>
            ELSE CheckValid(g)
    /\ UNCHANGED <<what, files, table, importers, removals, count, missed, unheard>>

handler_checks(h) ==
    /\ h.pc = "check" /\ ~EntryBusy(h.entry)
    /\ CheckValid(h)
    /\ UNCHANGED <<what, files, table, importers, removals, count, missed, unheard>>

\* The library document of the resource is there, and so is the lock.
handler_invalidates(h) ==
    /\ h.pc = "libdoc" /\ ~EntryBusy(h.entry)
    /\ Invalidate(h)
    /\ UNCHANGED <<what, files, table, importers, removals, count, missed, unheard>>

\* Mutant: the entry's lock is asked for again by who has it.
unwatched_locking(h) ==
    /\ h.pc = "unwatch" /\ ~EntryLocked(h.entry)
    /\ entry' = Cleared(h.entry)
    /\ Invalidated(h)
    /\ UNCHANGED <<what, files, table, registered, listening, importers, removals, count, missed, unheard>>


unwatched(h) ==
    /\ h.pc = "unwatch"
    /\ entry' = Cleared(h.entry)
    /\ Invalidated(h)
    /\ UNCHANGED <<what, files, table, registered, listening, importers, removals, count, missed, unheard>>

\* did_change_watched_files asks a changed resource for its library document:
\* the entry is filled again, as by get_document and add_file_watchers.
reload(h) ==
    /\ h.pc = "reload" /\ ~EntryBusy(h.entry)
    /\ text' = IF text = None THEN source ELSE text
    /\ drefs' = drefs \union entry[h.entry].refs
    /\ finals' = Finalize(entry[h.entry].refs)
    /\ LET watch == text = None \/ ~versioned
       IN  /\ entry' = [entry EXCEPT ![h.entry].doc = Shared, ![h.entry].watched = watch]
           /\ registered' = IF watch THEN registered \union {h.entry} ELSE registered
           /\ listening' = (watch \/ listening)
    /\ Finish(h) /\ Notify(None)
    /\ UNCHANGED <<what, source, latest, opened, versioned, table, importers, removals, count, missed, unheard>>

\* Namespace.libraries_changed, resources_changed: one that knows the file is
\* removed from the cache, so that the next question makes a new one.  One
\* that is still being initialised knows nothing.
imports_changed(i, p) ==
    /\ <<i, p>> \in notices
    /\ notices' = notices \ {<<i, p>>}
    /\ IF pc[i] = "ready" /\ seen[i] # None /\ (kind = "library" => seen[i] = p)
       THEN /\ pc' = [pc EXCEPT ![i] = "idle"]
            /\ mine' = [mine EXCEPT ![i] = None]
            /\ UNCHANGED missed
       ELSE /\ missed' = IF pc[i] # "ready" /\ seen[i] # None THEN missed \union {i} ELSE missed
            /\ UNCHANGED <<pc, mine>>
    /\ UNCHANGED <<what, files, manager, round, seen, events, removals, closings, count, unheard>>

-----------------------------------------------------------------------------
(* The end of imports *)

\* The importing document drops the import or is closed: the sentinel dies
\* and its finalizers run.  Bound: not before those of its predecessor are done.
drop_import(i) ==
    /\ pc[i] \in {"idle", "ready"}
    /\ \A r \in removals : r.by # i
    /\ \A c \in closings : c[1] # i
    /\ \/ \E e \in Entries : i \in entry[e].refs
       \/ finals[i] # {}
    /\ removals' = removals \union {[by |-> i, entry |-> e, pc |-> "posted"] :
                                      e \in {d \in Entries : i \in entry[d].refs}}
    /\ entry' = [e \in Entries |-> [entry[e] EXCEPT !.refs = @ \ {i}]]
    /\ closings' = closings \union ({i} \X finals[i])
    /\ drefs' = drefs \ {i}
    /\ finals' = [finals EXCEPT ![i] = {}]
    /\ pc' = [pc EXCEPT ![i] = "idle"]
    /\ mine' = [mine EXCEPT ![i] = None]
    /\ Outside
    /\ UNCHANGED <<what, source, latest, text, opened, versioned, table, registered, listening, round, seen,
                   events, notices, missed, unheard>>

Removal(r, s) == removals' = (removals \ {r}) \union {[r EXCEPT !.pc = s]}

\* With the lock of the table: a resource is looked up by its key, a library
\* is not.  The key is removed, whichever entry it has.
Removing(r) ==
    IF kind = "resource" /\ table = None
    THEN removals' = removals \ {r} /\ UNCHANGED <<table, entry, registered, listening>>
    ELSE IF EntryBusy(r.entry)
    THEN Removal(r, "invalidate") /\ UNCHANGED <<table, entry, registered, listening>>
    ELSE IF entry[r.entry].watched
    THEN /\ Removal(r, "unwatch")
         /\ registered' = registered \ {r.entry} /\ listening' = FALSE
         /\ UNCHANGED <<table, entry>>
    ELSE /\ entry' = Cleared(r.entry)
         /\ table' = None
         /\ removals' = removals \ {r}
         /\ UNCHANGED <<registered, listening>>

\* Mutant: a removal that finds the table locked gives up.
removal_gives_up(r) ==
    /\ r.pc = "posted"
    /\ IF entry[r.entry].refs # {} \/ TableLocked
       THEN removals' = removals \ {r} /\ UNCHANGED <<table, entry, registered, listening>>
       ELSE Removing(r)
    /\ UNCHANGED <<what, files, importers, events, closings, notices, count, missed, unheard>>

\* threadsafe_remove: the references are looked at first, the lock is taken
\* afterwards.
removal_starts(r) ==
    /\ r.pc = "posted"
    /\ IF entry[r.entry].refs # {}
       THEN removals' = removals \ {r} /\ UNCHANGED <<table, entry, registered, listening>>
       ELSE IF TableLocked
       THEN Removal(r, "waiting") /\ UNCHANGED <<table, entry, registered, listening>>
       ELSE Removing(r)
    /\ UNCHANGED <<what, files, importers, events, closings, notices, count, missed, unheard>>

removal_locks(r) ==
    /\ \/ r.pc = "waiting" /\ ~TableLocked
       \/ r.pc = "invalidate" /\ ~EntryBusy(r.entry)
    /\ Removing(r)
    /\ UNCHANGED <<what, files, importers, events, closings, notices, count, missed, unheard>>

removal_ends(r) ==
    /\ r.pc = "unwatch"
    /\ entry' = Cleared(r.entry)
    /\ table' = None
    /\ removals' = removals \ {r}
    /\ UNCHANGED <<what, files, registered, listening, importers, events, closings, notices, count, missed, unheard>>

\* _LibrariesEntry.__del__, _ResourcesEntry.__del__: an entry that was filled
\* after it had left the table.
del_entry(e) ==
    /\ Unused(e) /\ entry[e] # NewEntry
    /\ entry' = [entry EXCEPT ![e] = NewEntry]
    /\ IF entry[e].watched
       THEN registered' = registered \ {e} /\ listening' = FALSE
       ELSE UNCHANGED <<registered, listening>>
    /\ UNCHANGED <<what, files, table, importers, tasks, count, missed, unheard>>

\* close_document, from a finalizer or at the end of didClose: a document
\* without references leaves the table, and with it whatever has its uri.
close_document(c) ==
    /\ c \in closings
    /\ IF c[2] = "old" \/ (drefs = {} /\ ~opened)
       THEN /\ text' = None /\ drefs' = {} /\ versioned' = FALSE
            /\ entry' = [e \in Entries |->
                           IF entry[e].doc = Shared
                           THEN [entry[e] EXCEPT !.doc = [live |-> FALSE, at |-> text]] ELSE entry[e]]
            /\ finals' = [i \in Importers |-> IF finals[i] = {} THEN {} ELSE {"old"}]
            /\ closings' = {<<d[1], "old">> : d \in closings \ {c}}
       ELSE /\ versioned' = FALSE
            /\ closings' = closings \ {c}
            /\ UNCHANGED <<text, drefs, entry, finals>>
    /\ UNCHANGED <<what, source, latest, opened, table, registered, listening, importers, events, removals,
                   notices, count, missed, unheard>>

-----------------------------------------------------------------------------

Import(i) ==
    \/ \E e \in Entries : get_entry(i, e)
    \/ get_locked_document(i) \/ load_library(i) \/ update_library(i)
    \/ add_file_watchers(i) \/ get_resource_entry(i) \/ initialized(i)

Handle(h) ==
    \/ handler_starts(h) \/ handler_checks(h) \/ handler_invalidates(h) \/ unwatched(h) \/ reload(h)

Remove(r) == removal_starts(r) \/ removal_locks(r) \/ removal_ends(r)

\* What the loop does by itself.
Work ==
    \/ \E i \in Importers : Import(i) \/ (\E n \in notices : n[1] = i /\ imports_changed(i, n[2]))
    \/ \E h \in events : Handle(h)
    \/ \E r \in removals : Remove(r)
    \/ \E c \in closings : close_document(c)
    \/ \E e \in Entries : del_entry(e)

Environment ==
    \/ \E i \in Importers : find_file(i) \/ load_fails(i) \/ cancel(i) \/ drop_import(i)
    \/ change_file \/ other_watch \/ did_open \/ did_change \/ did_save \/ did_close

Next == Work \/ Environment

Spec == Init /\ [][Next]_vars

\* The loop runs what it can run, as long as there is something; processes
\* and the client answer.
FairSpec == Spec /\ WF_vars(Work)

-----------------------------------------------------------------------------

Current == IF kind = "library" THEN source ELSE text

Stale(i) == pc[i] = "ready" /\ seen[i] # None /\ Current # None /\ seen[i] # Current

\* A namespace that knows an old text of what it imports is about to hear of
\* the change (a handler or a call is under way), except in three cases, all of
\* them in the code: the change passed it by, since nobody listened for the
\* file or the call came while it was being initialised (missed); or its entry
\* was dropped from the table by a removal that was decided before it asked.
StaleOnlyByRace ==
    \A i \in Importers : Stale(i) =>
        \/ events # {} \/ \E n \in notices : n[1] = i
        \/ i \in missed \/ seen[i] < unheard
        \/ mine[i] # table

\* Whoever asks for an import gets an answer: no handler, removal or other
\* import keeps the locks of the table and of its entry for ever.
ImportsAnswered == \A i \in Importers : pc[i] = "found" ~> pc[i] \in {"idle", "ready"}

\* An entry in the table that no import refers to is about to be removed, unless
\* it is that of a default library: no order of new and ending imports leaves it there.
UnusedIsLeaving ==
    \A e \in Entries :
        table = e /\ entry[e].refs = {} /\ ~entry[e].pinned => \E r \in removals : r.entry = e
=============================================================================
