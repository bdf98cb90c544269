---------------------------- MODULE FileWatchers ----------------------------
(***************************************************************************)
(* The file watchers of the Workspace: who wants to know of changed files  *)
(* adds an entry with a callback and patterns, and removes it again.  The  *)
(* client reports changes for the patterns registered with it, to all      *)
(* callbacks of the event did_change_watched_files.  Entries of the same   *)
(* patterns share one registration: the first is the parent of the others. *)
(*                                                                         *)
(* An action is what a caller does up to the client's answer, or from it.  *)
(* The finalizer of an entry holds the entry, so none is ever collected.   *)
(***************************************************************************)
EXTENDS Naturals, Sequences

CONSTANTS
    Callbacks,      \* one for each workspace folder, its imports manager's
    Patterns,       \* lists of patterns to watch
    MaxWatchers     \* bound: entries made

\* No callback is the number of an entry.
ASSUME WatchersAssumption == MaxWatchers \in Nat /\ Callbacks \intersect Nat = {}

FileWatcherEntries == 1 .. MaxWatchers
NoEntry == 0

VARIABLES
    entry,          \* the entries made: callback, patterns, parent and child_callbacks
    _file_watchers, \* the entries in use
    listeners,      \* did_change_watched_files: callbacks, and entries for their call_childrens
    asked,          \* entries whose caller waits for the client, to add or to remove them
    registered,     \* entries whose patterns the client watches
    silenced,       \* history: entries with the callback of another one that was removed
    unwatched       \* history: entries with a registration that another one took along

fwVars == <<entry, _file_watchers, listeners, asked, registered, silenced, unwatched>>

fwInit ==
    /\ entry = <<>>
    /\ _file_watchers = {} /\ listeners = {} /\ asked = {} /\ registered = {}
    /\ silenced = {} /\ unwatched = {}

-----------------------------------------------------------------------------

\* The callbacks a change of a file comes to.
call_childrens(p) == entry[p].child_callbacks
Called == (listeners \intersect Callbacks) \union
          UNION {call_childrens(p) : p \in listeners \intersect FileWatcherEntries}

WithPatterns(w) == {e \in _file_watchers : entry[e].watchers = w}
FileWatcherEntry(c, w, p) == [callback |-> c, watchers |-> w, parent |-> p, child_callbacks |-> {}]
New == Len(entry) + 1

\* An entry of these patterns is there already, one of them becomes the parent.
add_child(c, w) == \E current_entry \in WithPatterns(w) :
    LET added == IF c \in listeners THEN {} ELSE {c}
        child_callbacks == entry[current_entry].child_callbacks \union added IN
    /\ entry' = Append([entry EXCEPT ![current_entry].child_callbacks = child_callbacks],
                       FileWatcherEntry(c, w, current_entry))
    /\ listeners' = listeners \union (IF child_callbacks = {} THEN {} ELSE {current_entry})
    /\ _file_watchers' = _file_watchers \union {New}
    /\ unwatched' = unwatched \union (IF current_entry \in unwatched THEN {New} ELSE {})
    /\ UNCHANGED asked

\* There is none: the client is asked to watch, the entry is put among the others
\* when it has answered.
add_first(c, w) ==
    /\ WithPatterns(w) = {}
    /\ entry' = Append(entry, FileWatcherEntry(c, w, NoEntry))
    /\ listeners' = listeners \union {c}
    /\ asked' = asked \union {New}
    /\ UNCHANGED <<_file_watchers, unwatched>>

add_file_watchers(c, w) ==
    /\ Len(entry) < MaxWatchers
    /\ add_child(c, w) \/ add_first(c, w)
    /\ UNCHANGED <<registered, silenced>>

register_capability(e) ==
    /\ e \in asked \ registered
    /\ registered' = registered \union {e}
    /\ asked' = asked \ {e}
    /\ _file_watchers' = _file_watchers \union {e}
    /\ UNCHANGED <<entry, listeners, silenced, unwatched>>

remove_child(e) ==
    /\ entry[e].parent # NoEntry
    /\ entry' = [entry EXCEPT ![entry[e].parent].child_callbacks = @ \ {entry[e].callback}]
    /\ listeners' = listeners \ (IF entry[e].child_callbacks = {} THEN {e} ELSE {})
    /\ UNCHANGED asked

\* Mutant: the parent of others leaves like an entry without children.
KeepsNobody(e) == FALSE

\* The parent of others keeps its callback and its registration.
KeepsServing(e) == entry[e].child_callbacks # {}

remove_first(e) ==
    /\ entry[e].parent = NoEntry
    /\ IF KeepsServing(e) THEN UNCHANGED <<listeners, asked>>
       ELSE /\ listeners' = listeners \ {entry[e].callback}
            /\ asked' = asked \union {e}
    /\ UNCHANGED entry

\* For the histories: whom the removal of an entry takes something from.
Reaches(x, e) ==
    IF entry[e].parent = NoEntry THEN entry[e].child_callbacks = {}
    ELSE entry[x].parent = entry[e].parent
LosesCallback(e) ==
    {x \in (_file_watchers \union asked) \ {e} :
        entry[x].callback = entry[e].callback /\ Reaches(x, e)}
LosesRegistration(e) ==
    {x \in WithPatterns(entry[e].watchers) \ {e} :
        entry[e].parent = NoEntry /\ entry[e].child_callbacks = {}}

remove_file_watcher_entry(e) ==
    /\ e \in _file_watchers
    /\ _file_watchers' = _file_watchers \ {e}
    /\ remove_child(e) \/ remove_first(e)
    /\ silenced' = silenced \union LosesCallback(e)
    /\ unwatched' = unwatched \union LosesRegistration(e)
    /\ UNCHANGED registered

unregister_capability(e) ==
    /\ e \in asked \intersect registered
    /\ registered' = registered \ {e}
    /\ asked' = asked \ {e}
    /\ UNCHANGED <<entry, _file_watchers, listeners, silenced, unwatched>>

fwNext ==
    \/ \E c \in Callbacks, w \in Patterns : add_file_watchers(c, w)
    \/ \E e \in FileWatcherEntries :
         register_capability(e) \/ remove_file_watcher_entry(e) \/ unregister_capability(e)

fwSpec == fwInit /\ [][fwNext]_fwVars

-----------------------------------------------------------------------------

\* Whoever watches is told: the client reports the files of its patterns, and its
\* callback is among those called.  Only the removal of another entry changes that:
\* one with the same callback, or one whose registration it shares, or its parent
\* did when it was added.
WatchersAreTold == \A e \in _file_watchers :
    /\ e \in silenced \/ entry[e].callback \in Called
    /\ e \in unwatched \/ \E x \in registered : entry[x].watchers = entry[e].watchers
=============================================================================
