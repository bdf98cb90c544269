---------------------- MODULE ImportsManager_proofs ----------------------
(* What is proved of the table of an ImportsManager: its types, that every *)
(* lock is held by one task at a time, that an entry nobody imports is     *)
(* leaving, and that who knows an old text is about to be told.            *)
EXTENDS ImportsManager, TLAPS

Texts == Nat \union {None}
Documents == [live : BOOLEAN, at : Texts] \union {None}
Contents == [doc : Documents, refs : SUBSET Importers, pinned : BOOLEAN, watched : BOOLEAN]
Steps == {"idle", "found", "entered", "loading", "loaded", "watching", "computing", "holding", "ready"}
Handlers == [id : Nat, type : {"file", "document", "close"}, entry : Entries \union {None},
             pc : {"posted", "check", "libdoc", "unwatch", "reload"}]
Leaving == [by : Importers, entry : Entries, pc : {"posted", "waiting", "invalidate", "unwatch"}]
Closings == {"current", "old"}

WhatOK == kind \in {"library", "resource"} /\ defaults \subseteq Importers
FilesOK ==
  /\ source \in Nat /\ latest \in Nat /\ text \in Texts
  /\ opened \in BOOLEAN /\ versioned \in BOOLEAN
  /\ drefs \subseteq Importers /\ finals \in [Importers -> SUBSET Closings]
ManagerOK ==
  /\ table \in Entries \union {None} /\ entry \in [Entries -> Contents]
  /\ registered \subseteq Entries /\ listening \in BOOLEAN
(* A task that works with an entry knows it. *)
ImportersOK ==
  /\ pc \in [Importers -> Steps] /\ round \in [Importers -> {1, 2}]
  /\ mine \in [Importers -> Entries \union {None}] /\ seen \in [Importers -> Texts]
  /\ \A i \in Importers : pc[i] \in {"entered", "loading", "loaded", "watching"} => mine[i] \in Entries
EventsOK == events \subseteq Handlers /\ \A h \in events : h.pc # "posted" => h.entry \in Entries
TasksOK ==
  /\ EventsOK /\ removals \subseteq Leaving
  /\ closings \subseteq (Importers \union {None}) \X Closings
  /\ notices \subseteq Importers \X Texts
HistoryOK == count \in Nat /\ missed \subseteq Importers /\ unheard \in Nat
TypeOK == WhatOK /\ FilesOK /\ ManagerOK /\ ImportersOK /\ TasksOK /\ HistoryOK

(* Who has the lock of the table, and who that of an entry. *)
Imports_(i) == kind = "library" /\ pc[i] \in {"entered", "loading", "loaded", "watching"}
Handled(h) == h.pc # "posted"
Removed(r) == r.pc \in {"invalidate", "unwatch"}
TableLockedOnce ==
  /\ \A i, j \in Importers : Imports_(i) /\ Imports_(j) => i = j
  /\ \A g, h \in events : Handled(g) /\ Handled(h) => g = h
  /\ \A q, r \in removals : Removed(q) /\ Removed(r) => q = r
  /\ \A i \in Importers : Imports_(i) =>
       (\A h \in events : ~Handled(h)) /\ (\A r \in removals : ~Removed(r))
  /\ \A h \in events, r \in removals : ~(Handled(h) /\ Removed(r))

ImportsEntry(i) == pc[i] \in {"loading", "loaded", "watching"}
EntryLockedOnce ==
  /\ \A i, j \in Importers : ImportsEntry(i) /\ ImportsEntry(j) /\ mine[i] = mine[j] => i = j
  /\ \A i \in Importers, h \in events : ImportsEntry(i) /\ h.pc = "unwatch" => mine[i] # h.entry
  /\ \A i \in Importers, r \in removals : ImportsEntry(i) /\ r.pc = "unwatch" => mine[i] # r.entry
(* The entry of a library whose watch ends for a change is still filled. *)
Filled == kind = "library" => \A h \in events : h.pc = "unwatch" => entry[h.entry].doc # None
KindOK ==
  /\ \A i \in Importers : pc[i] \in {"loading", "loaded"} => kind = "library"
  /\ \A h \in events : h.pc \in {"libdoc", "reload"} => kind = "resource"

LocksOK == TableLockedOnce /\ EntryLockedOnce /\ Filled /\ KindOK

-----------------------------------------------------------------------------
(* Types.                                                                  *)
LEMMA NewEntryTyped ==
  NewEntry \in Contents /\ Shared \in Documents /\ Shared # None
<1>1. Shared \in [live : BOOLEAN, at : Texts]
  BY DEF Shared, Texts
<1>2. None \notin [live : BOOLEAN, at : Texts]
  BY ImportsAssumption DEF Texts
<1>. QED BY <1>1, <1>2 DEF NewEntry, Contents, Documents

LEMMA ContentsChange ==
  ASSUME NEW x \in Contents, NEW d \in Documents, NEW R \in SUBSET Importers, NEW b \in BOOLEAN
  PROVE  /\ [x EXCEPT !.doc = d] \in Contents /\ [x EXCEPT !.refs = R] \in Contents
         /\ [x EXCEPT !.watched = b] \in Contents /\ [x EXCEPT !.pinned = b] \in Contents
         /\ [x EXCEPT !.doc = d].refs = x.refs /\ [x EXCEPT !.watched = b].refs = x.refs
         /\ [x EXCEPT !.doc = d].pinned = x.pinned /\ [x EXCEPT !.watched = b].pinned = x.pinned
BY DEF Contents

LEMMA TextTyped ==
  ASSUME TypeOK, NEW d \in Documents, d # None
  PROVE  Text(d) \in Texts /\ d.at \in Texts
BY DEF TypeOK, FilesOK, Documents, Text

LEMMA FinalizeTyped ==
  ASSUME TypeOK, NEW R \in SUBSET Importers
  PROVE  Finalize(R) \in [Importers -> SUBSET Closings]
BY DEF TypeOK, FilesOK, Finalize, Closings

LEMMA ClearedTyped ==
  ASSUME TypeOK, NEW e \in Entries
  PROVE  /\ Cleared(e) \in [Entries -> Contents]
         /\ \A d \in Entries : Cleared(e)[d].refs = entry[d].refs /\ Cleared(e)[d].pinned = entry[d].pinned
         /\ \A d \in Entries \ {e} : Cleared(e)[d] = entry[d]
         /\ Cleared(e)[e].doc = None
BY DEF TypeOK, ManagerOK, Contents, Documents, Cleared

LEMMA TypesInit ==
  ASSUME Init
  PROVE  TypeOK
<1>1. WhatOK
  BY DEF Init, WhatOK
<1>2. FilesOK
  BY DEF Init, FilesOK, Texts
<1>3. ManagerOK
  BY NewEntryTyped DEF Init, ManagerOK
<1>4. ImportersOK
  BY DEF Init, ImportersOK, Steps, Texts
<1>5. TasksOK /\ HistoryOK
  BY DEF Init, TasksOK, EventsOK, HistoryOK
<1>. QED BY <1>1, <1>2, <1>3, <1>4, <1>5 DEF TypeOK

(* What is read or taken for an import. *)
LEMMA DocumentTypes ==
  ASSUME TypeOK, NEW i \in Importers, NEW e \in Entries, NEW ent \in [Entries -> Contents],
         get_document(i, e, ent)
  PROVE  /\ text' \in Texts /\ drefs' \subseteq Importers /\ finals' \in [Importers -> SUBSET Closings]
         /\ entry' \in [Entries -> Contents] /\ registered' \subseteq Entries /\ listening' \in BOOLEAN
         /\ seen' \in [Importers -> Texts] /\ pc' \in [Importers -> Steps]
         /\ pc' = [pc EXCEPT ![i] = pc'[i]] /\ pc'[i] \in {"watching", "computing"}
         /\ \A d \in Entries : entry'[d].refs = ent[d].refs /\ entry'[d].pinned = ent[d].pinned
         /\ \A d \in Entries \ {e} : entry'[d] = ent[d]
         /\ entry'[e].doc # None
<1>1. ent[e] \in Contents /\ ent[e].refs \in SUBSET Importers /\ ent[e].doc \in Documents
  BY DEF Contents
<1>2. source \in Texts /\ text \in Texts
  BY DEF TypeOK, FilesOK, Texts
<1>3. text' \in Texts
  BY <1>2 DEF get_document
<1>4. drefs' \subseteq Importers /\ finals' \in [Importers -> SUBSET Closings]
  BY <1>1, FinalizeTyped DEF get_document, TypeOK, FilesOK
<1>5. /\ entry' \in [Entries -> Contents] /\ entry'[e].doc # None
      /\ \A d \in Entries \ {e} : entry'[d] = ent[d]
      /\ entry'[e].refs = ent[e].refs /\ entry'[e].pinned = ent[e].pinned
  <2>1. CASE ent[e].doc = None
    <3>1. entry' = [ent EXCEPT ![e] = [ent[e] EXCEPT !.doc = Shared]]
      BY <2>1 DEF get_document
    <3>2. [ent[e] EXCEPT !.doc = Shared].doc = Shared
      BY <1>1 DEF Contents
    <3>. QED BY <1>1, <3>1, <3>2, NewEntryTyped, ContentsChange
  <2>2. CASE ent[e].doc # None
    BY <2>2 DEF get_document
  <2>. QED BY <2>1, <2>2
<1>6. registered' \subseteq Entries /\ listening' \in BOOLEAN
  BY DEF get_document, TypeOK, ManagerOK
<1>7. seen' \in [Importers -> Texts]
  <2>1. ent[e].doc # None => Text(ent[e].doc) \in Texts
    BY <1>1, TextTyped
  <2>. QED BY <1>2, <2>1 DEF get_document, TypeOK, ImportersOK
<1>8. /\ pc' \in [Importers -> Steps] /\ pc' = [pc EXCEPT ![i] = pc'[i]]
      /\ pc'[i] \in {"watching", "computing"}
  BY DEF get_document, TypeOK, ImportersOK, Steps
<1>9. \A d \in Entries : entry'[d].refs = ent[d].refs /\ entry'[d].pinned = ent[d].pinned
  BY <1>5
<1>. QED BY <1>3, <1>4, <1>5, <1>6, <1>7, <1>8, <1>9

(* The entry that an import gets, with it among the references. *)
Asked(i, e) ==
  LET pinned == IF table = None THEN i \in defaults ELSE entry[e].pinned
  IN [entry EXCEPT ![e].pinned = pinned,
                   ![e].refs = IF pinned \/ i \in defaults THEN @ ELSE @ \union {i}]

LEMMA AskedTypes ==
  ASSUME TypeOK, NEW i \in Importers, NEW e \in Entries
  PROVE  /\ Asked(i, e) \in [Entries -> Contents]
         /\ \A d \in Entries \ {e} : Asked(i, e)[d] = entry[d]
         /\ Asked(i, e)[e].doc = entry[e].doc /\ Asked(i, e)[e].watched = entry[e].watched
         /\ Asked(i, e)[e].pinned = IF table = None THEN i \in defaults ELSE entry[e].pinned
         /\ Asked(i, e)[e].refs \in {entry[e].refs, entry[e].refs \union {i}}
         /\ ~Asked(i, e)[e].pinned /\ i \notin defaults => i \in Asked(i, e)[e].refs
<1>. DEFINE pinned == IF table = None THEN i \in defaults ELSE entry[e].pinned
            refs == IF pinned \/ i \in defaults THEN entry[e].refs ELSE entry[e].refs \union {i}
            x == [entry[e] EXCEPT !.pinned = pinned, !.refs = refs]
<1>1. entry \in [Entries -> Contents] /\ entry[e] \in Contents
  BY DEF TypeOK, ManagerOK
<1>2. pinned \in BOOLEAN /\ refs \in SUBSET Importers
  <2>1. entry[e].pinned \in BOOLEAN /\ entry[e].refs \subseteq Importers
    BY <1>1 DEF Contents
  <2>2. (i \in defaults) \in BOOLEAN
    OBVIOUS
  <2>3. pinned \in BOOLEAN
    BY <2>1, <2>2
  <2>4. refs \subseteq Importers
    <3>. HIDE DEF pinned
    <3>. QED BY <2>1
  <2>. QED BY <2>3, <2>4
<1>3. Asked(i, e) = [entry EXCEPT ![e] = x]
  BY <1>1 DEF Asked, Contents
<1>4. refs \in {entry[e].refs, entry[e].refs \union {i}} /\ (~pinned /\ i \notin defaults => i \in refs)
  OBVIOUS
<1>. HIDE DEF pinned, refs
<1>5. x \in Contents /\ x.doc = entry[e].doc /\ x.watched = entry[e].watched /\ x.pinned = pinned /\ x.refs = refs
  BY <1>1, <1>2 DEF Contents
<1>. HIDE DEF x
<1>6. /\ Asked(i, e) \in [Entries -> Contents] /\ Asked(i, e)[e] = x
      /\ \A d \in Entries \ {e} : Asked(i, e)[d] = entry[d]
  BY <1>1, <1>3, <1>5
<1>. QED BY <1>4, <1>5, <1>6 DEF pinned

LEMMA GetEntryIs ==
  ASSUME NEW i \in Importers, NEW e \in Entries, get_entry(i, e)
  PROVE  /\ pc[i] = "found" /\ ~TableLocked
         /\ IF table = None THEN Unused(e) /\ entry[e] = NewEntry ELSE e = table
         /\ table' = e /\ mine' = [mine EXCEPT ![i] = e]
         /\ missed' \subseteq missed \union {i}
         /\ IF kind = "library" THEN get_libdoc(i, e, Asked(i, e))
            ELSE IF ~EntryBusy(e) THEN get_document(i, e, Asked(i, e))
            ELSE /\ entry' = Asked(i, e)
                 /\ pc' = [pc EXCEPT ![i] = "entered"]
                 /\ UNCHANGED <<text, drefs, finals, registered, listening, seen>>
         /\ UNCHANGED <<what, source, latest, opened, versioned, round, tasks, count, unheard>>
BY DEF get_entry, Asked

LEMMA TypesGetEntry ==
  ASSUME TypeOK, NEW i \in Importers, NEW e \in Entries, get_entry(i, e)
  PROVE  TypeOK'
<1>. DEFINE ent == Asked(i, e)
<1>0. /\ table' = e /\ mine' = [mine EXCEPT ![i] = e] /\ missed' \subseteq missed \union {i}
      /\ UNCHANGED <<what, source, latest, opened, versioned, round, tasks, count, unheard>>
  BY GetEntryIs
<1>1. ent \in [Entries -> Contents]
  BY AskedTypes
<1>2. mine' \in [Importers -> Entries \union {None}] /\ mine'[i] = e
      /\ \A j \in Importers \ {i} : mine'[j] = mine[j]
  BY <1>0 DEF TypeOK, ImportersOK
<1>. HIDE DEF ent
<1>3. /\ text' \in Texts /\ drefs' \subseteq Importers /\ finals' \in [Importers -> SUBSET Closings]
      /\ entry' \in [Entries -> Contents] /\ registered' \subseteq Entries /\ listening' \in BOOLEAN
      /\ seen' \in [Importers -> Texts] /\ pc' \in [Importers -> Steps]
      /\ pc' = [pc EXCEPT ![i] = pc'[i]]
  <2>1. CASE get_document(i, e, ent)
    BY <2>1, <1>1, DocumentTypes
  <2>2. CASE get_libdoc(i, e, ent)
    <3>1. ent[e].doc = None \/ ent[e].doc.at \in Texts
      BY <1>1, TextTyped DEF Contents
    <3>2. seen' \in [Importers -> Texts] /\ pc' \in [Importers -> Steps]
      BY <2>2, <3>1 DEF get_libdoc, TypeOK, ImportersOK, Steps
    <3>3. pc' = [pc EXCEPT ![i] = pc'[i]]
      BY <2>2 DEF get_libdoc, TypeOK, ImportersOK
    <3>. QED BY <2>2, <1>1, <3>2, <3>3 DEF get_libdoc, TypeOK, FilesOK, ManagerOK
  <2>3. CASE /\ entry' = ent /\ pc' = [pc EXCEPT ![i] = "entered"]
             /\ UNCHANGED <<text, drefs, finals, registered, listening, seen>>
    BY <2>3, <1>1 DEF TypeOK, FilesOK, ManagerOK, ImportersOK, Steps
  <2>. QED BY <2>1, <2>2, <2>3, GetEntryIs DEF ent
<1>4. FilesOK' /\ WhatOK'
  BY <1>0, <1>3 DEF TypeOK, WhatOK, FilesOK, what
<1>5. ManagerOK'
  BY <1>0, <1>3 DEF ManagerOK
<1>6. \A j \in Importers \ {i} : pc'[j] = pc[j]
  BY <1>3 DEF TypeOK, ImportersOK
<1>7. ImportersOK'
  BY <1>0, <1>2, <1>3, <1>6 DEF TypeOK, ImportersOK
<1>8. TasksOK' /\ HistoryOK'
  BY <1>0 DEF TypeOK, TasksOK, EventsOK, HistoryOK, tasks
<1>. QED BY <1>4, <1>5, <1>7, <1>8 DEF TypeOK

LEMMA TypesLocked ==
  ASSUME TypeOK, NEW i \in Importers, get_locked_document(i)
  PROVE  TypeOK'
<1>1. mine[i] \in Entries /\ entry \in [Entries -> Contents]
  BY DEF get_locked_document, TypeOK, ImportersOK, ManagerOK
<1>2. get_document(i, mine[i], entry)
  BY DEF get_locked_document
<1>3. /\ text' \in Texts /\ drefs' \subseteq Importers /\ finals' \in [Importers -> SUBSET Closings]
      /\ entry' \in [Entries -> Contents] /\ registered' \subseteq Entries /\ listening' \in BOOLEAN
      /\ seen' \in [Importers -> Texts] /\ pc' \in [Importers -> Steps]
      /\ pc' = [pc EXCEPT ![i] = pc'[i]]
  BY <1>1, <1>2, DocumentTypes
<1>4. /\ UNCHANGED <<what, source, latest, opened, versioned, table, round, mine, tasks, count, missed, unheard>>
      /\ \A j \in Importers \ {i} : pc'[j] = pc[j]
  BY <1>3 DEF get_locked_document, TypeOK, ImportersOK
<1>5. FilesOK' /\ WhatOK' /\ ManagerOK'
  BY <1>3, <1>4 DEF TypeOK, WhatOK, FilesOK, ManagerOK, what
<1>6. ImportersOK'
  BY <1>1, <1>3, <1>4 DEF TypeOK, ImportersOK
<1>7. TasksOK' /\ HistoryOK'
  BY <1>4 DEF TypeOK, TasksOK, EventsOK, HistoryOK, tasks
<1>. QED BY <1>5, <1>6, <1>7 DEF TypeOK

LEMMA TypesImport ==
  ASSUME TypeOK, LocksOK, NEW i \in Importers,
         \/ find_file(i) \/ load_library(i) \/ update_library(i) \/ load_fails(i) \/ add_file_watchers(i)
         \/ get_resource_entry(i) \/ initialized(i) \/ cancel(i)
  PROVE  TypeOK'
<1>1. UNCHANGED <<what, files, tasks, table, unheard>>
  BY DEF find_file, load_library, update_library, load_fails, add_file_watchers, get_resource_entry,
     initialized, cancel, manager
<1>2. WhatOK' /\ FilesOK' /\ TasksOK'
  BY <1>1 DEF TypeOK, WhatOK, FilesOK, TasksOK, EventsOK, what, files, tasks
<1>3. HistoryOK'
  BY DEF TypeOK, HistoryOK, Outside, find_file, load_library, update_library, load_fails, add_file_watchers,
     get_resource_entry, initialized, cancel
<1>4. pc[i] \in {"loaded", "watching", "loading"} => mine[i] \in Entries
  BY DEF TypeOK, ImportersOK
<1>5. entry' \in [Entries -> Contents] /\ registered' \subseteq Entries /\ listening' \in BOOLEAN
  <2>1. CASE update_library(i)
    <3>1. entry[mine[i]] \in Contents /\ [live |-> FALSE, at |-> seen[i]] \in Documents
      BY <2>1, <1>4 DEF update_library, TypeOK, ManagerOK, ImportersOK, Documents
    <3>. QED BY <2>1, <3>1, <1>4, ContentsChange DEF update_library, TypeOK, ManagerOK
  <2>2. CASE add_file_watchers(i)
    <3>1. entry[mine[i]] \in Contents
      BY <2>2, <1>4 DEF add_file_watchers, TypeOK, ManagerOK
    <3>2. [entry[mine[i]] EXCEPT !.watched = TRUE] \in Contents
      BY <3>1 DEF Contents
    <3>. QED BY <2>2, <3>2, <1>4 DEF add_file_watchers, TypeOK, ManagerOK
  <2>. QED BY <2>1, <2>2 DEF TypeOK, ManagerOK, find_file, load_library, load_fails, get_resource_entry,
     initialized, cancel, manager
<1>6. ManagerOK'
  BY <1>1, <1>5 DEF TypeOK, ManagerOK
<1>7. /\ pc' \in [Importers -> Steps] /\ round' \in [Importers -> {1, 2}]
      /\ mine' \in [Importers -> Entries \union {None}] /\ seen' \in [Importers -> Texts]
      /\ \A j \in Importers : pc'[j] \in {"entered", "loading", "loaded", "watching"} => mine'[j] \in Entries
  <2>1. CASE find_file(i) \/ cancel(i)
    BY <2>1 DEF TypeOK, ImportersOK, Steps, Texts, find_file, cancel
  <2>2. CASE load_library(i)
    <3>1. source \in Texts
      BY DEF TypeOK, FilesOK, Texts
    <3>. QED BY <2>2, <3>1 DEF TypeOK, ImportersOK, Steps, load_library
  <2>3. CASE update_library(i) \/ load_fails(i) \/ add_file_watchers(i) \/ initialized(i)
    BY <2>3 DEF TypeOK, ImportersOK, Steps, update_library, load_fails, add_file_watchers, initialized
  <2>4. CASE get_resource_entry(i)
    BY <2>4 DEF TypeOK, ImportersOK, Steps, get_resource_entry
  <2>. QED BY <2>1, <2>2, <2>3, <2>4
<1>8. ImportersOK'
  BY <1>7 DEF ImportersOK
<1>. QED BY <1>2, <1>3, <1>6, <1>8 DEF TypeOK

(* What happens outside. *)
LEMMA HappensTyped ==
  ASSUME TypeOK, NEW type \in {"file", "document", "close"}, Happens(type)
  PROVE  EventsOK' /\ count' \in Nat
<1>1. [id |-> count, type |-> type, entry |-> None, pc |-> "posted"] \in Handlers /\ count' \in Nat
  BY DEF Happens, Outside, TypeOK, HistoryOK, Handlers
<1>. QED BY <1>1 DEF Happens, TypeOK, TasksOK, EventsOK

LEMMA TypesOutside ==
  ASSUME TypeOK, change_file \/ other_watch \/ did_open \/ did_change \/ did_save \/ did_close
  PROVE  TypeOK'
<1>1. /\ UNCHANGED <<what, importers, removals, closings, notices, missed, table, entry, registered, drefs, finals>>
  BY DEF change_file, other_watch, did_open, did_change, did_save, did_close, tasks, files, manager
<1>2. EventsOK' /\ count' \in Nat
  <2>1. CASE UNCHANGED events /\ Outside
    BY <2>1 DEF TypeOK, TasksOK, EventsOK, Outside, HistoryOK
  <2>. QED BY <2>1, HappensTyped DEF change_file, other_watch, did_open, did_change, did_save, did_close, tasks
<1>3. /\ source' \in Nat /\ latest' \in Nat /\ text' \in Texts
      /\ opened' \in BOOLEAN /\ versioned' \in BOOLEAN /\ unheard' \in Nat
  <2>1. /\ source \in Nat /\ latest \in Nat /\ text \in Texts /\ unheard \in Nat
        /\ opened \in BOOLEAN /\ versioned \in BOOLEAN
    BY DEF TypeOK, FilesOK, HistoryOK
  <2>2. CASE change_file
    BY <2>1, <2>2 DEF change_file, NewVersion
  <2>3. CASE other_watch
    BY <2>1, <2>3 DEF other_watch, files
  <2>4. CASE did_open
    BY <2>1, <2>4 DEF did_open, Texts
  <2>5. CASE did_change
    BY <2>1, <2>5 DEF did_change, NewVersion, Texts
  <2>6. CASE did_save
    BY <2>1, <2>6 DEF did_save, Texts
  <2>7. CASE did_close
    BY <2>1, <2>7 DEF did_close
  <2>. QED BY <2>2, <2>3, <2>4, <2>5, <2>6, <2>7
<1>4. listening' \in BOOLEAN
  BY DEF TypeOK, ManagerOK, manager, change_file, other_watch, did_open, did_change, did_save, did_close
<1>. QED BY <1>1, <1>2, <1>3, <1>4 DEF TypeOK, WhatOK, FilesOK, ManagerOK, ImportersOK, TasksOK, HistoryOK, what, importers

(* Handlers of changes. *)
LEMMA BecomeTyped ==
  ASSUME TypeOK, NEW h \in Handlers, h.entry \in Entries, NEW s \in {"check", "libdoc", "unwatch", "reload"},
         Become(h, s)
  PROVE  EventsOK'
<1>1. [h EXCEPT !.pc = s] \in Handlers /\ [h EXCEPT !.pc = s].entry \in Entries
  BY DEF Handlers
<1>. QED BY <1>1 DEF Become, Others, TypeOK, TasksOK, EventsOK

LEMMA FinishTyped ==
  ASSUME TypeOK, NEW h, Finish(h)
  PROVE  EventsOK' /\ closings' \subseteq (Importers \union {None}) \X Closings
BY DEF Finish, Others, TypeOK, TasksOK, EventsOK, Closings

LEMMA NotifyTyped ==
  ASSUME TypeOK, NEW p \in Texts, Notify(p)
  PROVE  notices' \subseteq Importers \X Texts
BY DEF Notify, TypeOK, TasksOK

LEMMA InvalidatedTyped ==
  ASSUME TypeOK, NEW h \in Handlers, h.entry \in Entries,
         kind = "library" => entry[h.entry].doc # None, Invalidated(h)
  PROVE  /\ EventsOK' /\ closings' \subseteq (Importers \union {None}) \X Closings
         /\ notices' \subseteq Importers \X Texts
<1>1. CASE h.type = "file" /\ kind = "resource"
  <2>1. Become(h, "reload") /\ UNCHANGED <<notices, closings>>
    BY <1>1 DEF Invalidated
  <2>. QED BY <2>1, BecomeTyped DEF TypeOK, TasksOK
<1>2. CASE ~(h.type = "file" /\ kind = "resource")
  <2>. DEFINE p == IF kind = "library" THEN entry[h.entry].doc.at ELSE None
  <2>1. Finish(h) /\ Notify(p)
    BY <1>2 DEF Invalidated
  <2>2. entry[h.entry].doc \in Documents
    BY DEF TypeOK, ManagerOK, Contents
  <2>3. p \in Texts
    BY <2>2, TextTyped DEF Texts
  <2>. HIDE DEF p
  <2>. QED BY <2>1, <2>3, FinishTyped, NotifyTyped
<1>. QED BY <1>1, <1>2

HandledOK ==
  /\ entry' \in [Entries -> Contents] /\ registered' \subseteq Entries /\ listening' \in BOOLEAN
  /\ EventsOK' /\ closings' \subseteq (Importers \union {None}) \X Closings
  /\ notices' \subseteq Importers \X Texts

LEMMA InvalidateTyped ==
  ASSUME TypeOK, NEW h \in Handlers, h.entry \in Entries,
         kind = "library" => entry[h.entry].doc # None, Invalidate(h)
  PROVE  HandledOK
<1>1. CASE h.type = "file" /\ IgnoresFile(h.entry)
  BY <1>1, FinishTyped DEF Invalidate, TypeOK, ManagerOK, TasksOK, HandledOK
<1>2. CASE ~(h.type = "file" /\ IgnoresFile(h.entry)) /\ entry[h.entry].watched
  BY <1>2, BecomeTyped DEF Invalidate, TypeOK, ManagerOK, TasksOK, HandledOK
<1>3. CASE ~(h.type = "file" /\ IgnoresFile(h.entry)) /\ ~entry[h.entry].watched
  <2>1. entry' = Cleared(h.entry) /\ Invalidated(h) /\ UNCHANGED <<registered, listening>>
    BY <1>3 DEF Invalidate
  <2>2. Cleared(h.entry) \in [Entries -> Contents]
    BY ClearedTyped
  <2>. QED BY <2>1, <2>2, InvalidatedTyped DEF TypeOK, ManagerOK, HandledOK
<1>. QED BY <1>1, <1>2, <1>3

LEMMA CheckTyped ==
  ASSUME TypeOK, NEW h \in Handlers, h.entry \in Entries, CheckValid(h)
  PROVE  HandledOK
<1>1. CASE entry[h.entry].doc = None
  BY <1>1, FinishTyped DEF CheckValid, TypeOK, ManagerOK, TasksOK, HandledOK
<1>2. CASE entry[h.entry].doc # None /\ kind = "library"
  BY <1>2, InvalidateTyped DEF CheckValid
<1>3. CASE entry[h.entry].doc # None /\ kind # "library"
  BY <1>3, BecomeTyped DEF CheckValid, TypeOK, ManagerOK, TasksOK, HandledOK
<1>. QED BY <1>1, <1>2, <1>3

LEMMA TypesHandle ==
  ASSUME TypeOK, LocksOK, NEW h \in events, Handle(h)
  PROVE  TypeOK'
<1>1. h \in Handlers /\ (h.pc # "posted" => h.entry \in Entries)
  BY DEF TypeOK, TasksOK, EventsOK
<1>2. CASE ~reload(h)
  <2>1. UNCHANGED <<what, files, table, importers, removals, count, missed, unheard>>
    BY <1>2 DEF Handle, handler_starts, handler_checks, handler_invalidates, unwatched
  <2>2. HandledOK
    <3>1. CASE handler_starts(h)
      <4>1. CASE table = None
        BY <3>1, <4>1, FinishTyped DEF handler_starts, TypeOK, ManagerOK, TasksOK, HandledOK
      <4>2. CASE table # None
        <5>. DEFINE g == [h EXCEPT !.entry = table]
        <5>1. g \in Handlers /\ g.entry \in Entries
          BY <1>1, <4>2 DEF Handlers, TypeOK, ManagerOK
        <5>2. IF EntryBusy(table)
              THEN Become(g, "check") /\ UNCHANGED <<entry, registered, listening, closings, notices>>
              ELSE CheckValid(g)
          BY <3>1, <4>2 DEF handler_starts
        <5>. HIDE DEF g
        <5>3. CASE EntryBusy(table)
          BY <5>1, <5>2, <5>3, BecomeTyped DEF TypeOK, ManagerOK, TasksOK, HandledOK
        <5>. QED BY <5>1, <5>2, <5>3, CheckTyped
      <4>. QED BY <4>1, <4>2
    <3>2. CASE handler_checks(h)
      BY <3>2, <1>1, CheckTyped DEF handler_checks
    <3>3. CASE handler_invalidates(h)
      BY <3>3, <1>1, InvalidateTyped DEF handler_invalidates, LocksOK, KindOK
    <3>4. CASE unwatched(h)
      <4>1. kind = "library" => entry[h.entry].doc # None
        BY <3>4 DEF unwatched, LocksOK, Filled
      <4>2. Cleared(h.entry) \in [Entries -> Contents]
        BY <3>4, <1>1, ClearedTyped DEF unwatched
      <4>. QED BY <3>4, <1>1, <4>1, <4>2, InvalidatedTyped DEF unwatched, TypeOK, ManagerOK, HandledOK
    <3>. QED BY <1>2, <3>1, <3>2, <3>3, <3>4 DEF Handle
  <2>. QED BY <2>1, <2>2 DEF HandledOK, TypeOK, WhatOK, FilesOK, ManagerOK, ImportersOK, TasksOK, HistoryOK,
           what, files, importers
<1>3. CASE reload(h)
  <2>1. h.entry \in Entries /\ entry[h.entry] \in Contents /\ entry[h.entry].refs \in SUBSET Importers
    BY <1>1, <1>3 DEF reload, TypeOK, ManagerOK, Contents
  <2>2. EventsOK' /\ closings' \subseteq (Importers \union {None}) \X Closings
    BY <1>3, FinishTyped DEF reload
  <2>3. notices' \subseteq Importers \X Texts
    BY <1>3, NotifyTyped DEF reload, Texts
  <2>4. finals' \in [Importers -> SUBSET Closings] /\ drefs' \subseteq Importers
    BY <1>3, <2>1, FinalizeTyped DEF reload, TypeOK, FilesOK
  <2>5. text' \in Texts
    BY <1>3 DEF reload, TypeOK, FilesOK, Texts
  <2>6. entry' \in [Entries -> Contents] /\ registered' \subseteq Entries /\ listening' \in BOOLEAN
    <3>1. PICK watch \in BOOLEAN :
            /\ entry' = [entry EXCEPT ![h.entry].doc = Shared, ![h.entry].watched = watch]
            /\ registered' = (IF watch THEN registered \union {h.entry} ELSE registered)
            /\ listening' = (watch \/ listening)
      BY <1>3 DEF reload
    <3>2. [entry[h.entry] EXCEPT !.doc = Shared, !.watched = watch] \in Contents
      BY <2>1, NewEntryTyped DEF Contents
    <3>3. entry' \in [Entries -> Contents]
      BY <3>1, <3>2, <2>1 DEF TypeOK, ManagerOK
    <3>. QED BY <3>1, <3>3, <2>1 DEF TypeOK, ManagerOK
  <2>7. UNCHANGED <<what, source, latest, opened, versioned, table, importers, removals, count, missed, unheard>>
    BY <1>3 DEF reload
  <2>. QED BY <2>2, <2>3, <2>4, <2>5, <2>6, <2>7 DEF TypeOK, WhatOK, FilesOK, ManagerOK, ImportersOK, TasksOK,
           HistoryOK, what, importers
<1>. QED BY <1>2, <1>3

(* The end of imports. *)
LEMMA TypesChanged ==
  ASSUME TypeOK, NEW i \in Importers, NEW p, imports_changed(i, p)
  PROVE  TypeOK'
<1>1. notices' \subseteq Importers \X Texts /\ missed' \subseteq Importers
  BY DEF imports_changed, TypeOK, TasksOK, HistoryOK
<1>2. ImportersOK'
  BY DEF imports_changed, TypeOK, ImportersOK, Steps
<1>. QED BY <1>1, <1>2 DEF imports_changed, TypeOK, WhatOK, FilesOK, ManagerOK, TasksOK, EventsOK, HistoryOK,
     what, files, manager

LEMMA DroppedTyped ==
  ASSUME TypeOK, NEW i \in Importers, entry' = [e \in Entries |-> [entry[e] EXCEPT !.refs = @ \ {i}]]
  PROVE  /\ entry' \in [Entries -> Contents]
         /\ \A e \in Entries : /\ entry'[e].refs = entry[e].refs \ {i}
                               /\ entry'[e].pinned = entry[e].pinned /\ entry'[e].doc = entry[e].doc
<1>1. SUFFICES ASSUME NEW e \in Entries
               PROVE  /\ entry'[e] \in Contents /\ entry'[e].refs = entry[e].refs \ {i}
                      /\ entry'[e].pinned = entry[e].pinned /\ entry'[e].doc = entry[e].doc
  OBVIOUS
<1>2. entry[e] \in Contents /\ entry'[e] = [entry[e] EXCEPT !.refs = @ \ {i}]
  BY DEF TypeOK, ManagerOK
<1>. QED BY <1>2 DEF Contents

LEMMA TypesDrop ==
  ASSUME TypeOK, NEW i \in Importers, drop_import(i)
  PROVE  TypeOK'
<1>1. UNCHANGED <<what, source, latest, text, opened, versioned, table, registered, listening, round, seen,
                  events, notices, missed, unheard>>
  BY DEF drop_import
<1>2. entry' \in [Entries -> Contents]
  BY DroppedTyped DEF drop_import
<1>3. removals' \subseteq Leaving
  BY DEF drop_import, TypeOK, TasksOK, Leaving
<1>4. finals[i] \subseteq Closings
  BY DEF TypeOK, FilesOK
<1>5. closings' \subseteq (Importers \union {None}) \X Closings
  BY <1>4 DEF drop_import, TypeOK, TasksOK
<1>6. drefs' \subseteq Importers /\ finals' \in [Importers -> SUBSET Closings]
  BY DEF drop_import, TypeOK, FilesOK
<1>7. ImportersOK'
  BY <1>1 DEF drop_import, TypeOK, ImportersOK, Steps
<1>8. count' \in Nat
  BY DEF drop_import, Outside, TypeOK, HistoryOK
<1>. QED BY <1>1, <1>2, <1>3, <1>5, <1>6, <1>7, <1>8 DEF TypeOK, WhatOK, FilesOK, ManagerOK, TasksOK, EventsOK,
     HistoryOK, what

LEMMA RemovalTyped ==
  ASSUME TypeOK, NEW r \in removals, NEW s \in {"waiting", "invalidate", "unwatch"}, Removal(r, s)
  PROVE  removals' \subseteq Leaving
<1>1. [r EXCEPT !.pc = s] \in Leaving
  BY DEF TypeOK, TasksOK, Leaving
<1>. QED BY <1>1 DEF Removal, TypeOK, TasksOK

RemovedOK ==
  /\ table' \in Entries \union {None} /\ entry' \in [Entries -> Contents]
  /\ registered' \subseteq Entries /\ listening' \in BOOLEAN /\ removals' \subseteq Leaving

LEMMA RemovingTyped ==
  ASSUME TypeOK, NEW r \in removals, Removing(r)
  PROVE  RemovedOK
<1>1. r.entry \in Entries /\ Cleared(r.entry) \in [Entries -> Contents]
  BY ClearedTyped DEF TypeOK, TasksOK, Leaving
<1>2. removals' \subseteq Leaving
  BY RemovalTyped DEF Removing, TypeOK, TasksOK
<1>. QED BY <1>1, <1>2 DEF Removing, RemovedOK, TypeOK, ManagerOK

LEMMA TypesRemove ==
  ASSUME TypeOK, NEW r \in removals, Remove(r)
  PROVE  TypeOK'
<1>1. UNCHANGED <<what, files, importers, events, closings, notices, count, missed, unheard>>
  BY DEF Remove, removal_starts, removal_locks, removal_ends
<1>2. RemovedOK
  <2>1. CASE removal_starts(r)
    <3>1. CASE entry[r.entry].refs # {}
      BY <2>1, <3>1 DEF removal_starts, RemovedOK, TypeOK, ManagerOK, TasksOK
    <3>2. CASE entry[r.entry].refs = {} /\ TableLocked
      BY <2>1, <3>2, RemovalTyped DEF removal_starts, RemovedOK, TypeOK, ManagerOK, TasksOK
    <3>. QED BY <2>1, <3>1, <3>2, RemovingTyped DEF removal_starts
  <2>2. CASE removal_locks(r)
    BY <2>2, RemovingTyped DEF removal_locks
  <2>3. CASE removal_ends(r)
    <3>1. r.entry \in Entries /\ Cleared(r.entry) \in [Entries -> Contents]
      BY ClearedTyped DEF TypeOK, TasksOK, Leaving
    <3>. QED BY <2>3, <3>1 DEF removal_ends, RemovedOK, TypeOK, ManagerOK, TasksOK
  <2>. QED BY <2>1, <2>2, <2>3 DEF Remove
<1>. QED BY <1>1, <1>2 DEF RemovedOK, TypeOK, WhatOK, FilesOK, ManagerOK, ImportersOK, TasksOK, EventsOK, HistoryOK,
     what, files, importers

LEMMA TypesDel ==
  ASSUME TypeOK, NEW e \in Entries, del_entry(e)
  PROVE  TypeOK'
<1>1. ManagerOK'
  BY NewEntryTyped DEF del_entry, TypeOK, ManagerOK
<1>. QED BY <1>1 DEF del_entry, TypeOK, WhatOK, FilesOK, ImportersOK, TasksOK, EventsOK, HistoryOK,
     what, files, importers, tasks

(* A closed document: those who refer to it keep its last text. *)
LEMMA ClosedTyped ==
  ASSUME TypeOK, NEW c, close_document(c)
  PROVE  /\ entry' \in [Entries -> Contents]
         /\ \A e \in Entries : /\ entry'[e].refs = entry[e].refs /\ entry'[e].pinned = entry[e].pinned
                               /\ entry'[e].watched = entry[e].watched
                               /\ entry[e].doc # None => entry'[e].doc # None
<1>1. CASE UNCHANGED entry
  BY <1>1 DEF TypeOK, ManagerOK
<1>2. CASE entry' = [e \in Entries |->
                       IF entry[e].doc = Shared
                       THEN [entry[e] EXCEPT !.doc = [live |-> FALSE, at |-> text]] ELSE entry[e]]
  <2>. DEFINE d == [live |-> FALSE, at |-> text]
  <2>1. d \in [live : BOOLEAN, at : Texts]
    BY DEF TypeOK, FilesOK
  <2>2. d \in Documents /\ d # None
    BY <2>1, ImportsAssumption DEF Documents, Texts
  <2>. HIDE DEF d
  <2>3. SUFFICES ASSUME NEW e \in Entries
                 PROVE  /\ entry'[e] \in Contents
                        /\ entry'[e].refs = entry[e].refs /\ entry'[e].pinned = entry[e].pinned
                        /\ entry'[e].watched = entry[e].watched
                        /\ entry[e].doc # None => entry'[e].doc # None
    BY <1>2
  <2>4. entry[e] \in Contents /\ entry'[e] = IF entry[e].doc = Shared THEN [entry[e] EXCEPT !.doc = d] ELSE entry[e]
    BY <1>2 DEF TypeOK, ManagerOK, d
  <2>. QED BY <2>2, <2>4 DEF Contents
<1>. QED BY <1>1, <1>2 DEF close_document

LEMMA TypesClose ==
  ASSUME TypeOK, NEW c \in closings, close_document(c)
  PROVE  TypeOK'
<1>1. entry' \in [Entries -> Contents]
  BY ClosedTyped
<1>2. closings' \subseteq (Importers \union {None}) \X Closings
  <2>1. \A d \in closings : <<d[1], "old">> \in (Importers \union {None}) \X Closings
    BY DEF TypeOK, TasksOK, Closings
  <2>. QED BY <2>1 DEF close_document, TypeOK, TasksOK
<1>3. finals' \in [Importers -> SUBSET Closings] /\ drefs' \subseteq Importers /\ text' \in Texts /\ versioned' \in BOOLEAN
  <2>1. finals' = [i \in Importers |-> IF finals[i] = {} THEN {} ELSE {"old"}] \/ finals' = finals
    BY DEF close_document
  <2>2. finals' \in [Importers -> SUBSET Closings]
    BY <2>1 DEF TypeOK, FilesOK, Closings
  <2>3. drefs' \in {{}, drefs} /\ text' \in {None, text} /\ versioned' = FALSE
    BY DEF close_document
  <2>. QED BY <2>2, <2>3 DEF TypeOK, FilesOK, Texts
<1>4. UNCHANGED <<what, source, latest, opened, table, registered, listening, importers, events, removals,
                  notices, count, missed, unheard>>
  BY DEF close_document
<1>. QED BY <1>1, <1>2, <1>3, <1>4 DEF TypeOK, WhatOK, FilesOK, ManagerOK, ImportersOK, TasksOK, EventsOK, HistoryOK,
     what, importers

(* A step is one of these. *)
Steps_ ==
  \/ \E i \in Importers :
       \/ \E e \in Entries : get_entry(i, e)
       \/ get_locked_document(i)
       \/ find_file(i) \/ load_library(i) \/ update_library(i) \/ load_fails(i) \/ add_file_watchers(i)
       \/ get_resource_entry(i) \/ initialized(i) \/ cancel(i)
       \/ drop_import(i)
       \/ \E n \in notices : imports_changed(i, n[2])
  \/ \E h \in events : Handle(h)
  \/ \E r \in removals : Remove(r)
  \/ \E c \in closings : close_document(c)
  \/ \E e \in Entries : del_entry(e)
  \/ change_file \/ other_watch \/ did_open \/ did_change \/ did_save \/ did_close

LEMMA NextIs == Next => Steps_
BY DEF Next, Work, Environment, Import, Steps_

LEMMA TypesStep ==
  ASSUME TypeOK, LocksOK, [Next]_vars
  PROVE  TypeOK'
<1>1. CASE UNCHANGED vars
  BY <1>1 DEF vars, what, files, manager, importers, tasks, TypeOK, WhatOK, FilesOK, ManagerOK, ImportersOK,
     TasksOK, EventsOK, HistoryOK
<1>2. CASE Next
  BY <1>2, NextIs, TypesGetEntry, TypesLocked, TypesImport, TypesDrop, TypesChanged, TypesHandle, TypesRemove,
     TypesClose, TypesDel, TypesOutside DEF Steps_
<1>. QED BY <1>1, <1>2

-----------------------------------------------------------------------------
(* A lock is held once.                                                    *)
LEMMA FreeTable ==
  ASSUME ~TableLocked
  PROVE  /\ \A i \in Importers : ~Imports_(i)
         /\ \A h \in events : ~Handled(h)
         /\ \A r \in removals : ~Removed(r)
BY DEF TableLocked, Imports_, Handled, Removed

LEMMA FreeEntry ==
  ASSUME NEW e, ~EntryLocked(e)
  PROVE  /\ \A i \in Importers : ImportsEntry(i) => mine[i] # e
         /\ \A h \in events : h.pc = "unwatch" => h.entry # e
         /\ \A r \in removals : r.pc = "unwatch" => r.entry # e
BY DEF EntryLocked, ImportsEntry

LEMMA FreeIfNotBusy ==
  ASSUME NEW e, ~EntryBusy(e)
  PROVE  ~EntryLocked(e)
BY DEF EntryBusy

(* An import goes on without a lock that it did not have. *)
LEMMA LocksImporter ==
  ASSUME LocksOK, NEW i \in Importers, kind' = kind, events' = events,
         \A j \in Importers \ {i} : pc'[j] = pc[j] /\ mine'[j] = mine[j],
         ImportsEntry(i)' => ImportsEntry(i) /\ mine'[i] = mine[i],
         Imports_(i)' => Imports_(i),
         pc'[i] \in {"loading", "loaded"} => kind = "library",
         \A r \in removals' : r \in removals \/ r.pc = "posted",
         kind = "library" => \A h \in events : h.pc = "unwatch" => entry'[h.entry].doc # None
  PROVE  LocksOK'
<1>1. \A j \in Importers : Imports_(j)' => Imports_(j)
  BY DEF Imports_
<1>2. \A j \in Importers : ImportsEntry(j)' => ImportsEntry(j) /\ mine'[j] = mine[j]
  BY DEF ImportsEntry
<1>3. TableLockedOnce'
  BY <1>1 DEF LocksOK, TableLockedOnce, Handled, Removed
<1>4. EntryLockedOnce'
  BY <1>2 DEF LocksOK, EntryLockedOnce
<1>5. Filled'
  BY DEF Filled
<1>6. KindOK'
  BY DEF LocksOK, KindOK
<1>. QED BY <1>3, <1>4, <1>5, <1>6 DEF LocksOK

(* A handler begins, goes on or ends. *)
LEMMA LocksHandler ==
  ASSUME TypeOK, LocksOK, NEW h \in events, kind' = kind, pc' = pc, mine' = mine, removals' = removals,
         Handled(h) \/ ~TableLocked, NEW g, events' \in {Others(h), Others(h) \union {g}},
         g.pc = "unwatch" => ~EntryLocked(g.entry) /\ (kind = "library" => entry'[g.entry].doc # None),
         g.pc \in {"libdoc", "reload"} => kind = "resource"
  PROVE  LocksOK'
<1>1. \A f \in Others(h) : ~Handled(f)
  <2>1. CASE Handled(h)
    BY <2>1 DEF Others, LocksOK, TableLockedOnce
  <2>2. CASE ~TableLocked
    BY <2>2, FreeTable DEF Others
  <2>. QED BY <2>1, <2>2
<1>2. \A f \in events' : Handled(f) => f = g
  BY <1>1
<1>3. (\A i \in Importers : ~Imports_(i)) /\ (\A r \in removals : ~Removed(r))
  <2>1. CASE Handled(h)
    BY <2>1 DEF LocksOK, TableLockedOnce
  <2>2. CASE ~TableLocked
    BY <2>2, FreeTable
  <2>. QED BY <2>1, <2>2
<1>4. TableLockedOnce'
  BY <1>2, <1>3 DEF TableLockedOnce, Handled, Removed, Imports_
<1>5. \A f \in events' : f.pc \in {"unwatch", "libdoc", "reload"} => f = g
  BY <1>2 DEF Handled
<1>6. \A i \in Importers : ImportsEntry(i) /\ g.pc = "unwatch" => mine[i] # g.entry
  BY FreeEntry
<1>7. EntryLockedOnce'
  BY <1>5, <1>6 DEF LocksOK, EntryLockedOnce, ImportsEntry
<1>8. Filled' /\ KindOK'
  BY <1>5 DEF LocksOK, Filled, KindOK
<1>. QED BY <1>4, <1>7, <1>8 DEF LocksOK

(* So does a removal. *)
LEMMA LocksRemoval ==
  ASSUME TypeOK, LocksOK, NEW r \in removals, kind' = kind, pc' = pc, mine' = mine, events' = events,
         NEW q, removals' \in {removals \ {r}, (removals \ {r}) \union {q}},
         Removed(q) \/ entry' # entry => Removed(r) \/ ~TableLocked,
         q.pc = "unwatch" => ~EntryLocked(q.entry)
  PROVE  LocksOK'
<1>1. CASE Removed(r) \/ ~TableLocked
  <2>1. \A p \in removals \ {r} : ~Removed(p)
    BY <1>1, FreeTable DEF LocksOK, TableLockedOnce
  <2>2. (\A i \in Importers : ~Imports_(i)) /\ (\A h \in events : ~Handled(h))
    BY <1>1, FreeTable DEF LocksOK, TableLockedOnce
  <2>3. \A p \in removals' : Removed(p) => p = q
    BY <2>1
  <2>4. TableLockedOnce'
    BY <2>2, <2>3 DEF TableLockedOnce, Handled, Removed, Imports_
  <2>5. \A i \in Importers : ImportsEntry(i) /\ q.pc = "unwatch" => mine[i] # q.entry
    BY FreeEntry
  <2>6. \A p \in removals' : p.pc = "unwatch" => p = q
    BY <2>3 DEF Removed
  <2>7. EntryLockedOnce'
    BY <2>5, <2>6 DEF LocksOK, EntryLockedOnce, ImportsEntry
  <2>8. Filled' /\ KindOK'
    BY <2>2 DEF LocksOK, Filled, KindOK, Handled
  <2>. QED BY <2>4, <2>7, <2>8 DEF LocksOK
<1>2. CASE ~Removed(q) /\ entry' = entry
  <2>1. \A p \in removals' : Removed(p) => p \in removals
    BY <1>2
  <2>2. TableLockedOnce'
    BY <2>1 DEF LocksOK, TableLockedOnce, Handled, Removed, Imports_
  <2>3. \A p \in removals' : p.pc = "unwatch" => p \in removals
    BY <1>2 DEF Removed
  <2>4. EntryLockedOnce'
    BY <2>3 DEF LocksOK, EntryLockedOnce, ImportsEntry
  <2>5. Filled' /\ KindOK'
    BY <1>2 DEF LocksOK, Filled, KindOK
  <2>. QED BY <2>2, <2>4, <2>5 DEF LocksOK
<1>. QED BY <1>1, <1>2

(* The other steps: nobody gets a lock. *)
LEMMA LocksRest ==
  ASSUME LocksOK, kind' = kind, pc' = pc, mine' = mine, removals' = removals,
         \A h \in events' : h \in events \/ h.pc = "posted",
         kind = "library" => \A h \in events : h.pc = "unwatch" => entry'[h.entry].doc # None
  PROVE  LocksOK'
<1>1. \A h \in events' : Handled(h) => h \in events
  BY DEF Handled
<1>2. TableLockedOnce'
  BY <1>1 DEF LocksOK, TableLockedOnce, Handled, Removed, Imports_
<1>3. EntryLockedOnce'
  BY DEF LocksOK, EntryLockedOnce, ImportsEntry
<1>4. Filled' /\ KindOK'
  BY DEF LocksOK, Filled, KindOK
<1>. QED BY <1>2, <1>3, <1>4 DEF LocksOK

LEMMA LocksGetEntry ==
  ASSUME TypeOK, LocksOK, NEW i \in Importers, NEW e \in Entries, get_entry(i, e)
  PROVE  LocksOK'
<1>0. /\ pc[i] = "found" /\ ~TableLocked /\ mine' = [mine EXCEPT ![i] = e]
      /\ UNCHANGED <<what, tasks>>
  BY GetEntryIs
<1>1. /\ \A j \in Importers : ~Imports_(j)
      /\ \A h \in events : ~Handled(h)
      /\ \A r \in removals : ~Removed(r)
  BY <1>0, FreeTable
<1>2. /\ kind' = kind /\ events' = events /\ removals' = removals
      /\ mine'[i] = e /\ \A j \in Importers \ {i} : mine'[j] = mine[j]
  BY <1>0 DEF what, tasks, TypeOK, ImportersOK
<1>3. pc \in [Importers -> Steps]
  BY DEF TypeOK, ImportersOK
<1>4. Filled'
  BY <1>1, <1>2 DEF Filled, Handled
<1>5. CASE kind = "library"
  <2>1. get_libdoc(i, e, Asked(i, e))
    BY <1>5, GetEntryIs
  <2>2. /\ \A j \in Importers \ {i} : pc'[j] = pc[j]
        /\ pc'[i] \in {"loading", "holding"}
    BY <1>3, <2>1 DEF get_libdoc
  <2>3. \A j \in Importers : Imports_(j)' => j = i
    BY <1>1, <1>2, <2>2 DEF Imports_
  <2>4. \A j \in Importers : ImportsEntry(j)' => j = i
    BY <1>5, <2>3, <1>2 DEF ImportsEntry, Imports_
  <2>5. TableLockedOnce'
    BY <1>1, <1>2, <2>3 DEF TableLockedOnce, Handled, Removed
  <2>6. EntryLockedOnce'
    BY <1>1, <1>2, <2>4 DEF EntryLockedOnce, Handled, Removed
  <2>7. KindOK'
    BY <1>2, <1>5, <2>2 DEF LocksOK, KindOK
  <2>. QED BY <1>4, <2>5, <2>6, <2>7 DEF LocksOK
<1>6. CASE kind # "library"
  <2>1. pc'[i] \in {"entered", "watching", "computing"} /\ (pc'[i] # "entered" => ~EntryLocked(e))
        /\ \A j \in Importers \ {i} : pc'[j] = pc[j]
    <3>1. CASE EntryBusy(e)
      BY <1>3, <1>6, <3>1, GetEntryIs
    <3>2. CASE ~EntryBusy(e)
      <4>1. get_document(i, e, Asked(i, e))
        BY <1>6, <3>2, GetEntryIs
      <4>. QED BY <1>3, <3>2, <4>1, FreeIfNotBusy DEF get_document
    <3>. QED BY <3>1, <3>2
  <2>2. TableLockedOnce'
    BY <1>1, <1>2, <1>6 DEF TableLockedOnce, Imports_, Handled, Removed
  <2>3. \A j \in Importers \ {i} : ImportsEntry(j)' => ImportsEntry(j) /\ mine'[j] = mine[j]
    BY <1>2, <2>1 DEF ImportsEntry
  <2>4. ASSUME ImportsEntry(i)' PROVE \A j \in Importers \ {i} : ImportsEntry(j)' => mine'[j] # e
    BY <2>1, <2>3, <2>4, FreeEntry DEF ImportsEntry
  <2>5. EntryLockedOnce'
    <3>1. \A j, k \in Importers : ImportsEntry(j)' /\ ImportsEntry(k)' /\ mine'[j] = mine'[k] => j = k
      BY <1>2, <2>3, <2>4 DEF LocksOK, EntryLockedOnce
    <3>. QED BY <1>1, <1>2, <3>1 DEF EntryLockedOnce, Handled, Removed
  <2>6. KindOK'
    BY <1>2, <2>1 DEF LocksOK, KindOK
  <2>. QED BY <1>4, <2>2, <2>5, <2>6 DEF LocksOK
<1>. QED BY <1>5, <1>6

LEMMA LocksLocked ==
  ASSUME TypeOK, LocksOK, NEW i \in Importers, get_locked_document(i)
  PROVE  LocksOK'
<1>1. /\ pc[i] = "entered" /\ mine[i] \in Entries /\ entry \in [Entries -> Contents]
      /\ ~EntryLocked(mine[i]) /\ get_document(i, mine[i], entry)
      /\ mine' = mine /\ kind' = kind /\ events' = events /\ removals' = removals
  BY DEF get_locked_document, TypeOK, ImportersOK, ManagerOK, what, tasks
<1>2. entry'[mine[i]].doc # None /\ \A d \in Entries \ {mine[i]} : entry'[d] = entry[d]
  BY <1>1, DocumentTypes
<1>3. pc' = [pc EXCEPT ![i] = pc'[i]] /\ pc'[i] \in {"watching", "computing"}
  BY <1>1, DocumentTypes
<1>4. \A j \in Importers \ {i} : pc'[j] = pc[j]
  BY <1>3 DEF TypeOK, ImportersOK
<1>5. \A j \in Importers : Imports_(j)' => Imports_(j)
  BY <1>1, <1>3, <1>4 DEF Imports_
<1>6. TableLockedOnce'
  BY <1>1, <1>5 DEF LocksOK, TableLockedOnce, Handled, Removed
<1>7. \A j \in Importers \ {i} : ImportsEntry(j)' => ImportsEntry(j) /\ mine[j] # mine[i]
  BY <1>1, <1>4, FreeEntry DEF ImportsEntry
<1>8. EntryLockedOnce'
  <2>1. \A j, k \in Importers : ImportsEntry(j)' /\ ImportsEntry(k)' /\ mine'[j] = mine'[k] => j = k
    BY <1>1, <1>7 DEF LocksOK, EntryLockedOnce
  <2>2. \A h \in events : h.pc = "unwatch" => h.entry # mine[i]
    BY <1>1, FreeEntry
  <2>3. \A r \in removals : r.pc = "unwatch" => r.entry # mine[i]
    BY <1>1, FreeEntry
  <2>4. ASSUME NEW j \in Importers, ImportsEntry(j)'
        PROVE  /\ \A h \in events : h.pc = "unwatch" => mine[j] # h.entry
               /\ \A r \in removals : r.pc = "unwatch" => mine[j] # r.entry
    <3>1. CASE j = i
      BY <3>1, <2>2, <2>3
    <3>2. CASE j # i
      BY <3>2, <2>4, <1>7 DEF LocksOK, EntryLockedOnce
    <3>. QED BY <3>1, <3>2
  <2>. QED BY <1>1, <2>1, <2>4 DEF EntryLockedOnce
<1>9. Filled'
  <2>1. \A h \in events : h.pc = "unwatch" => h.entry \in Entries
    BY DEF TypeOK, TasksOK, EventsOK
  <2>. QED BY <2>1, <1>1, <1>2 DEF LocksOK, Filled
<1>10. KindOK'
  BY <1>1, <1>3, <1>4 DEF LocksOK, KindOK
<1>. QED BY <1>6, <1>8, <1>9, <1>10 DEF LocksOK

LEMMA LocksImport ==
  ASSUME TypeOK, LocksOK, NEW i \in Importers,
         \/ find_file(i) \/ load_library(i) \/ update_library(i) \/ load_fails(i) \/ add_file_watchers(i)
         \/ get_resource_entry(i) \/ initialized(i) \/ cancel(i)
  PROVE  LocksOK'
<1>1. kind' = kind /\ events' = events /\ removals' = removals
      /\ pc \in [Importers -> Steps] /\ mine \in [Importers -> Entries \union {None}]
  BY DEF find_file, load_library, update_library, load_fails, add_file_watchers, get_resource_entry,
     initialized, cancel, what, tasks, TypeOK, ImportersOK
<1>2. \A j \in Importers \ {i} : pc'[j] = pc[j] /\ mine'[j] = mine[j]
  BY <1>1 DEF find_file, load_library, update_library, load_fails, add_file_watchers, get_resource_entry,
     initialized, cancel
<1>3. \/ pc'[i] \in {"idle", "found", "ready", "holding", "computing"}
      \/ pc'[i] = "loaded" /\ pc[i] = "loading" /\ mine' = mine
      \/ pc'[i] = "watching" /\ pc[i] = "loaded" /\ mine' = mine
  BY <1>1 DEF find_file, load_library, update_library, load_fails, add_file_watchers, get_resource_entry,
     initialized, cancel
<1>4. kind = "library" => \A h \in events : h.pc = "unwatch" => entry'[h.entry].doc # None
  <2>1. kind = "library" => \A h \in events : h.pc = "unwatch" => entry[h.entry].doc # None /\ h.entry \in Entries
    BY DEF LocksOK, Filled, TypeOK, TasksOK, EventsOK
  <2>2. CASE update_library(i)
    <3>1. /\ entry' = [entry EXCEPT ![mine[i]].doc = [live |-> FALSE, at |-> seen[i]]]
          /\ pc[i] = "loaded" /\ mine[i] \in Entries
      BY <2>2 DEF update_library, TypeOK, ImportersOK
    <3>2. \A h \in events : h.pc = "unwatch" => mine[i] # h.entry
      BY <3>1 DEF LocksOK, EntryLockedOnce, ImportsEntry
    <3>. QED BY <2>1, <3>1, <3>2 DEF TypeOK, ManagerOK
  <2>3. CASE add_file_watchers(i)
    <3>1. entry' = [entry EXCEPT ![mine[i]].watched = TRUE] /\ pc[i] = "watching" /\ mine[i] \in Entries
      BY <2>3 DEF add_file_watchers, TypeOK, ImportersOK
    <3>2. \A h \in events : h.pc = "unwatch" => mine[i] # h.entry
      BY <3>1 DEF LocksOK, EntryLockedOnce, ImportsEntry
    <3>. QED BY <2>1, <3>1, <3>2 DEF TypeOK, ManagerOK
  <2>. QED BY <2>1, <2>2, <2>3 DEF find_file, load_library, load_fails, get_resource_entry, initialized, cancel, manager
<1>5. ImportsEntry(i)' => ImportsEntry(i) /\ mine'[i] = mine[i]
  BY <1>3 DEF ImportsEntry
<1>6. Imports_(i)' => Imports_(i)
  BY <1>1, <1>3 DEF Imports_
<1>7. pc'[i] \in {"loading", "loaded"} => kind = "library"
  BY <1>3 DEF LocksOK, KindOK
<1>. QED BY <1>1, <1>2, <1>4, <1>5, <1>6, <1>7, LocksImporter

(* What a handler that goes on becomes, if it is not over. *)
Goes(h, g) == events' \in {Others(h), Others(h) \union {g}}
Next_(h, g) ==
  /\ Goes(h, g)
  /\ g.pc = "unwatch" => ~EntryLocked(g.entry) /\ (kind = "library" => entry'[g.entry].doc # None)
  /\ g.pc \in {"libdoc", "reload"} => kind = "resource"

LEMMA FinishGoes ==
  ASSUME NEW h, Finish(h)
  PROVE  \E g : Next_(h, g)
<1>. DEFINE g == [pc |-> "over"]
<1>1. Next_(h, g)
  BY DEF Finish, Next_, Goes
<1>. QED BY <1>1

LEMMA BecomeGoes ==
  ASSUME NEW h \in Handlers, NEW s \in {"check", "libdoc", "unwatch", "reload"}, Become(h, s),
         s = "unwatch" => ~EntryLocked(h.entry) /\ (kind = "library" => entry'[h.entry].doc # None),
         s \in {"libdoc", "reload"} => kind = "resource"
  PROVE  \E g : Next_(h, g)
<1>. DEFINE g == [h EXCEPT !.pc = s]
<1>1. g.pc = s /\ g.entry = h.entry
  BY DEF Handlers
<1>2. events' = Others(h) \union {g}
  BY DEF Become
<1>. HIDE DEF g
<1>3. Next_(h, g)
  BY <1>1, <1>2 DEF Next_, Goes
<1>. QED BY <1>3

LEMMA InvalidatedGoes ==
  ASSUME NEW h \in Handlers, Invalidated(h)
  PROVE  \E g : Next_(h, g)
<1>1. CASE h.type = "file" /\ kind = "resource"
  BY <1>1, BecomeGoes DEF Invalidated
<1>2. CASE ~(h.type = "file" /\ kind = "resource")
  BY <1>2, FinishGoes DEF Invalidated
<1>. QED BY <1>1, <1>2

LEMMA InvalidateGoes ==
  ASSUME NEW h \in Handlers, Invalidate(h), ~EntryLocked(h.entry),
         kind = "library" => entry[h.entry].doc # None
  PROVE  \E g : Next_(h, g)
<1>1. CASE h.type = "file" /\ IgnoresFile(h.entry)
  BY <1>1, FinishGoes DEF Invalidate
<1>2. CASE ~(h.type = "file" /\ IgnoresFile(h.entry)) /\ entry[h.entry].watched
  BY <1>2, BecomeGoes DEF Invalidate
<1>3. CASE ~(h.type = "file" /\ IgnoresFile(h.entry)) /\ ~entry[h.entry].watched
  BY <1>3, InvalidatedGoes DEF Invalidate
<1>. QED BY <1>1, <1>2, <1>3

LEMMA CheckGoes ==
  ASSUME TypeOK, NEW h \in Handlers, CheckValid(h), ~EntryLocked(h.entry)
  PROVE  \E g : Next_(h, g)
<1>1. CASE entry[h.entry].doc = None
  BY <1>1, FinishGoes DEF CheckValid
<1>2. CASE entry[h.entry].doc # None /\ kind = "library"
  BY <1>2, InvalidateGoes DEF CheckValid
<1>3. CASE entry[h.entry].doc # None /\ kind # "library"
  BY <1>3, BecomeGoes DEF CheckValid, TypeOK, WhatOK
<1>. QED BY <1>1, <1>2, <1>3

LEMMA LocksHandle ==
  ASSUME TypeOK, LocksOK, NEW h \in events, Handle(h)
  PROVE  LocksOK'
<1>1. h \in Handlers
  BY DEF TypeOK, TasksOK, EventsOK
<1>2. kind' = kind /\ pc' = pc /\ mine' = mine /\ removals' = removals
  BY DEF Handle, handler_starts, handler_checks, handler_invalidates, unwatched, reload, what, importers
<1>3. Handled(h) \/ ~TableLocked
  BY DEF Handle, handler_starts, handler_checks, handler_invalidates, unwatched, reload, Handled
<1>4. \E g : Next_(h, g)
  <2>1. CASE handler_starts(h)
    <3>1. CASE table = None
      BY <2>1, <3>1, FinishGoes DEF handler_starts
    <3>2. CASE table # None
      <4>. DEFINE k == [h EXCEPT !.entry = table]
      <4>1. k \in Handlers /\ k.entry = table /\ k.id = h.id
        BY <1>1, <3>2 DEF Handlers, TypeOK, ManagerOK
      <4>2. IF EntryBusy(table)
            THEN Become(k, "check") /\ UNCHANGED <<entry, registered, listening, closings, notices>>
            ELSE CheckValid(k)
        BY <2>1, <3>2 DEF handler_starts
      <4>. HIDE DEF k
      <4>3. \E g : Next_(k, g)
        BY <4>1, <4>2, BecomeGoes, CheckGoes, FreeIfNotBusy
      <4>4. Others(k) = Others(h)
        BY <4>1 DEF Others
      <4>. QED BY <4>3, <4>4 DEF Next_, Goes
    <3>. QED BY <3>1, <3>2
  <2>2. CASE handler_checks(h)
    BY <2>2, <1>1, CheckGoes, FreeIfNotBusy DEF handler_checks
  <2>3. CASE handler_invalidates(h)
    BY <2>3, <1>1, InvalidateGoes, FreeIfNotBusy DEF handler_invalidates, LocksOK, KindOK
  <2>4. CASE unwatched(h)
    BY <2>4, <1>1, InvalidatedGoes DEF unwatched
  <2>5. CASE reload(h)
    BY <2>5, FinishGoes DEF reload
  <2>. QED BY <2>1, <2>2, <2>3, <2>4, <2>5 DEF Handle
<1>5. PICK g : Next_(h, g)
  BY <1>4
<1>. QED BY <1>2, <1>3, <1>5, LocksHandler DEF Next_, Goes

(* And a removal. *)
Goes_(r, q) ==
  /\ removals' \in {removals \ {r}, (removals \ {r}) \union {q}}
  /\ Removed(q) \/ entry' # entry => Removed(r) \/ ~TableLocked
  /\ q.pc = "unwatch" => ~EntryLocked(q.entry)

LEMMA RemovalGoes ==
  ASSUME TypeOK, NEW r \in removals, NEW s \in {"waiting", "invalidate", "unwatch"}, Removal(r, s),
         s # "waiting" \/ entry' # entry => Removed(r) \/ ~TableLocked,
         s = "unwatch" => ~EntryLocked(r.entry)
  PROVE  \E q : Goes_(r, q)
<1>. DEFINE q == [r EXCEPT !.pc = s]
<1>1. q.pc = s /\ q.entry = r.entry
  BY DEF TypeOK, TasksOK, Leaving
<1>2. removals' = (removals \ {r}) \union {q}
  BY DEF Removal
<1>. HIDE DEF q
<1>3. Goes_(r, q)
  BY <1>1, <1>2 DEF Goes_, Removed
<1>. QED BY <1>3

LEMMA GoneGoes ==
  ASSUME NEW r, removals' = removals \ {r}, entry' # entry => Removed(r) \/ ~TableLocked
  PROVE  \E q : Goes_(r, q)
<1>. DEFINE q == [pc |-> "over"]
<1>1. Goes_(r, q)
  BY DEF Goes_, Removed
<1>. QED BY <1>1

LEMMA RemovingGoes ==
  ASSUME TypeOK, NEW r \in removals, Removing(r), Removed(r) \/ ~TableLocked
  PROVE  \E q : Goes_(r, q)
<1>1. CASE kind = "resource" /\ table = None
  BY <1>1, GoneGoes DEF Removing
<1>2. CASE ~(kind = "resource" /\ table = None) /\ EntryBusy(r.entry)
  BY <1>2, RemovalGoes, FreeIfNotBusy DEF Removing
<1>3. CASE ~(kind = "resource" /\ table = None) /\ ~EntryBusy(r.entry) /\ entry[r.entry].watched
  BY <1>3, RemovalGoes, FreeIfNotBusy DEF Removing
<1>4. CASE ~(kind = "resource" /\ table = None) /\ ~EntryBusy(r.entry) /\ ~entry[r.entry].watched
  BY <1>4, GoneGoes DEF Removing
<1>. QED BY <1>1, <1>2, <1>3, <1>4

LEMMA LocksRemove ==
  ASSUME TypeOK, LocksOK, NEW r \in removals, Remove(r)
  PROVE  LocksOK'
<1>1. kind' = kind /\ pc' = pc /\ mine' = mine /\ events' = events
  BY DEF Remove, removal_starts, removal_locks, removal_ends, what, importers
<1>2. \E q : Goes_(r, q)
  <2>1. CASE removal_starts(r)
    <3>1. CASE entry[r.entry].refs # {}
      BY <2>1, <3>1, GoneGoes DEF removal_starts
    <3>2. CASE entry[r.entry].refs = {} /\ TableLocked
      BY <2>1, <3>2, RemovalGoes DEF removal_starts
    <3>3. CASE entry[r.entry].refs = {} /\ ~TableLocked
      BY <2>1, <3>3, RemovingGoes DEF removal_starts
    <3>. QED BY <3>1, <3>2, <3>3
  <2>2. CASE removal_locks(r)
    BY <2>2, RemovingGoes DEF removal_locks, Removed
  <2>3. CASE removal_ends(r)
    BY <2>3, GoneGoes DEF removal_ends, Removed
  <2>. QED BY <2>1, <2>2, <2>3 DEF Remove
<1>3. PICK q : Goes_(r, q)
  BY <1>2
<1>. QED BY <1>1, <1>3, LocksRemoval DEF Goes_

LEMMA LocksEnds ==
  ASSUME TypeOK, LocksOK, NEW i \in Importers, drop_import(i) \/ \E p : imports_changed(i, p)
  PROVE  LocksOK'
<1>1. kind' = kind /\ events' = events
  BY DEF drop_import, imports_changed, what
<1>2. \/ pc'[i] = "idle"
      \/ pc' = pc /\ mine' = mine
  BY DEF drop_import, imports_changed, TypeOK, ImportersOK
<1>3. \A j \in Importers \ {i} : pc'[j] = pc[j] /\ mine'[j] = mine[j]
  BY DEF drop_import, imports_changed, TypeOK, ImportersOK
<1>4. \A r \in removals' : r \in removals \/ r.pc = "posted"
  <2>1. CASE drop_import(i)
    <3>1. removals' = removals \union {[by |-> i, entry |-> e, pc |-> "posted"] :
                                        e \in {d \in Entries : i \in entry[d].refs}}
      BY <2>1 DEF drop_import
    <3>. QED BY <3>1
  <2>2. CASE \E p : imports_changed(i, p)
    BY <2>2 DEF imports_changed
  <2>. QED BY <2>1, <2>2
<1>5. kind = "library" => \A h \in events : h.pc = "unwatch" => entry'[h.entry].doc # None
  <2>1. \A h \in events : h.pc = "unwatch" => h.entry \in Entries
    BY DEF TypeOK, TasksOK, EventsOK
  <2>2. \A e \in Entries : entry'[e].doc = entry[e].doc
    <3>1. CASE drop_import(i)
      BY <3>1, DroppedTyped DEF drop_import
    <3>2. CASE \E p : imports_changed(i, p)
      BY <3>2 DEF imports_changed, manager
    <3>. QED BY <3>1, <3>2
  <2>. QED BY <2>1, <2>2 DEF LocksOK, Filled
<1>6. ImportsEntry(i)' => ImportsEntry(i) /\ mine'[i] = mine[i]
  BY <1>2 DEF ImportsEntry
<1>7. Imports_(i)' => Imports_(i)
  BY <1>1, <1>2 DEF Imports_
<1>8. pc'[i] \in {"loading", "loaded"} => kind = "library"
  BY <1>2 DEF LocksOK, KindOK
<1>. QED BY <1>1, <1>3, <1>4, <1>5, <1>6, <1>7, <1>8, LocksImporter

LEMMA LocksElse ==
  ASSUME TypeOK, LocksOK,
         \/ \E e \in Entries : del_entry(e)
         \/ \E c \in closings : close_document(c)
         \/ change_file \/ other_watch \/ did_open \/ did_change \/ did_save \/ did_close
  PROVE  LocksOK'
<1>1. kind' = kind /\ pc' = pc /\ mine' = mine /\ removals' = removals
  BY DEF del_entry, close_document, change_file, other_watch, did_open, did_change, did_save, did_close,
     what, importers, tasks
<1>2. \A h \in events' : h \in events \/ h.pc = "posted"
  BY DEF del_entry, close_document, change_file, other_watch, did_open, did_change, did_save, did_close,
     Happens, tasks
<1>3. kind = "library" => \A h \in events : h.pc = "unwatch" => entry'[h.entry].doc # None
  <2>1. \A h \in events : h.pc = "unwatch" => h.entry \in Entries
    BY DEF TypeOK, TasksOK, EventsOK
  <2>2. CASE \E e \in Entries : del_entry(e)
    BY <2>1, <2>2 DEF del_entry, Unused, TypeOK, ManagerOK, LocksOK, Filled
  <2>3. CASE \E c \in closings : close_document(c)
    BY <2>1, <2>3, ClosedTyped DEF LocksOK, Filled
  <2>4. CASE entry' = entry
    BY <2>4 DEF LocksOK, Filled
  <2>. QED BY <2>2, <2>3, <2>4 DEF change_file, other_watch, did_open, did_change, did_save, did_close, manager
<1>. QED BY <1>1, <1>2, <1>3, LocksRest

LEMMA LocksStep ==
  ASSUME TypeOK, LocksOK, [Next]_vars
  PROVE  LocksOK'
<1>1. CASE UNCHANGED vars
  BY <1>1, LocksRest DEF vars, what, files, manager, importers, tasks, LocksOK, Filled
<1>2. CASE Next
  <2>1. Steps_
    BY <1>2, NextIs
  <2>. QED BY <2>1, LocksGetEntry, LocksLocked, LocksImport, LocksHandle, LocksRemove, LocksEnds, LocksElse DEF Steps_
<1>. QED BY <1>1, <1>2

LEMMA LocksInit ==
  ASSUME Init
  PROVE  LocksOK
BY DEF Init, LocksOK, TableLockedOnce, EntryLockedOnce, Filled, KindOK, Imports_, ImportsEntry

(* The state of the manager, of the importers and of the tasks is typed, and a task *)
(* that works with an entry knows which one.                                        *)
THEOREM TypesAreKept == Spec => []TypeOK
<1>1. Init => TypeOK /\ LocksOK
  BY TypesInit, LocksInit
<1>2. TypeOK /\ LocksOK /\ [Next]_vars => (TypeOK /\ LocksOK)'
  BY TypesStep, LocksStep
<1>. QED BY <1>1, <1>2, PTL DEF Spec

(* The locks, which follow from where the tasks are: the lock of the table and that of *)
(* an entry are held by one task at a time.                                            *)
THEOREM LocksAreHeldOnce == Spec => [](TableLockedOnce /\ EntryLockedOnce)
<1>1. Init => TypeOK /\ LocksOK
  BY TypesInit, LocksInit
<1>2. TypeOK /\ LocksOK /\ [Next]_vars => (TypeOK /\ LocksOK)'
  BY TypesStep, LocksStep
<1>3. LocksOK => TableLockedOnce /\ EntryLockedOnce
  BY DEF LocksOK
<1>. QED BY <1>1, <1>2, <1>3, PTL DEF Spec

-----------------------------------------------------------------------------
(* An entry that nobody imports is leaving.                                *)
LEMMA UnusedKept ==
  ASSUME UnusedIsLeaving, table' \in {table, None},
         \A e \in Entries : entry'[e].refs = entry[e].refs /\ entry'[e].pinned = entry[e].pinned,
         table' # None => \A r \in removals : entry[r.entry].refs # {} \/ \E q \in removals' : q.entry = r.entry
  PROVE  UnusedIsLeaving'
BY ImportsAssumption DEF UnusedIsLeaving

LEMMA UnusedGetEntry ==
  ASSUME TypeOK, UnusedIsLeaving, NEW i \in Importers, NEW e \in Entries, get_entry(i, e)
  PROVE  UnusedIsLeaving'
<1>1. /\ IF table = None THEN Unused(e) /\ entry[e] = NewEntry ELSE e = table
      /\ table' = e /\ UNCHANGED removals
  BY GetEntryIs DEF tasks
<1>2. /\ Asked(i, e) \in [Entries -> Contents]
      /\ Asked(i, e)[e].pinned = IF table = None THEN i \in defaults ELSE entry[e].pinned
      /\ Asked(i, e)[e].refs \in {entry[e].refs, entry[e].refs \union {i}}
      /\ ~Asked(i, e)[e].pinned /\ i \notin defaults => i \in Asked(i, e)[e].refs
  BY AskedTypes
<1>3. entry'[e].refs = Asked(i, e)[e].refs /\ entry'[e].pinned = Asked(i, e)[e].pinned
  <2>1. CASE get_document(i, e, Asked(i, e))
    BY <2>1, <1>2, DocumentTypes
  <2>. QED BY <2>1, GetEntryIs DEF get_libdoc
<1>4. SUFFICES ASSUME entry'[e].refs = {}, ~entry'[e].pinned
               PROVE  \E r \in removals : r.entry = e
  BY <1>1 DEF UnusedIsLeaving
<1>5. table = e /\ entry[e].refs = {} /\ ~entry[e].pinned
  BY <1>1, <1>2, <1>3, <1>4
<1>. QED BY <1>5 DEF UnusedIsLeaving

LEMMA UnusedDrop ==
  ASSUME TypeOK, UnusedIsLeaving, NEW i \in Importers, drop_import(i)
  PROVE  UnusedIsLeaving'
<1>1. \A e \in Entries : entry'[e].refs = entry[e].refs \ {i} /\ entry'[e].pinned = entry[e].pinned
  BY DroppedTyped DEF drop_import
<1>2. /\ removals' = removals \union {[by |-> i, entry |-> e, pc |-> "posted"] :
                                        e \in {d \in Entries : i \in entry[d].refs}}
      /\ table' = table
  BY DEF drop_import
<1>3. \A e \in Entries : i \in entry[e].refs => \E r \in removals' : r.entry = e
  <2>1. SUFFICES ASSUME NEW e \in Entries, i \in entry[e].refs
                 PROVE  \E r \in removals' : r.entry = e
    OBVIOUS
  <2>2. [by |-> i, entry |-> e, pc |-> "posted"] \in removals'
    BY <1>2, <2>1
  <2>. QED BY <2>2
<1>. QED BY <1>1, <1>2, <1>3 DEF UnusedIsLeaving

(* A removal that goes away finds the entry referred to, or clears the table. *)
LEMMA UnusedRemove ==
  ASSUME TypeOK, UnusedIsLeaving, NEW r \in removals, Remove(r)
  PROVE  UnusedIsLeaving'
<1>1. r \in Leaving /\ r.entry \in Entries
  BY DEF TypeOK, TasksOK, Leaving
<1>2. table' \in {table, None} /\ (entry' = entry \/ entry' = Cleared(r.entry))
  BY DEF Remove, removal_starts, removal_locks, removal_ends, Removing
<1>3. \A e \in Entries : entry'[e].refs = entry[e].refs /\ entry'[e].pinned = entry[e].pinned
  BY <1>1, <1>2, ClearedTyped
<1>4. \/ table' = None
      \/ entry[r.entry].refs # {} /\ removals' = removals \ {r}
      \/ \E s : Removal(r, s)
  BY DEF Remove, removal_starts, removal_locks, removal_ends, Removing
<1>5. ASSUME table' # None, NEW p \in removals
      PROVE  entry[p.entry].refs # {} \/ \E q \in removals' : q.entry = p.entry
  <2>1. CASE p # r
    BY <2>1, <1>4, <1>5 DEF Removal
  <2>2. CASE p = r /\ entry[r.entry].refs = {}
    <3>1. PICK s : Removal(r, s)
      BY <2>2, <1>4, <1>5
    <3>2. [r EXCEPT !.pc = s].entry = r.entry
      BY <1>1 DEF Leaving
    <3>. QED BY <2>2, <3>1, <3>2 DEF Removal
  <2>. QED BY <2>1, <2>2
<1>. QED BY <1>2, <1>3, <1>5, UnusedKept

LEMMA UnusedHandle ==
  ASSUME TypeOK, UnusedIsLeaving, NEW h \in events, Handle(h)
  PROVE  UnusedIsLeaving'
<1>1. h.pc # "posted" => h.entry \in Entries
  BY DEF TypeOK, TasksOK, EventsOK
<1>2. table' = table /\ removals' = removals
  BY DEF Handle, handler_starts, handler_checks, handler_invalidates, unwatched, reload
<1>3. \/ entry' = entry
      \/ \E e \in Entries : entry' = Cleared(e)
      \/ \E e \in Entries : \E b : entry' = [entry EXCEPT ![e].doc = Shared, ![e].watched = b]
  <2>1. CASE handler_starts(h)
    <3>1. table # None => table \in Entries /\ h \in Handlers
      BY DEF TypeOK, ManagerOK, TasksOK, EventsOK
    <3>2. table # None => [h EXCEPT !.entry = table].entry = table
      BY <3>1 DEF Handlers
    <3>. QED BY <2>1, <3>1, <3>2 DEF handler_starts, CheckValid, Invalidate
  <2>2. CASE ~handler_starts(h)
    BY <1>1, <2>2 DEF Handle, handler_checks, handler_invalidates, unwatched, reload, CheckValid, Invalidate
  <2>. QED BY <2>1, <2>2
<1>4. \A e \in Entries : entry'[e].refs = entry[e].refs /\ entry'[e].pinned = entry[e].pinned
  <2>1. CASE \E e \in Entries : entry' = Cleared(e)
    BY <2>1, ClearedTyped
  <2>2. CASE \E e \in Entries : \E b : entry' = [entry EXCEPT ![e].doc = Shared, ![e].watched = b]
    BY <2>2 DEF TypeOK, ManagerOK, Contents
  <2>. QED BY <1>3, <2>1, <2>2
<1>. QED BY <1>2, <1>4, UnusedKept

LEMMA UnusedImport ==
  ASSUME TypeOK, UnusedIsLeaving, NEW i \in Importers,
         \/ get_locked_document(i)
         \/ find_file(i) \/ load_library(i) \/ update_library(i) \/ load_fails(i) \/ add_file_watchers(i)
         \/ get_resource_entry(i) \/ initialized(i) \/ cancel(i)
         \/ \E p : imports_changed(i, p)
  PROVE  UnusedIsLeaving'
<1>1. table' = table /\ removals' = removals
  BY DEF get_locked_document, find_file, load_library, update_library, load_fails, add_file_watchers,
     get_resource_entry, initialized, cancel, imports_changed, manager, tasks
<1>2. pc[i] \in {"entered", "loaded", "watching"} => mine[i] \in Entries
  BY DEF TypeOK, ImportersOK
<1>3. \A e \in Entries : entry'[e].refs = entry[e].refs /\ entry'[e].pinned = entry[e].pinned
  <2>1. CASE get_locked_document(i)
    BY <2>1, <1>2, DocumentTypes DEF get_locked_document, TypeOK, ManagerOK
  <2>2. CASE update_library(i) \/ add_file_watchers(i)
    BY <2>2, <1>2 DEF update_library, add_file_watchers, TypeOK, ManagerOK, Contents
  <2>. QED BY <2>1, <2>2 DEF find_file, load_library, load_fails, get_resource_entry, initialized, cancel,
     imports_changed, manager
<1>. QED BY <1>1, <1>3, UnusedKept

LEMMA UnusedElse ==
  ASSUME TypeOK, UnusedIsLeaving,
         \/ \E c \in closings : close_document(c)
         \/ change_file \/ other_watch \/ did_open \/ did_change \/ did_save \/ did_close
  PROVE  UnusedIsLeaving'
<1>1. table' = table /\ removals' = removals
  BY DEF close_document, change_file, other_watch, did_open, did_change, did_save, did_close, manager, tasks
<1>2. \A e \in Entries : entry'[e].refs = entry[e].refs /\ entry'[e].pinned = entry[e].pinned
  BY ClosedTyped DEF change_file, other_watch, did_open, did_change, did_save, did_close, manager
<1>. QED BY <1>1, <1>2, UnusedKept

LEMMA UnusedDel ==
  ASSUME TypeOK, UnusedIsLeaving, NEW e \in Entries, del_entry(e)
  PROVE  UnusedIsLeaving'
<1>1. /\ table # e /\ table' = table /\ removals' = removals
      /\ \A d \in Entries \ {e} : entry'[d] = entry[d]
  BY DEF del_entry, Unused, tasks, TypeOK, ManagerOK
<1>. QED BY <1>1 DEF UnusedIsLeaving

(* UnusedIsLeaving: an entry of the table that no import refers to is about to be      *)
(* removed, in whatever order imports begin, end and wait for the locks.               *)
THEOREM UnusedEntriesLeave == Spec => []UnusedIsLeaving
<1>1. Init => UnusedIsLeaving
  BY ImportsAssumption DEF Init, UnusedIsLeaving
<1>2. TypeOK /\ UnusedIsLeaving /\ [Next]_vars => UnusedIsLeaving'
  <2>1. CASE UNCHANGED vars
    BY <2>1 DEF vars, manager, tasks, UnusedIsLeaving
  <2>2. CASE TypeOK /\ UnusedIsLeaving /\ Next
    <3>1. Steps_
      BY <2>2, NextIs
    <3>. QED BY <2>2, <3>1, UnusedGetEntry, UnusedDrop, UnusedRemove, UnusedHandle, UnusedImport, UnusedElse,
                UnusedDel DEF Steps_
  <2>. QED BY <2>1, <2>2
<1>. QED BY <1>1, <1>2, TypesAreKept, PTL DEF Spec

-----------------------------------------------------------------------------
(* Old texts are told.                                                     *)
Knows(i) == pc[i] # "idle" /\ seen[i] # None
Noticed(i) == i \in missed \/ \E n \in notices : n[1] = i
Reloading == \E h \in events : h.pc = "reload"
(* A handler of a change made in the editor is not over. *)
Changing == \E h \in events : h.type # "file"

(* Who has seen a text has an entry, and nobody has who asks for the first time; *)
(* a handler works with the entry of the table.                                  *)
Distinct == /\ \A g, h \in events : g.id = h.id => g = h
            /\ \A h \in events : h.id < count
SeenHasEntry == \A i \in Importers : Knows(i) => mine[i] # None
Unseen ==
  \A i \in Importers :
    /\ pc[i] \in {"found", "loading"} /\ (kind = "library" \/ round[i] = 1) => seen[i] = None
    /\ kind = "library" => pc[i] \notin {"entered", "computing"}
HandlesTable == \A h \in events : Handled(h) => h.entry = table
TasksFit == Distinct /\ SeenHasEntry /\ Unseen /\ HandlesTable

(* A library: whoever has read it has what the entry keeps, or will hear that the *)
(* entry was emptied; and what the entry keeps is that of the file, unless a      *)
(* handler is under way or nobody listened.                                       *)
LibraryTexts ==
  /\ ~opened /\ source <= latest
  /\ \A i \in Importers : seen[i] # None => seen[i] <= latest
  /\ \A e \in Entries : entry[e].doc # None =>
       ~entry[e].doc.live /\ entry[e].doc.at \in Nat /\ entry[e].doc.at <= latest
LibraryLoads ==
  \A i \in Importers :
    /\ pc[i] \in {"loading", "loaded"} => entry[mine[i]].doc = None
    /\ pc[i] = "loaded" =>
         seen[i] # None /\ (seen[i] # source => events # {} \/ seen[i] < unheard)
LibraryIsKept ==
  table # None =>
    /\ entry[table].doc # None /\ entry[table].doc.at # source =>
         events # {} \/ entry[table].doc.at < unheard
    /\ \A i \in Importers : Knows(i) /\ mine[i] = table =>
         \/ pc[i] = "loaded" \/ entry[table].doc = [live |-> FALSE, at |-> seen[i]]
         \/ i \in missed \/ <<i, seen[i]>> \in notices
LibraryOK == kind = "library" => LibraryTexts /\ LibraryLoads /\ LibraryIsKept

(* A resource: nobody waits for the lock of an empty entry, so nobody but a handler *)
(* that tells of it fills the entry again.                                          *)
WaitsForFull ==
  kind = "resource" =>
    \A i \in Importers :
      /\ pc[i] \in {"entered", "watching"} => entry[mine[i]].doc # None
      /\ pc[i] = "entered" => \A t \in events \union removals : t.pc = "unwatch" => t.entry # mine[i]
ResourceIsKept ==
  table # None =>
    /\ entry[table].doc # None /\ ~entry[table].doc.live /\ text # None /\ entry[table].doc.at # text =>
         Changing
    /\ \A i \in Importers : Knows(i) /\ mine[i] = table =>
         /\ entry[table].doc = None => Noticed(i) \/ Reloading
         /\ text # None /\ seen[i] # text => Changing \/ Noticed(i) \/ Reloading
ResourceOK ==
  kind = "resource" =>
    /\ \A e \in Entries : entry[e].doc # None /\ entry[e].doc.live => entry[e].doc = Shared
    /\ ResourceIsKept

ToldOK == TasksFit /\ LibraryOK /\ WaitsForFull /\ ResourceOK

LEMMA OldTyped ==
  ASSUME NEW t \in Texts
  PROVE  /\ [live |-> FALSE, at |-> t] \in Documents /\ [live |-> FALSE, at |-> t] # None
         /\ [live |-> FALSE, at |-> t].at = t /\ ~[live |-> FALSE, at |-> t].live
<1>1. [live |-> FALSE, at |-> t] \in [live : BOOLEAN, at : Texts]
  OBVIOUS
<1>2. None \notin [live : BOOLEAN, at : Texts]
  BY ImportsAssumption DEF Texts
<1>. QED BY <1>1, <1>2 DEF Documents

(* An old document is what it was at. *)
LEMMA OldIs ==
  ASSUME NEW d \in Documents, d # None, ~d.live
  PROVE  d = [live |-> FALSE, at |-> d.at]
BY DEF Documents

LEMMA ToldIs ==
  ASSUME TypeOK, ToldOK
  PROVE  StaleOnlyByRace
<1>1. SUFFICES ASSUME NEW i \in Importers, Stale(i), mine[i] = table
               PROVE  events # {} \/ (\E n \in notices : n[1] = i) \/ i \in missed \/ seen[i] < unheard
  BY DEF StaleOnlyByRace
<1>2. pc[i] = "ready" /\ Knows(i) /\ table # None /\ Current # None /\ seen[i] # Current
  BY <1>1 DEF Stale, Knows, ToldOK, TasksFit, SeenHasEntry
<1>3. CASE kind = "library"
  <2>1. \/ entry[table].doc = [live |-> FALSE, at |-> seen[i]]
        \/ i \in missed \/ <<i, seen[i]>> \in notices
    BY <1>1, <1>2, <1>3 DEF ToldOK, LibraryOK, LibraryIsKept
  <2>2. CASE entry[table].doc = [live |-> FALSE, at |-> seen[i]]
    <3>1. entry[table].doc # None /\ entry[table].doc.at = seen[i]
      BY <2>2, OldTyped DEF TypeOK, ImportersOK
    <3>. QED BY <1>2, <1>3, <3>1 DEF ToldOK, LibraryOK, LibraryIsKept, Current
  <2>3. CASE <<i, seen[i]>> \in notices
    BY <2>3
  <2>. QED BY <2>1, <2>2, <2>3
<1>4. CASE kind = "resource"
  BY <1>1, <1>2, <1>4 DEF ToldOK, ResourceOK, ResourceIsKept, Current, Noticed, Changing, Reloading
<1>. QED BY <1>3, <1>4 DEF TypeOK, WhatOK

LEMMA ToldInit ==
  ASSUME Init
  PROVE  ToldOK
BY DEF Init, ToldOK, TasksFit, Distinct, SeenHasEntry, Knows, Unseen, HandlesTable, LibraryOK, LibraryTexts,
   LibraryLoads, LibraryIsKept, WaitsForFull, ResourceOK, ResourceIsKept, NewEntry

(* What a handler does: it is over, it goes on, it empties the entry of the table, *)
(* or fills it again.                                                              *)
GoesOn(h, g) == events' = Others(h) \union {g} /\ g.id = h.id /\ g.type = h.type /\ g.entry = table /\ Handled(g)
HandlerOver(h) ==
  /\ entry' = entry /\ text' = text /\ notices' = notices /\ events' = Others(h) /\ h.pc # "reload"
  /\ table = None \/ entry[table].doc = None \/ (kind = "resource" /\ h.type = "file")
HandlerGoesOn(h) ==
  /\ entry' = entry /\ text' = text /\ notices' = notices /\ table # None /\ h.pc # "reload"
  /\ \E g : GoesOn(h, g) /\ (g.pc = "unwatch" => ~EntryBusy(table))
HandlerEmpties(h) ==
  /\ entry' = Cleared(table) /\ text' = text /\ table # None
  /\ h.pc = "unwatch" \/ ~EntryBusy(table)
  /\ \/ /\ kind = "resource" /\ notices' = notices
        /\ \E g : GoesOn(h, g) /\ g.pc = "reload"
     \/ events' = Others(h) /\ Notify(IF kind = "library" THEN entry[table].doc.at ELSE None)
HandlerFills(h) ==
  /\ kind = "resource" /\ text' # None /\ table # None
  /\ entry' \in [Entries -> Contents] /\ entry'[table].doc = Shared /\ \A e \in Entries \ {table} : entry'[e] = entry[e]
  /\ events' = Others(h) /\ Notify(None)
HandlerDoes(h) == HandlerOver(h) \/ HandlerGoesOn(h) \/ HandlerEmpties(h) \/ HandlerFills(h)

LEMMA BecomeIs ==
  ASSUME NEW h \in Handlers, NEW s \in {"check", "libdoc", "unwatch", "reload"}, Become(h, s), h.entry = table
  PROVE  \E g : GoesOn(h, g) /\ g.pc = s
<1>. DEFINE g == [h EXCEPT !.pc = s]
<1>1. g.pc = s /\ g.entry = h.entry /\ g.id = h.id /\ g.type = h.type
  BY DEF Handlers
<1>2. events' = Others(h) \union {g}
  BY DEF Become
<1>. HIDE DEF g
<1>3. GoesOn(h, g)
  BY <1>1, <1>2 DEF GoesOn, Handled
<1>. QED BY <1>1, <1>3

LEMMA InvalidatedIs ==
  ASSUME NEW h \in Handlers, h.entry = table, table # None, Invalidated(h), entry' = Cleared(h.entry), text' = text,
         h.pc = "unwatch" \/ ~EntryBusy(table)
  PROVE  HandlerEmpties(h)
<1>1. CASE h.type = "file" /\ kind = "resource"
  <2>1. Become(h, "reload") /\ notices' = notices
    BY <1>1 DEF Invalidated
  <2>2. \E g : GoesOn(h, g) /\ g.pc = "reload"
    BY <2>1, BecomeIs
  <2>. QED BY <1>1, <2>1, <2>2 DEF HandlerEmpties
<1>2. CASE ~(h.type = "file" /\ kind = "resource")
  BY <1>2 DEF Invalidated, Finish, HandlerEmpties
<1>. QED BY <1>1, <1>2

LEMMA InvalidateIs ==
  ASSUME NEW h \in Handlers, h.entry = table, table # None, Invalidate(h), text' = text, ~EntryBusy(table),
         h.pc # "reload"
  PROVE  HandlerDoes(h)
<1>1. CASE h.type = "file" /\ IgnoresFile(h.entry)
  BY <1>1 DEF Invalidate, IgnoresFile, Finish, HandlerDoes, HandlerOver
<1>2. CASE ~(h.type = "file" /\ IgnoresFile(h.entry)) /\ entry[h.entry].watched
  <2>1. Become(h, "unwatch") /\ entry' = entry /\ notices' = notices
    BY <1>2 DEF Invalidate
  <2>. QED BY <2>1, BecomeIs DEF HandlerDoes, HandlerGoesOn
<1>3. CASE ~(h.type = "file" /\ IgnoresFile(h.entry)) /\ ~entry[h.entry].watched
  <2>1. entry' = Cleared(h.entry) /\ Invalidated(h)
    BY <1>3 DEF Invalidate
  <2>. QED BY <2>1, InvalidatedIs DEF HandlerDoes
<1>. QED BY <1>1, <1>2, <1>3

LEMMA CheckIs ==
  ASSUME TypeOK, NEW h \in Handlers, h.entry = table, table # None, CheckValid(h), text' = text, ~EntryBusy(table),
         h.pc # "reload"
  PROVE  HandlerDoes(h)
<1>1. CASE entry[h.entry].doc = None
  BY <1>1 DEF CheckValid, Finish, HandlerDoes, HandlerOver
<1>2. CASE entry[h.entry].doc # None /\ kind = "library"
  BY <1>2, InvalidateIs DEF CheckValid
<1>3. CASE entry[h.entry].doc # None /\ kind # "library"
  <2>1. Become(h, "libdoc") /\ entry' = entry /\ notices' = notices
    BY <1>3 DEF CheckValid
  <2>. QED BY <2>1, BecomeIs DEF HandlerDoes, HandlerGoesOn
<1>. QED BY <1>1, <1>2, <1>3

LEMMA StartsIs ==
  ASSUME TypeOK, NEW h \in events, handler_starts(h)
  PROVE  HandlerDoes(h)
<1>1. h \in Handlers /\ h.pc = "posted" /\ text' = text
  BY DEF TypeOK, TasksOK, EventsOK, handler_starts, files
<1>2. CASE table = None
  BY <1>1, <1>2 DEF handler_starts, Finish, HandlerDoes, HandlerOver
<1>3. CASE table # None
  <2>. DEFINE k == [h EXCEPT !.entry = table]
  <2>1. k \in Handlers /\ k.entry = table /\ k.id = h.id /\ k.type = h.type /\ k.pc = h.pc
    BY <1>1, <1>3 DEF Handlers, TypeOK, ManagerOK
  <2>2. IF EntryBusy(table)
        THEN Become(k, "check") /\ UNCHANGED <<entry, registered, listening, closings, notices>>
        ELSE CheckValid(k)
    BY <1>3 DEF handler_starts
  <2>. HIDE DEF k
  <2>3. HandlerDoes(k)
    <3>1. CASE EntryBusy(table)
      BY <1>1, <1>3, <2>1, <2>2, <3>1, BecomeIs DEF HandlerDoes, HandlerGoesOn
    <3>. QED BY <1>1, <1>3, <2>1, <2>2, <3>1, CheckIs
  <2>4. Others(k) = Others(h)
    BY <2>1 DEF Others
  <2>5. \A g : GoesOn(k, g) => GoesOn(h, g)
    BY <2>1, <2>4 DEF GoesOn
  <2>. QED BY <1>1, <2>1, <2>3, <2>4, <2>5 DEF HandlerDoes, HandlerOver, HandlerGoesOn, HandlerEmpties, HandlerFills
<1>. QED BY <1>2, <1>3

LEMMA HandleIs ==
  ASSUME TypeOK, LocksOK, HandlesTable, NEW h \in events, Handle(h)
  PROVE  HandlerDoes(h)
<1>1. h \in Handlers /\ (h.pc # "posted" => h.entry = table /\ table # None /\ table \in Entries)
  BY ImportsAssumption DEF TypeOK, TasksOK, EventsOK, HandlesTable, Handled
<1>2. CASE handler_checks(h)
  BY <1>1, <1>2, CheckIs DEF handler_checks, files
<1>3. CASE handler_invalidates(h)
  BY <1>1, <1>3, InvalidateIs DEF handler_invalidates, files
<1>4. CASE unwatched(h)
  BY <1>1, <1>4, InvalidatedIs DEF unwatched, files, HandlerDoes
<1>5. CASE reload(h)
  <2>1. kind = "resource" /\ h.entry = table /\ table \in Entries /\ table # None
    BY <1>1, <1>5 DEF reload, LocksOK, KindOK
  <2>2. text' # None
    BY <1>5, ImportsAssumption DEF reload, TypeOK, FilesOK
  <2>3. PICK w \in BOOLEAN : entry' = [entry EXCEPT ![h.entry].doc = Shared, ![h.entry].watched = w]
    BY <1>5 DEF reload
  <2>4. [entry[table] EXCEPT !.doc = Shared, !.watched = w] \in Contents
        /\ [entry[table] EXCEPT !.doc = Shared, !.watched = w].doc = Shared
    BY <2>1, NewEntryTyped DEF Contents, TypeOK, ManagerOK
  <2>5. /\ entry' \in [Entries -> Contents] /\ entry'[table].doc = Shared
        /\ \A e \in Entries \ {table} : entry'[e] = entry[e]
    BY <2>1, <2>3, <2>4 DEF TypeOK, ManagerOK
  <2>. QED BY <1>5, <2>1, <2>2, <2>5 DEF reload, Finish, HandlerDoes, HandlerFills
<1>. QED BY <1>2, <1>3, <1>4, <1>5, StartsIs DEF Handle

(* And what a removal does: it goes on or away, or it empties its entry and the table. *)
RemovalGoesOn ==
  /\ entry' = entry /\ table' = table
  /\ \A q \in removals' : q \in removals \/ (q.pc = "unwatch" => ~EntryBusy(q.entry))
RemovalEmpties(r) ==
  /\ entry' = Cleared(r.entry) /\ table' = None /\ removals' \subseteq removals
  /\ Removed(r) \/ ~TableLocked
  /\ r.pc = "unwatch" \/ ~EntryBusy(r.entry)

LEMMA RemovalIs ==
  ASSUME TypeOK, NEW r \in removals, NEW s \in {"waiting", "invalidate", "unwatch"}, Removal(r, s),
         s = "unwatch" => ~EntryBusy(r.entry), entry' = entry, table' = table
  PROVE  RemovalGoesOn
<1>1. [r EXCEPT !.pc = s].pc = s /\ [r EXCEPT !.pc = s].entry = r.entry
  BY DEF TypeOK, TasksOK, Leaving
<1>. QED BY <1>1 DEF Removal, RemovalGoesOn

LEMMA RemovingIs ==
  ASSUME TypeOK, NEW r \in removals, Removing(r), Removed(r) \/ ~TableLocked
  PROVE  RemovalGoesOn \/ RemovalEmpties(r)
<1>1. CASE kind = "resource" /\ table = None
  BY <1>1 DEF Removing, RemovalGoesOn
<1>2. CASE ~(kind = "resource" /\ table = None) /\ EntryBusy(r.entry)
  BY <1>2, RemovalIs DEF Removing
<1>3. CASE ~(kind = "resource" /\ table = None) /\ ~EntryBusy(r.entry) /\ entry[r.entry].watched
  BY <1>3, RemovalIs DEF Removing
<1>4. CASE ~(kind = "resource" /\ table = None) /\ ~EntryBusy(r.entry) /\ ~entry[r.entry].watched
  BY <1>4 DEF Removing, RemovalEmpties
<1>. QED BY <1>1, <1>2, <1>3, <1>4

LEMMA RemoveIs ==
  ASSUME TypeOK, NEW r \in removals, Remove(r)
  PROVE  RemovalGoesOn \/ RemovalEmpties(r)
<1>1. CASE removal_starts(r)
  <2>1. CASE entry[r.entry].refs # {}
    BY <1>1, <2>1 DEF removal_starts, RemovalGoesOn
  <2>2. CASE entry[r.entry].refs = {} /\ TableLocked
    BY <1>1, <2>2, RemovalIs DEF removal_starts
  <2>. QED BY <1>1, <2>1, <2>2, RemovingIs DEF removal_starts
<1>2. CASE removal_locks(r)
  BY <1>2, RemovingIs DEF removal_locks, Removed
<1>3. CASE removal_ends(r)
  BY <1>3 DEF removal_ends, RemovalEmpties, Removed
<1>. QED BY <1>1, <1>2, <1>3 DEF Remove

(* What the tasks know. *)
LEMMA DistinctKept ==
  ASSUME TypeOK, Distinct,
         \/ events' = events /\ (count' = count \/ Outside)
         \/ \E type : Happens(type)
         \/ count' = count /\ \E h \in events : events' = Others(h) \/ \E g : GoesOn(h, g)
  PROVE  Distinct'
<1>1. count \in Nat /\ (Outside => count' = count + 1) /\ \A h \in events : h.id \in Nat
  BY DEF Outside, TypeOK, HistoryOK, TasksOK, EventsOK, Handlers
<1>2. CASE events' = events /\ (count' = count \/ Outside)
  BY <1>1, <1>2 DEF Distinct
<1>3. CASE \E type : Happens(type)
  <2>1. PICK type : Happens(type)
    BY <1>3
  <2>. DEFINE h == [id |-> count, type |-> type, entry |-> None, pc |-> "posted"]
  <2>2. h.id = count /\ events' = events \union {h} /\ count' = count + 1
    BY <1>1, <2>1 DEF Happens
  <2>. HIDE DEF h
  <2>. QED BY <1>1, <2>2 DEF Distinct
<1>4. CASE count' = count /\ \E h \in events : events' = Others(h) \/ \E g : GoesOn(h, g)
  BY <1>4 DEF Distinct, Others, GoesOn
<1>. QED BY <1>2, <1>3, <1>4

LEMMA FitImporter ==
  ASSUME TypeOK, TasksFit, NEW i \in Importers, kind' = kind, events' = events, count' = count \/ Outside,
         table' = table \/ ~TableLocked,
         \A j \in Importers \ {i} : pc'[j] = pc[j] /\ mine'[j] = mine[j] /\ seen'[j] = seen[j] /\ round'[j] = round[j],
         Knows(i)' => mine'[i] # None,
         pc'[i] \in {"found", "loading"} /\ (kind = "library" \/ round'[i] = 1) => seen'[i] = None,
         kind = "library" => pc'[i] \notin {"entered", "computing"}
  PROVE  TasksFit'
<1>1. Distinct'
  BY DistinctKept DEF TasksFit
<1>2. SeenHasEntry'
  BY DEF TasksFit, SeenHasEntry, Knows
<1>3. Unseen'
  BY DEF TasksFit, Unseen
<1>4. HandlesTable'
  BY FreeTable DEF TasksFit, HandlesTable, Handled
<1>. QED BY <1>1, <1>2, <1>3, <1>4 DEF TasksFit

LEMMA FitGetEntry ==
  ASSUME TypeOK, TasksFit, NEW i \in Importers, NEW e \in Entries, get_entry(i, e)
  PROVE  TasksFit'
<1>1. /\ pc[i] = "found" /\ ~TableLocked /\ mine' = [mine EXCEPT ![i] = e]
      /\ UNCHANGED <<what, round, tasks, count>>
  BY GetEntryIs
<1>2. mine'[i] = e /\ e # None /\ \A j \in Importers \ {i} : mine'[j] = mine[j]
  BY <1>1, ImportsAssumption DEF TypeOK, ImportersOK
<1>3. /\ \A j \in Importers \ {i} : pc'[j] = pc[j] /\ seen'[j] = seen[j]
      /\ pc'[i] = "loading" => kind = "library" /\ seen'[i] = seen[i]
      /\ pc'[i] # "found" /\ (kind = "library" => pc'[i] \notin {"entered", "computing"})
  <2>1. CASE kind = "library"
    BY <2>1, GetEntryIs DEF get_libdoc, TypeOK, ImportersOK
  <2>2. CASE kind # "library" /\ get_document(i, e, Asked(i, e))
    BY <2>2 DEF get_document, TypeOK, ImportersOK
  <2>. QED BY <2>1, <2>2, GetEntryIs DEF TypeOK, ImportersOK
<1>. QED BY <1>1, <1>2, <1>3, FitImporter DEF what, tasks, TasksFit, Unseen

LEMMA FitLocked ==
  ASSUME TypeOK, TasksFit, NEW i \in Importers, get_locked_document(i)
  PROVE  TasksFit'
<1>1. /\ pc[i] = "entered" /\ mine[i] \in Entries /\ entry \in [Entries -> Contents]
      /\ get_document(i, mine[i], entry) /\ UNCHANGED <<kind, table, round, mine, events, count>>
  BY DEF get_locked_document, TypeOK, ImportersOK, ManagerOK, what, tasks
<1>2. /\ \A j \in Importers \ {i} : pc'[j] = pc[j] /\ seen'[j] = seen[j]
      /\ pc'[i] \in {"watching", "computing"}
  BY <1>1 DEF get_document, TypeOK, ImportersOK
<1>3. kind # "library"
  BY <1>1 DEF TasksFit, Unseen
<1>. QED BY <1>1, <1>2, <1>3, FitImporter, ImportsAssumption

LEMMA FitImport ==
  ASSUME TypeOK, LocksOK, TasksFit, NEW i \in Importers,
         \/ find_file(i) \/ load_library(i) \/ update_library(i) \/ load_fails(i) \/ add_file_watchers(i)
         \/ get_resource_entry(i) \/ initialized(i) \/ cancel(i)
         \/ drop_import(i) \/ \E p : imports_changed(i, p)
  PROVE  TasksFit'
<1>1. /\ UNCHANGED <<kind, events, table>> /\ (count' = count \/ Outside)
      /\ pc \in [Importers -> Steps] /\ mine \in [Importers -> Entries \union {None}]
      /\ seen \in [Importers -> Texts] /\ round \in [Importers -> {1, 2}]
  BY DEF find_file, load_library, update_library, load_fails, add_file_watchers, get_resource_entry,
     initialized, cancel, drop_import, imports_changed, what, tasks, manager, TypeOK, ImportersOK
<1>2. \A j \in Importers \ {i} : pc'[j] = pc[j] /\ mine'[j] = mine[j] /\ seen'[j] = seen[j] /\ round'[j] = round[j]
  BY <1>1 DEF find_file, load_library, update_library, load_fails, add_file_watchers, get_resource_entry,
     initialized, cancel, drop_import, imports_changed
<1>3. Knows(i)' => mine'[i] # None
  <2>1. CASE find_file(i) \/ cancel(i) \/ drop_import(i)
    BY <1>1, <2>1 DEF find_file, cancel, drop_import, Knows
  <2>2. CASE load_library(i)
    BY <1>1, <2>2, ImportsAssumption DEF load_library, TypeOK, ImportersOK
  <2>3. CASE \E p : imports_changed(i, p)
    BY <1>1, <2>3 DEF imports_changed, Knows, TasksFit, SeenHasEntry
  <2>. QED BY <1>1, <2>1, <2>2, <2>3 DEF update_library, load_fails, add_file_watchers, get_resource_entry, initialized,
     Knows, TasksFit, SeenHasEntry
<1>4. pc'[i] \in {"found", "loading"} /\ (kind = "library" \/ round'[i] = 1) => seen'[i] = None
  <2>1. CASE find_file(i)
    BY <1>1, <2>1 DEF find_file
  <2>2. CASE get_resource_entry(i)
    BY <1>1, <2>2 DEF get_resource_entry, TasksFit, Unseen
  <2>3. CASE \E p : imports_changed(i, p)
    BY <1>1, <2>3 DEF imports_changed, TasksFit, Unseen
  <2>. QED BY <1>1, <2>1, <2>2, <2>3 DEF load_library, update_library, load_fails, add_file_watchers,
     initialized, cancel, drop_import
<1>5. kind = "library" => pc'[i] \notin {"entered", "computing"}
  BY <1>1 DEF find_file, load_library, update_library, load_fails, add_file_watchers, get_resource_entry,
     initialized, cancel, drop_import, imports_changed, TasksFit, Unseen
<1>. QED BY <1>1, <1>2, <1>3, <1>4, <1>5, FitImporter

LEMMA FitHandle ==
  ASSUME TypeOK, LocksOK, TasksFit, NEW h \in events, Handle(h)
  PROVE  TasksFit'
<1>1. UNCHANGED <<kind, table, pc, round, mine, seen, count>>
  BY DEF Handle, handler_starts, handler_checks, handler_invalidates, unwatched, reload, what, importers
<1>2. events' = Others(h) \/ \E g : GoesOn(h, g)
  BY HandleIs DEF TasksFit, HandlerDoes, HandlerOver, HandlerGoesOn, HandlerEmpties, HandlerFills
<1>3. Distinct'
  BY <1>1, <1>2, DistinctKept DEF TasksFit
<1>4. HandlesTable'
  BY <1>1, <1>2 DEF TasksFit, HandlesTable, GoesOn, Others, Handled
<1>5. SeenHasEntry' /\ Unseen'
  BY <1>1 DEF TasksFit, SeenHasEntry, Unseen, Knows
<1>. QED BY <1>3, <1>4, <1>5 DEF TasksFit

LEMMA FitRemove ==
  ASSUME TypeOK, LocksOK, TasksFit, NEW r \in removals, Remove(r)
  PROVE  TasksFit'
<1>1. UNCHANGED <<kind, pc, round, mine, seen, count, events>>
  BY DEF Remove, removal_starts, removal_locks, removal_ends, what, importers
<1>2. table' = table \/ \A h \in events : ~Handled(h)
  BY RemoveIs, FreeTable DEF RemovalGoesOn, RemovalEmpties, LocksOK, TableLockedOnce
<1>3. Distinct'
  BY <1>1, DistinctKept DEF TasksFit
<1>4. HandlesTable'
  BY <1>1, <1>2 DEF TasksFit, HandlesTable, Handled
<1>5. SeenHasEntry' /\ Unseen'
  BY <1>1 DEF TasksFit, SeenHasEntry, Unseen, Knows
<1>. QED BY <1>3, <1>4, <1>5 DEF TasksFit

LEMMA FitElse ==
  ASSUME TypeOK, LocksOK, TasksFit,
         \/ \E e \in Entries : del_entry(e)
         \/ \E c \in closings : close_document(c)
         \/ change_file \/ other_watch \/ did_open \/ did_change \/ did_save \/ did_close
  PROVE  TasksFit'
<1>1. UNCHANGED <<kind, pc, round, mine, seen, table>>
  BY DEF del_entry, close_document, change_file, other_watch, did_open, did_change, did_save, did_close,
     what, importers, manager
<1>2. \/ events' = events /\ (count' = count \/ Outside)
      \/ \E type : Happens(type)
  BY DEF del_entry, close_document, change_file, other_watch, did_open, did_change, did_save, did_close, tasks
<1>3. Distinct'
  BY <1>2, DistinctKept DEF TasksFit
<1>4. HandlesTable'
  BY <1>1, <1>2 DEF TasksFit, HandlesTable, Handled, Happens
<1>5. SeenHasEntry' /\ Unseen'
  BY <1>1 DEF TasksFit, SeenHasEntry, Unseen, Knows
<1>. QED BY <1>3, <1>4, <1>5 DEF TasksFit

(* Nobody waits for the lock of an empty entry. *)
LEMMA WaitsKept ==
  ASSUME WaitsForFull, kind' = kind,
         \A i \in Importers : pc'[i] \in {"entered", "watching"} => pc'[i] = pc[i] /\ mine'[i] = mine[i],
         \A i \in Importers : pc[i] \in {"entered", "watching"} /\ entry[mine[i]].doc # None =>
           entry'[mine[i]].doc # None,
         \A t \in (events \union removals)' : t.pc = "unwatch" => t \in events \union removals \/ ~EntryBusy(t.entry)
  PROVE  WaitsForFull'
<1>1. SUFFICES ASSUME kind = "resource", NEW i \in Importers
               PROVE  /\ pc'[i] \in {"entered", "watching"} => entry'[mine'[i]].doc # None
                      /\ pc'[i] = "entered" =>
                           \A t \in (events \union removals)' : t.pc = "unwatch" => t.entry # mine'[i]
  BY DEF WaitsForFull
<1>2. pc'[i] \in {"entered", "watching"} => entry'[mine'[i]].doc # None
  BY <1>1 DEF WaitsForFull
<1>3. ASSUME pc'[i] = "entered", NEW t \in (events \union removals)', t.pc = "unwatch"
      PROVE  t.entry # mine'[i]
  BY <1>1, <1>3 DEF WaitsForFull, EntryBusy
<1>. QED BY <1>2, <1>3

LEMMA BusyIsFull ==
  ASSUME LocksOK, WaitsForFull, kind = "resource", ~TableLocked, NEW e, EntryBusy(e)
  PROVE  entry[e].doc # None
<1>1. \E i \in Importers : mine[i] = e /\ pc[i] \in {"entered", "loading", "loaded", "watching"}
  BY FreeTable DEF EntryBusy, EntryLocked, Handled, Removed
<1>. QED BY <1>1 DEF WaitsForFull, LocksOK, KindOK

LEMMA WaitsGetEntry ==
  ASSUME TypeOK, LocksOK, WaitsForFull, NEW i \in Importers, NEW e \in Entries, get_entry(i, e)
  PROVE  WaitsForFull'
<1>1. /\ ~TableLocked /\ mine' = [mine EXCEPT ![i] = e] /\ UNCHANGED <<what, tasks>>
  BY GetEntryIs
<1>2. mine'[i] = e /\ \A j \in Importers \ {i} : mine'[j] = mine[j]
  BY <1>1 DEF TypeOK, ImportersOK
<1>3. CASE kind # "resource"
  BY <1>1, <1>3 DEF WaitsForFull, what
<1>4. CASE kind = "resource"
  <2>1. \A t \in (events \union removals)' : t.pc # "unwatch"
    BY <1>1, FreeTable DEF tasks, Handled, Removed
  <2>2. /\ Asked(i, e) \in [Entries -> Contents] /\ Asked(i, e)[e].doc = entry[e].doc
        /\ \A d \in Entries \ {e} : Asked(i, e)[d] = entry[d]
    BY AskedTypes
  <2>3. /\ \A d \in Entries \ {e} : entry'[d] = entry[d]
        /\ \A j \in Importers \ {i} : pc'[j] = pc[j]
        /\ entry'[e].doc = entry[e].doc \/ entry'[e].doc # None
        /\ pc'[i] \in {"entered", "watching"} => entry'[e].doc # None
    <3>1. CASE EntryBusy(e)
      BY <1>1, <1>4, <2>2, <3>1, BusyIsFull, GetEntryIs DEF TypeOK, ImportersOK
    <3>2. CASE ~EntryBusy(e)
      <4>1. get_document(i, e, Asked(i, e))
        BY <1>4, <3>2, GetEntryIs
      <4>. QED BY <2>2, <4>1, DocumentTypes DEF TypeOK, ImportersOK
    <3>. QED BY <3>1, <3>2
  <2>4. \A j \in Importers : pc'[j] \in {"entered", "watching"} => mine'[j] \in Entries
    BY <1>2, <2>3 DEF TypeOK, ImportersOK
  <2>5. \A j \in Importers : pc'[j] \in {"entered", "watching"} => entry'[mine'[j]].doc # None
    BY <1>2, <1>4, <2>3, <2>4 DEF WaitsForFull
  <2>. QED BY <2>1, <2>5 DEF WaitsForFull
<1>. QED BY <1>3, <1>4

LEMMA WaitsLocked ==
  ASSUME TypeOK, LocksOK, WaitsForFull, NEW i \in Importers, get_locked_document(i)
  PROVE  WaitsForFull'
<1>1. /\ mine[i] \in Entries /\ entry \in [Entries -> Contents]
      /\ get_document(i, mine[i], entry) /\ UNCHANGED <<kind, mine, events, removals>>
  BY DEF get_locked_document, TypeOK, ImportersOK, ManagerOK, what, tasks
<1>2. /\ \A d \in Entries \ {mine[i]} : entry'[d] = entry[d]
      /\ entry'[mine[i]].doc # None /\ pc'[i] # "entered"
      /\ \A j \in Importers \ {i} : pc'[j] = pc[j]
  BY <1>1, DocumentTypes DEF TypeOK, ImportersOK
<1>3. \A j \in Importers : pc[j] \in {"entered", "watching"} => mine[j] \in Entries
  BY DEF TypeOK, ImportersOK
<1>4. \A j \in Importers : pc'[j] = "entered" => pc[j] = "entered"
  BY <1>2
<1>5. \A j \in Importers : pc'[j] \in {"entered", "watching"} /\ kind = "resource" => entry'[mine[j]].doc # None
  BY <1>2, <1>3 DEF WaitsForFull
<1>. QED BY <1>1, <1>4, <1>5 DEF WaitsForFull

LEMMA WaitsImport ==
  ASSUME TypeOK, LocksOK, WaitsForFull, NEW i \in Importers,
         \/ find_file(i) \/ load_library(i) \/ update_library(i) \/ load_fails(i) \/ add_file_watchers(i)
         \/ get_resource_entry(i) \/ initialized(i) \/ cancel(i)
         \/ drop_import(i) \/ \E p : imports_changed(i, p)
  PROVE  WaitsForFull'
<1>1. UNCHANGED <<kind, events>> /\ \A r \in removals' : r \in removals \/ r.pc = "posted"
  <2>1. CASE drop_import(i)
    <3>1. /\ UNCHANGED <<kind, events>>
          /\ removals' = removals \union {[by |-> i, entry |-> e, pc |-> "posted"] :
                                            e \in {d \in Entries : i \in entry[d].refs}}
      BY <2>1 DEF drop_import, what
    <3>. QED BY <3>1
  <2>. QED BY <2>1 DEF find_file, load_library, update_library, load_fails, add_file_watchers, get_resource_entry,
     initialized, cancel, imports_changed, what, tasks
<1>2. CASE kind = "library"
  BY <1>1, <1>2 DEF WaitsForFull
<1>3. CASE kind = "resource"
  <2>1. pc[i] # "loaded"
    BY <1>3 DEF LocksOK, KindOK
  <2>2. \A j \in Importers : pc'[j] \in {"entered", "watching"} => pc'[j] = pc[j] /\ mine'[j] = mine[j]
    BY <2>1 DEF find_file, load_library, update_library, load_fails, add_file_watchers, get_resource_entry,
       initialized, cancel, drop_import, imports_changed, TypeOK, ImportersOK
  <2>3. \A e \in Entries : entry[e].doc # None => entry'[e].doc # None
    <3>1. CASE add_file_watchers(i)
      BY <3>1 DEF add_file_watchers, TypeOK, ManagerOK, Contents
    <3>2. CASE drop_import(i)
      BY <3>2, DroppedTyped DEF drop_import
    <3>. QED BY <2>1, <3>1, <3>2 DEF find_file, load_library, update_library, load_fails, get_resource_entry,
       initialized, cancel, imports_changed, manager
  <2>4. \A j \in Importers : pc[j] \in {"entered", "watching"} => mine[j] \in Entries
    BY DEF TypeOK, ImportersOK
  <2>. QED BY <1>1, <2>2, <2>3, <2>4, WaitsKept
<1>. QED BY <1>2, <1>3 DEF TypeOK, WhatOK

(* An entry whose lock is free, or that of a task that ends its watch, is not one of these. *)
LEMMA WaitsElsewhere ==
  ASSUME TypeOK, LocksOK, WaitsForFull, kind = "resource", NEW e,
         \/ ~EntryBusy(e)
         \/ \E t \in events \union removals : t.pc = "unwatch" /\ t.entry = e
  PROVE  \A i \in Importers : pc[i] \in {"entered", "watching"} => mine[i] # e
BY DEF EntryBusy, EntryLocked, WaitsForFull, LocksOK, EntryLockedOnce, ImportsEntry

LEMMA WaitsHandle ==
  ASSUME TypeOK, LocksOK, TasksFit, WaitsForFull, NEW h \in events, Handle(h)
  PROVE  WaitsForFull'
<1>1. UNCHANGED <<kind, pc, mine, removals>> /\ HandlerDoes(h)
  BY HandleIs DEF Handle, handler_starts, handler_checks, handler_invalidates, unwatched, reload, what, importers, TasksFit
<1>2. CASE kind = "library"
  BY <1>1, <1>2 DEF WaitsForFull
<1>3. CASE kind = "resource"
  <2>1. \A i \in Importers : pc[i] \in {"entered", "watching"} => mine[i] \in Entries
    BY DEF TypeOK, ImportersOK
  <2>2. h.pc = "unwatch" => h.entry = table
    BY DEF TasksFit, HandlesTable, Handled
  <2>3. \A i \in Importers : pc[i] \in {"entered", "watching"} /\ entry[mine[i]].doc # None =>
          entry'[mine[i]].doc # None
    <3>1. CASE HandlerOver(h) \/ HandlerGoesOn(h)
      BY <3>1 DEF HandlerOver, HandlerGoesOn
    <3>2. CASE HandlerEmpties(h)
      <4>1. table \in Entries /\ entry' = Cleared(table)
        BY <3>2 DEF HandlerEmpties, TypeOK, ManagerOK
      <4>2. \A i \in Importers : pc[i] \in {"entered", "watching"} => mine[i] # table
        BY <1>3, <2>2, <3>2, WaitsElsewhere DEF HandlerEmpties
      <4>. QED BY <2>1, <4>1, <4>2, ClearedTyped
    <3>3. CASE HandlerFills(h)
      BY <2>1, <3>3, NewEntryTyped DEF HandlerFills
    <3>. QED BY <1>1, <3>1, <3>2, <3>3 DEF HandlerDoes
  <2>4. \A t \in events' : t.pc = "unwatch" => t \in events \/ ~EntryBusy(t.entry)
    BY <1>1 DEF HandlerDoes, HandlerOver, HandlerGoesOn, HandlerEmpties, HandlerFills, GoesOn, Others
  <2>. QED BY <1>1, <2>3, <2>4, WaitsKept
<1>. QED BY <1>2, <1>3 DEF TypeOK, WhatOK

LEMMA WaitsRemove ==
  ASSUME TypeOK, LocksOK, WaitsForFull, NEW r \in removals, Remove(r)
  PROVE  WaitsForFull'
<1>1. UNCHANGED <<kind, pc, mine, events>> /\ r.entry \in Entries
  BY DEF Remove, removal_starts, removal_locks, removal_ends, what, importers, TypeOK, TasksOK, Leaving
<1>2. CASE kind = "library"
  BY <1>1, <1>2 DEF WaitsForFull
<1>3. CASE kind = "resource"
  <2>1. \A i \in Importers : pc[i] \in {"entered", "watching"} => mine[i] \in Entries
    BY DEF TypeOK, ImportersOK
  <2>2. CASE RemovalGoesOn
    BY <1>1, <2>2, WaitsKept DEF RemovalGoesOn
  <2>3. CASE RemovalEmpties(r)
    <3>1. \A i \in Importers : pc[i] \in {"entered", "watching"} => mine[i] # r.entry
      BY <1>3, <2>3, WaitsElsewhere DEF RemovalEmpties
    <3>. QED BY <1>1, <2>1, <2>3, <3>1, ClearedTyped, WaitsKept DEF RemovalEmpties
  <2>. QED BY <2>2, <2>3, RemoveIs
<1>. QED BY <1>2, <1>3 DEF TypeOK, WhatOK

LEMMA WaitsElse ==
  ASSUME TypeOK, LocksOK, WaitsForFull,
         \/ \E e \in Entries : del_entry(e)
         \/ \E c \in closings : close_document(c)
         \/ change_file \/ other_watch \/ did_open \/ did_change \/ did_save \/ did_close
  PROVE  WaitsForFull'
<1>1. UNCHANGED <<kind, pc, mine, removals>> /\ \A h \in events' : h \in events \/ h.pc = "posted"
  BY DEF del_entry, close_document, change_file, other_watch, did_open, did_change, did_save, did_close,
     what, importers, tasks, Happens
<1>2. \A i \in Importers : pc[i] \in {"entered", "watching"} => mine[i] \in Entries
  BY DEF TypeOK, ImportersOK
<1>3. \A i \in Importers : pc[i] \in {"entered", "watching"} /\ entry[mine[i]].doc # None =>
        entry'[mine[i]].doc # None
  <2>1. CASE \E e \in Entries : del_entry(e)
    BY <1>2, <2>1 DEF del_entry, Unused, TypeOK, ManagerOK
  <2>2. CASE \E c \in closings : close_document(c)
    BY <1>2, <2>2, ClosedTyped
  <2>. QED BY <2>1, <2>2 DEF change_file, other_watch, did_open, did_change, did_save, did_close, manager
<1>. QED BY <1>1, <1>3, WaitsKept

(* Who has an old text of a resource will hear of it. *)
LEMMA ResourceKept ==
  ASSUME ResourceOK, kind' = kind, table' = table, text' = text,
         \A e \in Entries : entry'[e].doc = entry[e].doc, table \in Entries \union {None},
         Changing => Changing', Reloading => Reloading',
         \A i \in Importers : Knows(i)' /\ mine'[i] = table =>
           Knows(i) /\ mine[i] = table /\ seen'[i] = seen[i] /\ (Noticed(i) => Noticed(i)')
  PROVE  ResourceOK'
<1>1. SUFFICES ASSUME kind = "resource"
               PROVE  /\ \A e \in Entries : entry'[e].doc # None /\ entry'[e].doc.live => entry'[e].doc = Shared'
                      /\ ResourceIsKept'
  BY DEF ResourceOK
<1>2. \A e \in Entries : entry'[e].doc # None /\ entry'[e].doc.live => entry'[e].doc = Shared'
  BY <1>1 DEF ResourceOK, Shared
<1>3. ResourceIsKept'
  <2>1. SUFFICES ASSUME table # None
                 PROVE  ResourceIsKept'
    BY DEF ResourceIsKept
  <2>2. entry'[table].doc = entry[table].doc
    BY <2>1
  <2>3. /\ entry[table].doc # None /\ ~entry[table].doc.live /\ text # None /\ entry[table].doc.at # text =>
             Changing
        /\ \A i \in Importers : Knows(i) /\ mine[i] = table =>
             /\ entry[table].doc = None => Noticed(i) \/ Reloading
             /\ text # None /\ seen[i] # text => Changing \/ Noticed(i) \/ Reloading
    BY <1>1, <2>1 DEF ResourceOK, ResourceIsKept
  <2>. QED BY <2>2, <2>3 DEF ResourceIsKept
<1>. QED BY <1>2, <1>3

LEMMA DocumentIs ==
  ASSUME TypeOK, NEW i \in Importers, NEW e \in Entries, NEW ent \in [Entries -> Contents],
         ent[e].doc = entry[e].doc, get_document(i, e, ent)
  PROVE  /\ entry[e].doc = None =>
              entry'[e].doc = Shared /\ text' # None /\ (round[i] = 1 => seen'[i] = text')
         /\ entry[e].doc # None =>
              entry'[e].doc = entry[e].doc /\ text' = text /\ (round[i] = 1 => seen'[i] = Text(entry[e].doc))
         /\ round[i] # 1 => seen'[i] = seen[i]
         /\ \A j \in Importers \ {i} : seen'[j] = seen[j] /\ pc'[j] = pc[j]
<1>1. \A j \in Importers \ {i} : seen'[j] = seen[j] /\ pc'[j] = pc[j]
  BY DEF get_document, TypeOK, ImportersOK
<1>2. CASE entry[e].doc = None
  <2>1. text' # None /\ seen' = [seen EXCEPT ![i] = IF round[i] = 1 THEN text' ELSE @]
        /\ entry' = [ent EXCEPT ![e].doc = Shared]
    BY <1>2, ImportsAssumption DEF get_document, TypeOK, FilesOK
  <2>2. [ent[e] EXCEPT !.doc = Shared].doc = Shared
    BY DEF Contents
  <2>3. entry'[e].doc = Shared
    BY <2>1, <2>2
  <2>. QED BY <1>1, <1>2, <2>1, <2>3 DEF TypeOK, ImportersOK
<1>3. CASE entry[e].doc # None
  <2>1. text' = text /\ entry' = ent
        /\ seen' = [seen EXCEPT ![i] = IF round[i] = 1 THEN Text(entry[e].doc) ELSE @]
    BY <1>3 DEF get_document
  <2>. QED BY <1>1, <1>3, <2>1 DEF TypeOK, ImportersOK
<1>. QED BY <1>2, <1>3

(* An import that takes what the entry of the table has, or asks for it again. *)
LEMMA ResourceTaken ==
  ASSUME TypeOK, ResourceOK, kind = "resource", kind' = kind, NEW i \in Importers, table \in Entries, table' = table,
         events' = events, notices' = notices, missed \subseteq missed',
         \A e \in Entries \ {table} : entry'[e].doc = entry[e].doc,
         \/ entry[table].doc = None /\ entry'[table].doc = Shared
         \/ entry[table].doc # None /\ entry'[table].doc = entry[table].doc /\ text' = text,
         \A j \in Importers \ {i} : pc'[j] = pc[j] /\ seen'[j] = seen[j] /\ mine'[j] = mine[j],
         pc[i] # "idle", mine'[i] = table,
         \/ seen'[i] = text'
         \/ entry[table].doc # None /\ seen'[i] = Text(entry[table].doc)
         \/ seen'[i] = seen[i] /\ (mine[i] = table \/ i \in missed' \/ seen[i] = None)
  PROVE  ResourceOK'
<1>1. Changing' = Changing /\ Reloading' = Reloading /\ \A j \in Importers : Noticed(j) => Noticed(j)'
  BY DEF Changing, Reloading, Noticed
<1>2. \A e \in Entries : entry'[e].doc # None /\ entry'[e].doc.live => entry'[e].doc = Shared'
  BY DEF ResourceOK, Shared
<1>3. table # None
  BY ImportsAssumption
<1>4. /\ entry[table].doc # None /\ ~entry[table].doc.live /\ text # None /\ entry[table].doc.at # text =>
           Changing
      /\ \A j \in Importers : Knows(j) /\ mine[j] = table =>
           /\ entry[table].doc = None => Noticed(j) \/ Reloading
           /\ text # None /\ seen[j] # text => Changing \/ Noticed(j) \/ Reloading
  BY <1>3 DEF ResourceOK, ResourceIsKept
<1>5. entry'[table].doc # None /\ ~entry'[table].doc.live /\ text' # None /\ entry'[table].doc.at # text' => Changing'
  BY <1>1, <1>4 DEF Shared
<1>6. entry'[table].doc # None
  BY NewEntryTyped
<1>7. ASSUME NEW j \in Importers, Knows(j)', mine'[j] = table, text' # None, seen'[j] # text'
      PROVE  Changing' \/ Noticed(j)' \/ Reloading'
  <2>1. CASE Knows(j) /\ mine[j] = table /\ seen'[j] = seen[j]
    <3>1. entry[table].doc = None \/ text' = text
      OBVIOUS
    <3>. QED BY <1>1, <1>4, <1>7, <2>1, <3>1
  <2>2. CASE j # i
    BY <1>7, <2>1, <2>2 DEF Knows
  <2>3. CASE j = i /\ entry[table].doc # None /\ seen'[i] = Text(entry[table].doc)
    <3>1. text' = text
      BY <2>3
    <3>. QED BY <1>1, <1>4, <1>7, <2>3, <3>1 DEF Text
  <2>4. CASE j = i /\ seen'[i] = seen[i] /\ (mine[i] = table \/ i \in missed' \/ seen[i] = None)
    BY <1>7, <2>1, <2>4 DEF Knows, Noticed
  <2>. QED BY <1>7, <2>2, <2>3, <2>4
<1>8. ResourceIsKept'
  BY <1>5, <1>6, <1>7 DEF ResourceIsKept
<1>. QED BY <1>2, <1>8 DEF ResourceOK

LEMMA ResourceGetEntry ==
  ASSUME TypeOK, LocksOK, TasksFit, WaitsForFull, ResourceOK, NEW i \in Importers, NEW e \in Entries, get_entry(i, e)
  PROVE  ResourceOK'
<1>1. /\ pc[i] = "found" /\ ~TableLocked /\ table' = e /\ mine' = [mine EXCEPT ![i] = e]
      /\ UNCHANGED <<what, round, tasks>>
      /\ IF table = None THEN Unused(e) /\ entry[e] = NewEntry ELSE e = table
  BY GetEntryIs
<1>2. mine'[i] = e /\ \A j \in Importers \ {i} : mine'[j] = mine[j]
  BY <1>1 DEF TypeOK, ImportersOK
<1>3. /\ missed \subseteq missed' /\ (round[i] = 2 /\ mine[i] # e => i \in missed')
      /\ round[i] \in {1, 2} /\ (round[i] = 1 => seen[i] = None)
  BY <1>1 DEF get_entry, TypeOK, ImportersOK, TasksFit, Unseen
<1>4. CASE kind # "resource"
  BY <1>1, <1>4 DEF ResourceOK, what
<1>5. CASE kind = "resource"
  <2>1. /\ Asked(i, e) \in [Entries -> Contents] /\ Asked(i, e)[e].doc = entry[e].doc
        /\ \A d \in Entries \ {e} : Asked(i, e)[d] = entry[d]
    BY AskedTypes
  <2>2. CASE EntryBusy(e)
    <3>1. entry[e].doc # None
      BY <1>1, <1>5, <2>2, BusyIsFull
    <3>2. e = table
      BY <1>1, <3>1 DEF NewEntry
    <3>3. /\ entry' = Asked(i, e) /\ text' = text /\ seen' = seen
          /\ \A j \in Importers \ {i} : pc'[j] = pc[j]
      BY <1>5, <2>2, GetEntryIs DEF TypeOK, ImportersOK
    <3>. QED BY <1>1, <1>2, <1>3, <1>5, <2>1, <3>1, <3>2, <3>3, ResourceTaken DEF what, tasks
  <2>3. CASE ~EntryBusy(e)
    <3>1. get_document(i, e, Asked(i, e))
      BY <1>5, <2>3, GetEntryIs
    <3>2. /\ entry[e].doc = None =>
               entry'[e].doc = Shared /\ text' # None /\ (round[i] = 1 => seen'[i] = text')
          /\ entry[e].doc # None =>
               entry'[e].doc = entry[e].doc /\ text' = text /\ (round[i] = 1 => seen'[i] = Text(entry[e].doc))
          /\ round[i] # 1 => seen'[i] = seen[i]
          /\ \A j \in Importers \ {i} : seen'[j] = seen[j] /\ pc'[j] = pc[j]
      BY <2>1, <3>1, DocumentIs
    <3>3. \A d \in Entries \ {e} : entry'[d] = entry[d]
      BY <2>1, <3>1, DocumentTypes
    <3>4. CASE e = table
      BY <1>1, <1>2, <1>3, <1>5, <3>2, <3>3, <3>4, ResourceTaken DEF what, tasks
    <3>5. CASE e # table
      <4>1. Unused(e) /\ entry[e].doc = None
        BY <1>1, <3>5 DEF NewEntry
      <4>2. entry'[e].doc = Shared /\ \A j \in Importers : Knows(j)' /\ mine'[j] = e => seen'[j] = text' \/ Noticed(j)'
        <5>1. \A j \in Importers : mine'[j] = e => j = i
          BY <1>2, <4>1 DEF Unused
        <5>2. mine[i] # e
          BY <4>1 DEF Unused
        <5>. QED BY <1>3, <3>2, <4>1, <5>1, <5>2 DEF Noticed
      <4>3. \A d \in Entries : entry'[d].doc # None /\ entry'[d].doc.live => entry'[d].doc = Shared'
        BY <1>5, <3>3, <4>2 DEF ResourceOK, Shared
      <4>4. ResourceIsKept'
        BY <1>1, <4>2, NewEntryTyped DEF ResourceIsKept, Shared
      <4>. QED BY <4>3, <4>4 DEF ResourceOK
    <3>. QED BY <3>4, <3>5
  <2>. QED BY <2>2, <2>3
<1>. QED BY <1>4, <1>5

LEMMA ResourceLocked ==
  ASSUME TypeOK, LocksOK, TasksFit, WaitsForFull, ResourceOK, NEW i \in Importers, get_locked_document(i)
  PROVE  ResourceOK'
<1>1. /\ pc[i] = "entered" /\ mine[i] \in Entries /\ entry \in [Entries -> Contents]
      /\ get_document(i, mine[i], entry)
      /\ UNCHANGED <<kind, table, round, mine, events, notices, missed>>
  BY DEF get_locked_document, TypeOK, ImportersOK, ManagerOK, what, tasks
<1>2. kind = "resource" /\ entry[mine[i]].doc # None
  BY <1>1 DEF TasksFit, Unseen, TypeOK, WhatOK, WaitsForFull
<1>3. /\ entry'[mine[i]].doc = entry[mine[i]].doc /\ text' = text
      /\ round[i] = 1 => seen'[i] = Text(entry[mine[i]].doc)
      /\ round[i] # 1 => seen'[i] = seen[i]
      /\ \A j \in Importers \ {i} : seen'[j] = seen[j] /\ pc'[j] = pc[j]
  BY <1>1, <1>2, DocumentIs
<1>4. \A d \in Entries \ {mine[i]} : entry'[d] = entry[d]
  BY <1>1, DocumentTypes
<1>5. CASE mine[i] = table
  BY <1>1, <1>2, <1>3, <1>4, <1>5, ResourceTaken
<1>6. CASE mine[i] # table
  <2>1. \A e \in Entries : entry'[e].doc = entry[e].doc
    BY <1>3, <1>4
  <2>2. \A j \in Importers : Knows(j)' /\ mine'[j] = table =>
          Knows(j) /\ mine[j] = table /\ seen'[j] = seen[j] /\ (Noticed(j) => Noticed(j)')
    BY <1>1, <1>3, <1>6 DEF Knows, Noticed
  <2>3. Changing' = Changing /\ Reloading' = Reloading /\ table \in Entries \union {None}
    BY <1>1 DEF Changing, Reloading, TypeOK, ManagerOK
  <2>. QED BY <1>1, <1>3, <2>1, <2>2, <2>3, ResourceKept
<1>. QED BY <1>5, <1>6

LEMMA ResourceImport ==
  ASSUME TypeOK, LocksOK, TasksFit, ResourceOK, NEW i \in Importers,
         \/ find_file(i) \/ load_library(i) \/ update_library(i) \/ load_fails(i) \/ add_file_watchers(i)
         \/ get_resource_entry(i) \/ initialized(i) \/ cancel(i)
         \/ drop_import(i) \/ \E p : imports_changed(i, p)
  PROVE  ResourceOK'
<1>1. UNCHANGED <<kind, events, table, text>>
  BY DEF find_file, load_library, update_library, load_fails, add_file_watchers, get_resource_entry,
     initialized, cancel, drop_import, imports_changed, what, tasks, manager, files
<1>2. CASE kind # "resource"
  BY <1>1, <1>2 DEF ResourceOK
<1>3. CASE kind = "resource"
  <2>1. pc[i] \notin {"loading", "loaded"}
    BY <1>3 DEF LocksOK, KindOK
  <2>2. \A e \in Entries : entry'[e].doc = entry[e].doc
    <3>1. CASE add_file_watchers(i)
      BY <3>1 DEF add_file_watchers, TypeOK, ManagerOK, Contents
    <3>2. CASE drop_import(i)
      BY <3>2, DroppedTyped DEF drop_import
    <3>. QED BY <2>1, <3>1, <3>2 DEF find_file, load_library, update_library, load_fails, get_resource_entry,
       initialized, cancel, imports_changed, manager
  <2>3. \A j \in Importers \ {i} : pc'[j] = pc[j] /\ mine'[j] = mine[j] /\ seen'[j] = seen[j]
    BY DEF find_file, load_library, update_library, load_fails, add_file_watchers, get_resource_entry,
       initialized, cancel, drop_import, imports_changed, TypeOK, ImportersOK
  <2>4. Knows(i)' => Knows(i) /\ mine'[i] = mine[i] /\ seen'[i] = seen[i]
    <3>1. CASE find_file(i) \/ cancel(i) \/ drop_import(i)
      BY <3>1 DEF find_file, cancel, drop_import, Knows, TypeOK, ImportersOK
    <3>2. CASE add_file_watchers(i) \/ get_resource_entry(i) \/ initialized(i) \/ \E p : imports_changed(i, p)
      BY <3>2 DEF add_file_watchers, get_resource_entry, initialized, imports_changed, Knows, TypeOK, ImportersOK
    <3>. QED BY <2>1, <3>1, <3>2 DEF load_library, update_library, load_fails
  <2>5. \A j \in Importers : Knows(j)' /\ Noticed(j) => Noticed(j)'
    <3>1. CASE find_file(i)
      BY <2>4, <3>1 DEF find_file, tasks, Noticed, Knows, TypeOK, ImportersOK
    <3>2. CASE \E p : imports_changed(i, p)
      <4>1. PICK p : imports_changed(i, p)
        BY <3>2
      <4>2. /\ notices' = notices \ {<<i, p>>} /\ missed \subseteq missed'
            /\ Knows(i)' => i \in missed'
        BY <1>3, <4>1 DEF imports_changed, Knows, TypeOK, ImportersOK
      <4>. QED BY <4>2 DEF Noticed
    <3>. QED BY <2>1, <3>1, <3>2 DEF load_library, update_library, load_fails, add_file_watchers, get_resource_entry,
       initialized, cancel, drop_import, tasks, Noticed
  <2>6. Changing' = Changing /\ Reloading' = Reloading /\ table \in Entries \union {None}
    BY <1>1 DEF Changing, Reloading, TypeOK, ManagerOK
  <2>7. \A j \in Importers : Knows(j)' /\ mine'[j] = table =>
          Knows(j) /\ mine[j] = table /\ seen'[j] = seen[j] /\ (Noticed(j) => Noticed(j)')
    BY <2>3, <2>4, <2>5 DEF Knows
  <2>. QED BY <1>1, <2>2, <2>6, <2>7, ResourceKept
<1>. QED BY <1>2, <1>3

LEMMA AllNotified ==
  ASSUME NEW p, Notify(p), pc' = pc
  PROVE  /\ \A i \in Importers : pc[i] # "idle" => <<i, p>> \in notices'
         /\ \A i \in Importers : pc[i] # "idle" => \E n \in notices' : n[1] = i
         /\ notices \subseteq notices'
<1>1. /\ notices \subseteq notices'
      /\ \A i \in Importers : pc[i] # "idle" => <<i, p>> \in notices'
  BY DEF Notify
<1>2. \A i \in Importers : <<i, p>>[1] = i
  OBVIOUS
<1>. QED BY <1>1, <1>2

LEMMA ResourceHandle ==
  ASSUME TypeOK, LocksOK, TasksFit, ResourceOK, NEW h \in events, Handle(h)
  PROVE  ResourceOK'
<1>1. /\ UNCHANGED <<kind, table, pc, mine, seen, missed>> /\ HandlerDoes(h)
      /\ Handled(h) \/ ~TableLocked
  BY HandleIs DEF Handle, handler_starts, handler_checks, handler_invalidates, unwatched, reload, what, importers,
     TasksFit, Handled
<1>2. CASE kind # "resource"
  BY <1>1, <1>2 DEF ResourceOK
<1>3. CASE kind = "resource"
  <2>1. table \in Entries \union {None} /\ entry \in [Entries -> Contents]
    BY DEF TypeOK, ManagerOK
  <2>2. h.pc # "reload" => ~Reloading
    BY <1>1, FreeTable DEF LocksOK, TableLockedOnce, Reloading, Handled
  <2>3. (h.type = "file" => \A g \in events : g.type # "file" => g \in Others(h))
    BY DEF Others, TasksFit, Distinct
  <2>4. CASE HandlerOver(h)
    <3>1. /\ entry' = entry /\ text' = text /\ notices' = notices /\ events' = Others(h) /\ ~Reloading
          /\ table = None \/ entry[table].doc = None \/ h.type = "file"
      BY <2>2, <2>4 DEF HandlerOver
    <3>2. \A e \in Entries : entry'[e].doc # None /\ entry'[e].doc.live => entry'[e].doc = Shared'
      BY <1>3, <3>1 DEF ResourceOK, Shared
    <3>3. \A i \in Importers : Noticed(i)' = Noticed(i) /\ Knows(i)' = Knows(i)
      BY <1>1, <3>1 DEF Noticed, Knows
    <3>4. CASE table = None
      BY <1>1, <3>2, <3>4 DEF ResourceOK, ResourceIsKept
    <3>5. CASE table # None /\ entry[table].doc = None
      <4>1. \A i \in Importers : Knows(i) /\ mine[i] = table => Noticed(i)
        BY <1>3, <3>1, <3>5 DEF ResourceOK, ResourceIsKept
      <4>. QED BY <1>1, <3>1, <3>2, <3>3, <3>5, <4>1 DEF ResourceOK, ResourceIsKept
    <3>6. CASE h.type = "file"
      <4>1. Changing => Changing'
        BY <2>3, <3>1, <3>6 DEF Changing
      <4>. QED BY <1>1, <2>1, <3>1, <3>3, <4>1, ResourceKept DEF Knows
    <3>. QED BY <3>1, <3>4, <3>5, <3>6
  <2>5. CASE HandlerGoesOn(h)
    <3>1. /\ entry' = entry /\ text' = text /\ notices' = notices /\ ~Reloading
          /\ \E g : GoesOn(h, g)
      BY <2>2, <2>5 DEF HandlerGoesOn
    <3>2. PICK g : GoesOn(h, g)
      BY <3>1
    <3>3. ASSUME Changing PROVE Changing'
      <4>1. PICK f \in events : f.type # "file"
        BY <3>3 DEF Changing
      <4>2. CASE f.id = h.id
        BY <3>2, <4>1, <4>2 DEF GoesOn, Changing, TasksFit, Distinct
      <4>3. CASE f.id # h.id
        BY <3>2, <4>1, <4>3 DEF GoesOn, Changing, Others
      <4>. QED BY <4>2, <4>3
    <3>4. \A i \in Importers : Noticed(i)' = Noticed(i) /\ Knows(i)' = Knows(i)
      BY <1>1, <3>1 DEF Noticed, Knows
    <3>. QED BY <1>1, <2>1, <3>1, <3>3, <3>4, ResourceKept DEF Knows
  <2>6. CASE HandlerEmpties(h)
    <3>1. table # None /\ table \in Entries /\ entry' = Cleared(table)
      BY <2>1, <2>6 DEF HandlerEmpties
    <3>2. entry'[table].doc = None /\ \A e \in Entries \ {table} : entry'[e] = entry[e]
      BY <3>1, ClearedTyped
    <3>3. \A e \in Entries : entry'[e].doc # None /\ entry'[e].doc.live => entry'[e].doc = Shared'
      BY <1>3, <3>2 DEF ResourceOK, Shared
    <3>4. Reloading' \/ \A i \in Importers : Knows(i)' => Noticed(i)'
      <4>1. CASE \E g : GoesOn(h, g) /\ g.pc = "reload"
        BY <4>1 DEF GoesOn, Reloading
      <4>2. CASE Notify(None)
        BY <1>1, <4>2, AllNotified DEF Knows, Noticed
      <4>. QED BY <1>3, <2>6, <4>1, <4>2 DEF HandlerEmpties
    <3>5. ResourceIsKept'
      BY <1>1, <3>2, <3>4 DEF ResourceIsKept
    <3>. QED BY <3>3, <3>5 DEF ResourceOK
  <2>7. CASE HandlerFills(h)
    <3>1. /\ entry'[table].doc = Shared /\ \A e \in Entries \ {table} : entry'[e] = entry[e]
          /\ Notify(None)
      BY <2>7 DEF HandlerFills
    <3>2. \A e \in Entries : entry'[e].doc # None /\ entry'[e].doc.live => entry'[e].doc = Shared'
      BY <1>3, <3>1 DEF ResourceOK, Shared
    <3>3. \A i \in Importers : Knows(i)' => Noticed(i)'
      BY <1>1, <3>1, AllNotified DEF Knows, Noticed
    <3>4. ResourceIsKept'
      BY <1>1, <3>1, <3>3 DEF ResourceIsKept, Shared
    <3>. QED BY <3>2, <3>4 DEF ResourceOK
  <2>. QED BY <1>1, <2>4, <2>5, <2>6, <2>7 DEF HandlerDoes
<1>. QED BY <1>2, <1>3

LEMMA ResourceRemove ==
  ASSUME TypeOK, ResourceOK, NEW r \in removals, Remove(r)
  PROVE  ResourceOK'
<1>1. UNCHANGED <<kind, text, pc, mine, seen, missed, events, notices>> /\ r.entry \in Entries
  BY DEF Remove, removal_starts, removal_locks, removal_ends, what, files, importers, TypeOK, TasksOK, Leaving
<1>2. CASE RemovalGoesOn
  <2>1. /\ Changing' = Changing /\ Reloading' = Reloading /\ table \in Entries \union {None}
        /\ \A i \in Importers : Noticed(i)' = Noticed(i) /\ Knows(i)' = Knows(i)
    BY <1>1 DEF Changing, Reloading, Noticed, Knows, TypeOK, ManagerOK
  <2>. QED BY <1>1, <1>2, <2>1, ResourceKept DEF RemovalGoesOn
<1>3. CASE RemovalEmpties(r)
  <2>1. table' = None /\ entry' = Cleared(r.entry)
    BY <1>3 DEF RemovalEmpties
  <2>2. entry'[r.entry].doc = None /\ \A e \in Entries \ {r.entry} : entry'[e] = entry[e]
    BY <1>1, <2>1, ClearedTyped
  <2>3. ResourceIsKept'
    BY <2>1 DEF ResourceIsKept
  <2>4. kind = "resource" => \A e \in Entries : entry'[e].doc # None /\ entry'[e].doc.live => entry'[e].doc = Shared'
    BY <2>2 DEF ResourceOK, Shared
  <2>. QED BY <1>1, <2>3, <2>4 DEF ResourceOK
<1>. QED BY <1>2, <1>3, RemoveIs

LEMMA ResourceElse ==
  ASSUME TypeOK, LocksOK, ResourceOK,
         \/ \E e \in Entries : del_entry(e)
         \/ \E c \in closings : close_document(c)
         \/ change_file \/ other_watch \/ did_open \/ did_change \/ did_save \/ did_close
  PROVE  ResourceOK'
<1>1. UNCHANGED <<kind, pc, mine, seen, missed, notices, table>> /\ events \subseteq events'
      /\ table \in Entries \union {None}
  BY DEF del_entry, close_document, change_file, other_watch, did_open, did_change, did_save, did_close,
     what, importers, manager, tasks, Happens, TypeOK, ManagerOK
<1>2. /\ (Changing => Changing') /\ (Reloading => Reloading')
      /\ \A i \in Importers : Noticed(i)' = Noticed(i) /\ Knows(i)' = Knows(i)
  BY <1>1 DEF Changing, Reloading, Noticed, Knows
<1>3. CASE \E e \in Entries : del_entry(e)
  <2>1. PICK e \in Entries : del_entry(e)
    BY <1>3
  <2>2. /\ e # table /\ text' = text /\ entry'[e] = NewEntry
        /\ \A d \in Entries \ {e} : entry'[d] = entry[d]
    BY <2>1 DEF del_entry, Unused, files, TypeOK, ManagerOK
  <2>3. kind = "resource" => \A d \in Entries : entry'[d].doc # None /\ entry'[d].doc.live => entry'[d].doc = Shared'
    BY <2>2 DEF ResourceOK, Shared, NewEntry
  <2>4. table # None => entry'[table] = entry[table]
    BY <1>1, <2>2
  <2>5. kind = "resource" => ResourceIsKept'
    BY <1>1, <1>2, <2>2, <2>4 DEF ResourceOK, ResourceIsKept
  <2>. QED BY <1>1, <2>3, <2>5 DEF ResourceOK
<1>4. CASE \E c \in closings : close_document(c)
  <2>1. CASE entry' = entry /\ text' = text
    BY <1>1, <1>2, <2>1, ResourceKept
  <2>2. CASE /\ text' = None
             /\ entry' = [e \in Entries |->
                            IF entry[e].doc = Shared
                            THEN [entry[e] EXCEPT !.doc = [live |-> FALSE, at |-> text]] ELSE entry[e]]
    <3>. DEFINE d == [live |-> FALSE, at |-> text]
    <3>1. ~d.live /\ d # None
      BY OldTyped DEF TypeOK, FilesOK
    <3>. HIDE DEF d
    <3>2. ASSUME NEW e \in Entries
          PROVE  entry'[e].doc = IF entry[e].doc = Shared THEN d ELSE entry[e].doc
      <4>1. entry[e] \in Contents /\ entry'[e] = IF entry[e].doc = Shared THEN [entry[e] EXCEPT !.doc = d] ELSE entry[e]
        BY <2>2 DEF TypeOK, ManagerOK, d
      <4>. QED BY <4>1 DEF Contents
    <3>3. kind = "resource" => \A e \in Entries : entry'[e].doc # None /\ entry'[e].doc.live => entry'[e].doc = Shared'
      BY <3>1, <3>2 DEF ResourceOK, Shared
    <3>4. ASSUME kind = "resource", table # None, NEW i \in Importers, Knows(i)', mine'[i] = table, entry'[table].doc = None
          PROVE  Noticed(i)' \/ Reloading'
      <4>1. entry[table].doc = None
        BY <1>1, <3>1, <3>2, <3>4
      <4>. QED BY <1>1, <1>2, <3>4, <4>1 DEF ResourceOK, ResourceIsKept
    <3>5. kind = "resource" => ResourceIsKept'
      BY <1>1, <2>2, <3>4 DEF ResourceIsKept
    <3>. QED BY <1>1, <3>3, <3>5 DEF ResourceOK
  <2>. QED BY <1>4, <2>1, <2>2 DEF close_document
<1>5. CASE entry' = entry /\ text' = text
  BY <1>1, <1>2, <1>5, ResourceKept
<1>6. CASE did_open \/ did_change
  <2>1. Changing' /\ entry' = entry
    <3>1. Happens("document")
      BY <1>6 DEF did_open, did_change
    <3>2. [id |-> count, type |-> "document", entry |-> None, pc |-> "posted"] \in events'
      BY <3>1 DEF Happens
    <3>. QED BY <1>6, <3>2 DEF Changing, did_open, did_change, manager
  <2>2. kind = "resource" => \A e \in Entries : entry'[e].doc # None /\ entry'[e].doc.live => entry'[e].doc = Shared'
    BY <2>1 DEF ResourceOK, Shared
  <2>3. kind = "resource" => ResourceIsKept'
    BY <1>1, <1>2, <2>1 DEF ResourceOK, ResourceIsKept
  <2>. QED BY <1>1, <2>2, <2>3 DEF ResourceOK
<1>. QED BY <1>3, <1>4, <1>5, <1>6 DEF change_file, other_watch, did_save, did_close, files, manager

(* And of a library. *)
Told(i) == i \in missed \/ <<i, seen[i]>> \in notices

LEMMA LibraryKept ==
  ASSUME TypeOK, LibraryOK, UNCHANGED <<kind, opened, source, latest, unheard>>, table' = table \/ table' = None,
         \A e \in Entries : entry'[e].doc = entry[e].doc \/ (entry'[e].doc = None /\ table' # e),
         \A j \in Importers : pc'[j] \in {"loading", "loaded"} =>
           pc'[j] = pc[j] /\ mine'[j] = mine[j] /\ seen'[j] = seen[j],
         \A j \in Importers : seen'[j] \in {seen[j], None},
         events # {} => events' # {},
         \A j \in Importers : Knows(j)' /\ mine'[j] = table =>
           /\ Knows(j) /\ mine[j] = table /\ seen'[j] = seen[j]
           /\ pc[j] = "loaded" => pc'[j] = "loaded"
           /\ Told(j) => Told(j)'
  PROVE  LibraryOK'
<1>1. SUFFICES ASSUME kind = "library"
               PROVE  LibraryTexts' /\ LibraryLoads' /\ LibraryIsKept'
  BY DEF LibraryOK
<1>2. LibraryTexts'
  BY <1>1 DEF LibraryOK, LibraryTexts
<1>3. LibraryLoads'
  <2>1. ASSUME NEW j \in Importers, pc'[j] \in {"loading", "loaded"}
        PROVE  /\ entry'[mine'[j]].doc = None
               /\ pc'[j] = "loaded" =>
                    seen'[j] # None /\ (seen'[j] # source' => events' # {} \/ seen'[j] < unheard')
    <3>1. pc'[j] = pc[j] /\ mine'[j] = mine[j] /\ seen'[j] = seen[j] /\ mine[j] \in Entries
      BY <2>1 DEF TypeOK, ImportersOK
    <3>2. entry[mine[j]].doc = None
      BY <1>1, <2>1, <3>1 DEF LibraryOK, LibraryLoads
    <3>3. entry'[mine[j]].doc = None
      BY <3>1, <3>2
    <3>. QED BY <1>1, <2>1, <3>1, <3>3 DEF LibraryOK, LibraryLoads
  <2>. QED BY <2>1 DEF LibraryLoads
<1>4. LibraryIsKept'
  <2>1. SUFFICES ASSUME table' # None
                 PROVE  LibraryIsKept'
    BY DEF LibraryIsKept
  <2>2. table' = table /\ table # None /\ entry'[table].doc = entry[table].doc
    BY <2>1 DEF TypeOK, ManagerOK
  <2>3. entry[table].doc # None /\ entry[table].doc.at # source => events # {} \/ entry[table].doc.at < unheard
    BY <1>1, <2>2 DEF LibraryOK, LibraryIsKept
  <2>4. ASSUME NEW j \in Importers, Knows(j)', mine'[j] = table
        PROVE  pc'[j] = "loaded" \/ entry[table].doc = [live |-> FALSE, at |-> seen'[j]] \/ Told(j)'
    BY <1>1, <2>2, <2>4 DEF LibraryOK, LibraryIsKept, Told
  <2>. QED BY <2>2, <2>3, <2>4 DEF LibraryIsKept, Told
<1>. QED BY <1>2, <1>3, <1>4

LEMMA LibraryGetEntry ==
  ASSUME TypeOK, LocksOK, TasksFit, LibraryOK, NEW i \in Importers, NEW e \in Entries, get_entry(i, e)
  PROVE  LibraryOK'
<1>1. /\ pc[i] = "found" /\ ~TableLocked /\ table' = e /\ mine' = [mine EXCEPT ![i] = e]
      /\ UNCHANGED <<what, source, latest, opened, tasks, unheard>>
      /\ IF table = None THEN Unused(e) /\ entry[e] = NewEntry ELSE e = table
  BY GetEntryIs
<1>2. mine'[i] = e /\ \A j \in Importers \ {i} : mine'[j] = mine[j]
  BY <1>1 DEF TypeOK, ImportersOK
<1>3. CASE kind # "library"
  BY <1>1, <1>3 DEF LibraryOK, what
<1>4. CASE kind = "library"
  <2>1. get_libdoc(i, e, Asked(i, e)) /\ seen[i] = None /\ missed \subseteq missed'
    BY <1>1, <1>4, GetEntryIs DEF TasksFit, Unseen, get_entry
  <2>2. \A d \in Entries : entry'[d].doc = entry[d].doc
    BY <2>1, AskedTypes DEF get_libdoc
  <2>3. \A j \in Importers : pc[j] \notin {"loading", "loaded"}
    BY <1>1, <1>4, FreeTable DEF Imports_
  <2>4. /\ \A j \in Importers \ {i} : pc'[j] = pc[j] /\ seen'[j] = seen[j]
        /\ \/ entry[e].doc = None /\ pc'[i] = "loading" /\ seen'[i] = None
           \/ entry[e].doc # None /\ pc'[i] = "holding" /\ seen'[i] = entry[e].doc.at
    BY <2>1, AskedTypes DEF get_libdoc, TypeOK, ImportersOK
  <2>5. LibraryTexts'
    BY <1>1, <1>4, <2>2, <2>4 DEF LibraryOK, LibraryTexts
  <2>6. LibraryLoads'
    BY <1>2, <2>2, <2>3, <2>4 DEF LibraryLoads
  <2>7. entry'[e].doc # None /\ entry'[e].doc.at # source' => events' # {} \/ entry'[e].doc.at < unheard'
    <3>1. CASE table = None
      BY <1>1, <2>2, <3>1 DEF NewEntry
    <3>2. CASE table # None
      BY <1>1, <1>4, <2>2, <3>2 DEF LibraryOK, LibraryIsKept, tasks
    <3>. QED BY <3>1, <3>2
  <2>8. ASSUME NEW j \in Importers, Knows(j)', mine'[j] = e
        PROVE  entry'[e].doc = [live |-> FALSE, at |-> seen'[j]] \/ Told(j)'
    <3>1. CASE j = i
      <4>1. entry[e].doc # None /\ seen'[j] = entry[e].doc.at /\ entry[e].doc \in Documents /\ ~entry[e].doc.live
        BY <1>4, <2>4, <2>8, <3>1 DEF Knows, LibraryOK, LibraryTexts, TypeOK, ManagerOK, Contents
      <4>. QED BY <2>2, <4>1, OldIs
    <3>2. CASE j # i
      <4>1. e = table /\ table # None
        BY <1>1, <1>2, <2>8, <3>2 DEF Unused, TypeOK, ManagerOK
      <4>2. Knows(j) /\ mine[j] = table /\ seen'[j] = seen[j]
        BY <1>2, <2>4, <2>8, <3>2, <4>1 DEF Knows
      <4>3. entry[table].doc = [live |-> FALSE, at |-> seen[j]] \/ Told(j)
        BY <1>4, <2>3, <4>1, <4>2 DEF LibraryOK, LibraryIsKept, Told
      <4>. QED BY <1>1, <2>1, <2>2, <4>1, <4>2, <4>3 DEF Told, tasks
    <3>. QED BY <3>1, <3>2
  <2>9. LibraryIsKept'
    BY <1>1, <2>7, <2>8 DEF LibraryIsKept, Told
  <2>. QED BY <2>5, <2>6, <2>9 DEF LibraryOK
<1>. QED BY <1>3, <1>4

LEMMA LibraryLoaded ==
  ASSUME TypeOK, TasksFit, LibraryOK, NEW i \in Importers, load_library(i)
  PROVE  LibraryOK'
<1>1. /\ pc[i] = "loading" /\ pc'[i] = "loaded" /\ seen'[i] = source
      /\ \A j \in Importers \ {i} : pc'[j] = pc[j] /\ seen'[j] = seen[j]
      /\ UNCHANGED <<kind, opened, source, latest, table, entry, mine, events, notices, missed, unheard>>
  BY DEF load_library, what, files, manager, tasks, TypeOK, ImportersOK
<1>2. source # None
  BY ImportsAssumption DEF TypeOK, FilesOK
<1>3. CASE kind # "library"
  BY <1>1, <1>3 DEF LibraryOK
<1>4. CASE kind = "library"
  <2>1. LibraryTexts'
    BY <1>1, <1>4 DEF LibraryOK, LibraryTexts
  <2>2. LibraryLoads'
    BY <1>1, <1>2, <1>4 DEF LibraryOK, LibraryLoads
  <2>3. LibraryIsKept'
    BY <1>1, <1>4 DEF LibraryOK, LibraryIsKept, Knows
  <2>. QED BY <2>1, <2>2, <2>3 DEF LibraryOK
<1>. QED BY <1>3, <1>4

LEMMA LibraryUpdated ==
  ASSUME TypeOK, LocksOK, TasksFit, LibraryOK, NEW i \in Importers, update_library(i)
  PROVE  LibraryOK'
<1>. DEFINE d == [live |-> FALSE, at |-> seen[i]]
<1>1. /\ pc[i] = "loaded" /\ pc'[i] = "watching" /\ mine[i] \in Entries
      /\ \A j \in Importers \ {i} : pc'[j] = pc[j]
      /\ entry' = [entry EXCEPT ![mine[i]].doc = d]
      /\ UNCHANGED <<kind, opened, source, latest, table, mine, seen, events, notices, missed, unheard>>
  BY DEF update_library, what, files, tasks, TypeOK, ImportersOK
<1>2. kind = "library"
  BY <1>1 DEF LocksOK, KindOK
<1>3. /\ entry[mine[i]].doc = None /\ seen[i] # None /\ seen[i] <= latest /\ seen[i] \in Nat
      /\ seen[i] # source => events # {} \/ seen[i] < unheard
  BY <1>1, <1>2 DEF LibraryOK, LibraryLoads, LibraryTexts, TypeOK, ImportersOK, Texts
<1>4. d # None /\ d.at = seen[i] /\ ~d.live
  BY <1>3, OldTyped DEF Texts
<1>. HIDE DEF d
<1>5. entry'[mine[i]].doc = d /\ \A e \in Entries \ {mine[i]} : entry'[e] = entry[e]
  BY <1>1 DEF TypeOK, ManagerOK, Contents
<1>6. \A j \in Importers \ {i} : pc[j] \notin {"loading", "loaded"}
  BY <1>1, <1>2 DEF LocksOK, TableLockedOnce, Imports_
<1>7. LibraryTexts'
  BY <1>1, <1>2, <1>3, <1>4, <1>5 DEF LibraryOK, LibraryTexts
<1>8. LibraryLoads'
  BY <1>1, <1>6 DEF LibraryLoads
<1>9. LibraryIsKept'
  <2>1. CASE mine[i] # table
    <3>1. table # None => entry'[table] = entry[table]
      BY <1>5, <2>1 DEF TypeOK, ManagerOK
    <3>2. \A j \in Importers : Knows(j)' /\ mine[j] = table => j # i /\ Knows(j) /\ pc'[j] = pc[j]
      BY <1>1, <2>1 DEF Knows
    <3>. QED BY <1>1, <1>2, <3>1, <3>2 DEF LibraryOK, LibraryIsKept
  <2>2. CASE mine[i] = table
    <3>1. entry'[table].doc.at # source => events # {} \/ entry'[table].doc.at < unheard
      BY <1>3, <1>4, <1>5, <2>2
    <3>2. ASSUME NEW j \in Importers, Knows(j)', mine'[j] = table
          PROVE  entry'[table].doc = [live |-> FALSE, at |-> seen'[j]] \/ Told(j)'
      <4>1. CASE j = i
        BY <1>1, <1>5, <2>2, <4>1 DEF d
      <4>2. CASE j # i
        <5>1. Knows(j) /\ mine[j] = table /\ table # None /\ table \in Entries /\ seen[j] \in Texts
          BY <1>1, <2>2, <3>2, <4>2, ImportsAssumption DEF Knows, TypeOK, ImportersOK
        <5>2. [live |-> FALSE, at |-> seen[j]] # None
          BY <5>1, OldTyped
        <5>. QED BY <1>1, <1>2, <1>3, <1>6, <2>2, <4>2, <5>1, <5>2 DEF LibraryOK, LibraryIsKept, Told
      <4>. QED BY <4>1, <4>2
    <3>. QED BY <1>1, <3>1, <3>2 DEF LibraryIsKept, Told
  <2>. QED BY <2>1, <2>2
<1>. QED BY <1>7, <1>8, <1>9 DEF LibraryOK

LEMMA LibraryImport ==
  ASSUME TypeOK, LocksOK, TasksFit, LibraryOK, NEW i \in Importers,
         \/ find_file(i) \/ load_fails(i) \/ add_file_watchers(i)
         \/ get_resource_entry(i) \/ initialized(i) \/ cancel(i)
         \/ drop_import(i) \/ \E p : imports_changed(i, p)
  PROVE  LibraryOK'
<1>1. UNCHANGED <<kind, opened, source, latest, unheard, table, events>>
  BY DEF find_file, load_fails, add_file_watchers, get_resource_entry, initialized, cancel, drop_import,
     imports_changed, what, tasks, manager, files
<1>2. CASE kind # "library"
  BY <1>1, <1>2 DEF LibraryOK
<1>3. CASE kind = "library"
  <2>1. \A e \in Entries : entry'[e].doc = entry[e].doc
    <3>1. CASE add_file_watchers(i)
      BY <3>1 DEF add_file_watchers, TypeOK, ManagerOK, Contents
    <3>2. CASE drop_import(i)
      BY <3>2, DroppedTyped DEF drop_import
    <3>. QED BY <3>1, <3>2 DEF find_file, load_fails, get_resource_entry, initialized, cancel, imports_changed, manager
  <2>2. \A j \in Importers \ {i} : pc'[j] = pc[j] /\ mine'[j] = mine[j] /\ seen'[j] = seen[j]
    BY DEF find_file, load_fails, add_file_watchers, get_resource_entry, initialized, cancel, drop_import,
       imports_changed, TypeOK, ImportersOK
  <2>3. pc'[i] \in {"loading", "loaded"} => pc'[i] = pc[i] /\ mine'[i] = mine[i] /\ seen'[i] = seen[i]
    BY DEF find_file, load_fails, add_file_watchers, get_resource_entry, initialized, cancel, drop_import,
       imports_changed, TypeOK, ImportersOK
  <2>4. seen'[i] \in {seen[i], None}
    BY DEF find_file, load_fails, add_file_watchers, get_resource_entry, initialized, cancel, drop_import,
       imports_changed, TypeOK, ImportersOK
  <2>5. Knows(i)' => Knows(i) /\ mine'[i] = mine[i] /\ seen'[i] = seen[i] /\ (pc[i] = "loaded" => pc'[i] = "loaded")
    <3>1. CASE find_file(i) \/ cancel(i) \/ drop_import(i)
      BY <3>1 DEF find_file, cancel, drop_import, Knows, TypeOK, ImportersOK
    <3>2. CASE load_fails(i)
      BY <3>2 DEF load_fails, Knows, TypeOK, ImportersOK
    <3>3. CASE add_file_watchers(i) \/ get_resource_entry(i) \/ initialized(i) \/ \E p : imports_changed(i, p)
      BY <3>3 DEF add_file_watchers, get_resource_entry, initialized, imports_changed, Knows, TypeOK, ImportersOK
    <3>. QED BY <3>1, <3>2, <3>3
  <2>6. \A j \in Importers : Knows(j)' /\ Told(j) => Told(j)'
    <3>1. CASE find_file(i)
      <4>1. ~Knows(i)' /\ notices' = notices /\ missed' = missed \ {i}
        BY <3>1 DEF find_file, tasks, Knows, TypeOK, ImportersOK
      <4>. QED BY <2>2, <4>1 DEF Told
    <3>2. CASE \E p : imports_changed(i, p)
      <4>1. PICK p : imports_changed(i, p)
        BY <3>2
      <4>2. /\ notices' = notices \ {<<i, p>>} /\ missed \subseteq missed' /\ seen' = seen
            /\ Knows(i)' => i \in missed' \/ seen[i] # p
        BY <1>3, <4>1 DEF imports_changed, Knows, TypeOK, ImportersOK
      <4>. QED BY <4>2 DEF Told
    <3>3. CASE load_fails(i) \/ add_file_watchers(i) \/ get_resource_entry(i) \/ initialized(i) \/ cancel(i) \/ drop_import(i)
      BY <3>3 DEF load_fails, add_file_watchers, get_resource_entry, initialized, cancel, drop_import, tasks, Told
    <3>. QED BY <3>1, <3>2, <3>3
  <2>7. \A j \in Importers : pc'[j] \in {"loading", "loaded"} =>
          pc'[j] = pc[j] /\ mine'[j] = mine[j] /\ seen'[j] = seen[j]
    BY <2>2, <2>3
  <2>8. \A j \in Importers : Knows(j)' /\ mine'[j] = table =>
          /\ Knows(j) /\ mine[j] = table /\ seen'[j] = seen[j]
          /\ pc[j] = "loaded" => pc'[j] = "loaded"
          /\ Told(j) => Told(j)'
    BY <2>2, <2>5, <2>6 DEF Knows
  <2>. QED BY <1>1, <2>1, <2>2, <2>4, <2>7, <2>8, LibraryKept
<1>. QED BY <1>2, <1>3

LEMMA LibraryHandle ==
  ASSUME TypeOK, LocksOK, TasksFit, LibraryOK, NEW h \in events, Handle(h)
  PROVE  LibraryOK'
<1>1. /\ UNCHANGED <<kind, opened, source, latest, unheard, table, pc, mine, seen, missed>> /\ HandlerDoes(h)
      /\ Handled(h) \/ ~TableLocked
  BY HandleIs DEF Handle, handler_starts, handler_checks, handler_invalidates, unwatched, reload, what, files, importers,
     TasksFit, Handled
<1>2. CASE kind # "library"
  BY <1>1, <1>2 DEF LibraryOK
<1>3. CASE kind = "library"
  <2>1. \A j \in Importers : pc[j] \notin {"loading", "loaded"}
    BY <1>1, <1>3, FreeTable DEF LocksOK, TableLockedOnce, Imports_
  <2>2. LibraryLoads'
    BY <1>1, <2>1 DEF LibraryLoads
  <2>3. CASE HandlerOver(h)
    <3>1. entry' = entry /\ notices' = notices /\ (table = None \/ entry[table].doc = None)
      BY <1>3, <2>3 DEF HandlerOver
    <3>2. LibraryTexts' /\ LibraryIsKept'
      BY <1>1, <1>3, <3>1 DEF LibraryOK, LibraryTexts, LibraryIsKept, Knows
    <3>. QED BY <2>2, <3>2 DEF LibraryOK
  <2>4. CASE HandlerGoesOn(h)
    <3>1. entry' = entry /\ notices' = notices /\ events' # {}
      BY <2>4 DEF HandlerGoesOn, GoesOn
    <3>2. LibraryTexts' /\ LibraryIsKept'
      BY <1>1, <1>3, <3>1 DEF LibraryOK, LibraryTexts, LibraryIsKept, Knows
    <3>. QED BY <2>2, <3>2 DEF LibraryOK
  <2>5. CASE HandlerEmpties(h)
    <3>1. table # None /\ table \in Entries /\ entry' = Cleared(table) /\ Notify(entry[table].doc.at)
      BY <1>3, <2>5 DEF HandlerEmpties, TypeOK, ManagerOK
    <3>2. entry'[table].doc = None /\ \A e \in Entries \ {table} : entry'[e] = entry[e]
      BY <3>1, ClearedTyped
    <3>3. LibraryTexts'
      BY <1>1, <1>3, <3>2 DEF LibraryOK, LibraryTexts
    <3>4. ASSUME NEW j \in Importers, Knows(j), mine[j] = table
          PROVE  Told(j)'
      <4>1. notices \subseteq notices' /\ <<j, entry[table].doc.at>> \in notices'
        BY <1>1, <3>1, <3>4, AllNotified DEF Knows
      <4>2. [live |-> FALSE, at |-> seen[j]].at = seen[j]
        OBVIOUS
      <4>. QED BY <1>1, <1>3, <2>1, <3>1, <3>4, <4>1, <4>2 DEF LibraryOK, LibraryIsKept, Told
    <3>5. LibraryIsKept'
      BY <1>1, <3>2, <3>4 DEF LibraryIsKept, Told, Knows
    <3>. QED BY <2>2, <3>3, <3>5 DEF LibraryOK
  <2>. QED BY <1>1, <1>3, <2>3, <2>4, <2>5 DEF HandlerDoes, HandlerFills
<1>. QED BY <1>2, <1>3

LEMMA LibraryRemove ==
  ASSUME TypeOK, LocksOK, LibraryOK, NEW r \in removals, Remove(r)
  PROVE  LibraryOK'
<1>1. /\ UNCHANGED <<kind, opened, source, latest, unheard, pc, mine, seen, missed, events, notices>>
      /\ r.entry \in Entries
  BY DEF Remove, removal_starts, removal_locks, removal_ends, what, files, importers, TypeOK, TasksOK, Leaving
<1>2. \A j \in Importers : Knows(j)' = Knows(j) /\ Told(j)' = Told(j)
  BY <1>1 DEF Knows, Told
<1>3. CASE RemovalGoesOn
  BY <1>1, <1>2, <1>3, LibraryKept DEF RemovalGoesOn
<1>4. CASE RemovalEmpties(r)
  <2>1. /\ entry' = Cleared(r.entry) /\ table' = None /\ r.entry # None
    BY <1>1, <1>4, ImportsAssumption DEF RemovalEmpties
  <2>2. \A e \in Entries : entry'[e].doc = entry[e].doc \/ (entry'[e].doc = None /\ table' # e)
    BY <1>1, <2>1, ClearedTyped
  <2>3. LibraryTexts /\ LibraryLoads => LibraryTexts' /\ LibraryLoads'
    <3>1. \A j \in Importers : pc[j] \in {"loading", "loaded"} => mine[j] \in Entries
      BY DEF TypeOK, ImportersOK
    <3>. QED BY <1>1, <2>2, <3>1 DEF LibraryTexts, LibraryLoads
  <2>4. LibraryIsKept'
    BY <2>1 DEF LibraryIsKept
  <2>. QED BY <1>1, <2>3, <2>4 DEF LibraryOK
<1>. QED BY <1>3, <1>4, RemoveIs

LEMMA LibraryElse ==
  ASSUME TypeOK, LocksOK, LibraryOK,
         \/ \E e \in Entries : del_entry(e)
         \/ \E c \in closings : close_document(c)
         \/ change_file \/ other_watch \/ did_open \/ did_change \/ did_save \/ did_close
  PROVE  LibraryOK'
<1>1. UNCHANGED <<kind, pc, mine, seen, missed, notices, table>> /\ events \subseteq events'
  BY DEF del_entry, close_document, change_file, other_watch, did_open, did_change, did_save, did_close,
     what, importers, manager, tasks, Happens
<1>2. \A j \in Importers : Knows(j)' = Knows(j) /\ Told(j)' = Told(j)
  BY <1>1 DEF Knows, Told
<1>3. CASE kind # "library"
  BY <1>1, <1>3 DEF LibraryOK
<1>4. CASE kind = "library"
  <2>1. ~opened /\ \A e \in Entries : entry[e].doc # Shared
    BY <1>4, NewEntryTyped DEF LibraryOK, LibraryTexts, Shared
  <2>2. CASE \E e \in Entries : del_entry(e)
    <3>1. PICK e \in Entries : del_entry(e)
      BY <2>2
    <3>2. /\ \A d \in Entries : entry'[d].doc = entry[d].doc \/ (entry'[d].doc = None /\ table' # d)
          /\ UNCHANGED <<opened, source, latest, unheard>>
      BY <3>1 DEF del_entry, Unused, files, manager, TypeOK, ManagerOK, NewEntry
    <3>. QED BY <1>1, <1>2, <3>2, LibraryKept
  <2>3. CASE \E c \in closings : close_document(c)
    <3>1. (\A e \in Entries : entry'[e] = entry[e]) /\ UNCHANGED <<opened, source, latest, unheard>>
      BY <2>1, <2>3 DEF close_document
    <3>. QED BY <1>1, <1>2, <3>1, LibraryKept
  <2>4. CASE change_file
    <3>1. /\ source' = latest + 1 /\ latest' = latest + 1 /\ entry' = entry /\ opened' = opened
          /\ latest \in Nat /\ unheard \in Nat
      BY <2>4 DEF change_file, NewVersion, manager, TypeOK, FilesOK, HistoryOK
    <3>2. events' # {} \/ unheard' = latest + 1
      <4>1. CASE listening /\ registered # {}
        BY <2>4, <4>1 DEF change_file, Happens
      <4>. QED BY <2>1, <2>4, <4>1 DEF change_file
    <3>3. \A j \in Importers : seen[j] \in Texts
      BY DEF TypeOK, ImportersOK
    <3>4. LibraryTexts'
      BY <1>1, <1>4, <3>1, <3>3 DEF LibraryOK, LibraryTexts, Texts
    <3>5. LibraryLoads'
      BY <1>1, <1>4, <3>1, <3>2, <3>3 DEF LibraryOK, LibraryTexts, LibraryLoads, Texts
    <3>6. LibraryIsKept'
      <4>1. SUFFICES ASSUME table # None
                     PROVE  LibraryIsKept'
        BY <1>1 DEF LibraryIsKept
      <4>2. entry[table].doc # None => events' # {} \/ entry[table].doc.at < unheard'
        BY <1>4, <3>1, <3>2, <4>1 DEF LibraryOK, LibraryTexts, TypeOK, ManagerOK
      <4>. QED BY <1>1, <1>2, <1>4, <3>1, <4>1, <4>2 DEF LibraryOK, LibraryIsKept, Knows
    <3>. QED BY <3>4, <3>5, <3>6 DEF LibraryOK
  <2>5. CASE other_watch
    <3>1. entry' = entry /\ UNCHANGED <<opened, source, latest, unheard, events>>
      BY <2>5 DEF other_watch, files, tasks
    <3>. QED BY <1>1, <1>2, <3>1, LibraryKept
  <2>6. ~did_open /\ ~did_change /\ ~did_save /\ ~did_close
    BY <1>4, <2>1 DEF did_open, did_change, did_save, did_close
  <2>. QED BY <2>2, <2>3, <2>4, <2>5, <2>6
<1>. QED BY <1>3, <1>4

(* One step, whatever it is. *)
LEMMA ToldStep ==
  ASSUME TypeOK, LocksOK, ToldOK, Next
  PROVE  ToldOK'
<1>1. TasksFit /\ LibraryOK /\ WaitsForFull /\ ResourceOK
  BY DEF ToldOK
<1>2. Steps_
  BY NextIs
<1>3. CASE \E i \in Importers : \E e \in Entries : get_entry(i, e)
  BY <1>1, <1>3, FitGetEntry, LibraryGetEntry, WaitsGetEntry, ResourceGetEntry DEF ToldOK
<1>4. CASE \E i \in Importers : get_locked_document(i)
  <2>1. PICK i \in Importers : get_locked_document(i)
    BY <1>4
  <2>2. LibraryOK'
    <3>1. kind # "library" /\ kind' = kind
      BY <1>1, <2>1 DEF get_locked_document, TasksFit, Unseen, what
    <3>. QED BY <3>1 DEF LibraryOK
  <2>. QED BY <1>1, <2>1, <2>2, FitLocked, WaitsLocked, ResourceLocked DEF ToldOK
<1>5. CASE \E i \in Importers :
             \/ find_file(i) \/ load_library(i) \/ update_library(i) \/ load_fails(i) \/ add_file_watchers(i)
             \/ get_resource_entry(i) \/ initialized(i) \/ cancel(i)
             \/ drop_import(i) \/ \E n \in notices : imports_changed(i, n[2])
  <2>1. PICK i \in Importers :
          \/ find_file(i) \/ load_library(i) \/ update_library(i) \/ load_fails(i) \/ add_file_watchers(i)
          \/ get_resource_entry(i) \/ initialized(i) \/ cancel(i)
          \/ drop_import(i) \/ \E p : imports_changed(i, p)
    BY <1>5
  <2>2. LibraryOK'
    BY <1>1, <2>1, LibraryLoaded, LibraryUpdated, LibraryImport
  <2>. QED BY <1>1, <2>1, <2>2, FitImport, WaitsImport, ResourceImport DEF ToldOK
<1>6. CASE \E h \in events : Handle(h)
  BY <1>1, <1>6, FitHandle, LibraryHandle, WaitsHandle, ResourceHandle DEF ToldOK
<1>7. CASE \E r \in removals : Remove(r)
  BY <1>1, <1>7, FitRemove, LibraryRemove, WaitsRemove, ResourceRemove DEF ToldOK
<1>8. CASE \/ \E e \in Entries : del_entry(e)
           \/ \E c \in closings : close_document(c)
           \/ change_file \/ other_watch \/ did_open \/ did_change \/ did_save \/ did_close
  BY <1>1, <1>8, FitElse, LibraryElse, WaitsElse, ResourceElse DEF ToldOK
<1>. QED BY <1>2, <1>3, <1>4, <1>5, <1>6, <1>7, <1>8 DEF Steps_

LEMMA ToldStutters ==
  ASSUME ToldOK, UNCHANGED vars
  PROVE  ToldOK'
BY DEF vars, what, files, manager, importers, tasks, ToldOK, TasksFit, Distinct, SeenHasEntry, Knows, Unseen,
   HandlesTable, Handled, LibraryOK, LibraryTexts, LibraryLoads, LibraryIsKept, WaitsForFull, ResourceOK, ResourceIsKept,
   Noticed, Reloading, Changing, Shared

(* StaleOnlyByRace: a namespace that knows an old text of a library or a resource is   *)
(* about to be told, for any number of importers, entries, changes and removals, but   *)
(* for the three races the property names.                                             *)
THEOREM OldTextsAreTold == Spec => []StaleOnlyByRace
<1>1. Init => TypeOK /\ LocksOK /\ ToldOK
  BY TypesInit, LocksInit, ToldInit
<1>2. TypeOK /\ LocksOK /\ ToldOK /\ [Next]_vars => (TypeOK /\ LocksOK /\ ToldOK)'
  BY TypesStep, LocksStep, ToldStep, ToldStutters
<1>3. TypeOK /\ ToldOK => StaleOnlyByRace
  BY ToldIs
<1>. QED BY <1>1, <1>2, <1>3, PTL DEF Spec
=============================================================================
