----------------------------- MODULE TestItems -----------------------------
(***************************************************************************)
(* The tree of tests in the editor: TestControllerManager asks the         *)
(* language server for the tests of each workspace folder, keeps the       *)
(* answers in robotTestItems and brings the items of the test controller   *)
(* in line with them.  Documents that are opened, edited and saved, files  *)
(* that change and folders that come and go each call for a refresh; the   *)
(* refreshes go one after the other, and each awaits the server.           *)
(*                                                                         *)
(* A folder has a root suite, and below it at most one robot file, whose   *)
(* suite has the tests of one version of the text: version 0 is no file.   *)
(***************************************************************************)
EXTENDS Integers, Sequences, SequencesExt

CONSTANTS NFolders,      \* the folders are 1 .. NFolders, in the editor's order
          MaxTests,       \* versions a robot file can have
          MaxEvents      \* bound: events that call for a refresh

ASSUME TestItemsAssumption == NFolders \in Nat /\ MaxTests \in Nat \ {0} /\ MaxEvents \in Nat

Folders == 1 .. NFolders
Versions == 0 .. MaxTests
NotFetched == -1         \* robotTestItems has no entry
Unknown == -2            \* it has the entry undefined
Hidden == -1             \* the controller does not have the item

VARIABLES
  namesake,        \* are all folders, and so their root suites, named alike?
  folders,         \* vscode.workspace.workspaceFolders
  disk,            \* per folder: the version of its robot file
  editor,          \* per folder: the version in the editor, 0 if not open
  robotTestItems,  \* robotTestItems: the server's answer
  rootShown,       \* per folder: is its root suite in the controller?
  testsShown,      \* per folder: the version of the tests shown, or Hidden
  testItems,       \* testItems, per document: the suite (0) and the tests
                   \* (their version) it maps, in the order they were set
  refreshes,       \* refreshMutex: the refreshes called, first is current
  at,              \* where the current refresh is
  fileEvents,      \* refreshFromUriMutex: the handlers of changed files
  handling,        \* has the first of them called refresh?
  eventCount,
  outdated,        \* history: an answer was stored after its file changed
  readded,         \* history: a folder came back before its items had gone
  discarded,       \* history: edits were closed without being saved
  missed,          \* history: the open document's tests were not asked for, or got
  thrown           \* history: a refresh was left by an exception

content == <<namesake, folders, disk, editor>>
tree == <<rootShown, testsShown, testItems>>
fileHandlers == <<fileEvents, handling>>
gaps == <<outdated, readded, discarded, missed, thrown>>
tiVars == <<content, robotTestItems, tree, refreshes, at, fileHandlers, eventCount, gaps>>

(* refreshItem without an item, and with the suite of a document *)
RefreshAll == [what |-> "all", folder |-> 0]
RefreshFile(f) == [what |-> "file", folder |-> f]
Idle == [step |-> "idle", todo |-> {}, added |-> {}, old |-> {},
         answer |-> 0, found |-> 0]

(* The extension has started and calls its first refresh. *)
tiInit ==
  /\ namesake \in BOOLEAN
  /\ folders \in {1 .. n : n \in Folders}
  /\ disk = [f \in Folders |-> 1]
  /\ editor = [f \in Folders |-> 0]
  /\ robotTestItems = [f \in Folders |-> NotFetched]
  /\ rootShown = [f \in Folders |-> FALSE]
  /\ testsShown = [f \in Folders |-> Hidden]
  /\ testItems = [f \in Folders |-> <<>>]
  /\ refreshes = <<RefreshAll>>
  /\ at = Idle
  /\ fileEvents = <<>>
  /\ handling = FALSE
  /\ eventCount = 0
  /\ outdated = {}
  /\ readded = {}
  /\ discarded = {}
  /\ missed = {}
  /\ thrown = FALSE

SameRoot(f, g) == f = g \/ namesake

(* What the items that are shown for a folder's file are called. *)
ShownItems(f) == IF testsShown[f] = Hidden THEN {} ELSE {0, testsShown[f]}

(* The ids in S, in the order in which they were set *)
Only(ids, S) ==
  LET kept[i \in 0 .. Len(ids)] ==
        IF i = 0 THEN <<>>
        ELSE IF ids[i] \in S THEN Append(kept[i - 1], ids[i]) ELSE kept[i - 1]
  IN  kept[Len(ids)]

-----------------------------------------------------------------------------
(* Events *)

(* findTestItemForDocument: the first item with the document's uri.  That  *)
(* may be a test, when the suite was removed and made anew: refreshing a   *)
(* test does nothing.  A document without an item refreshes everything.    *)
DocumentRefresh(f) ==
  IF testItems[f] = <<>> THEN <<RefreshAll>>
  ELSE IF Head(testItems[f]) = 0 THEN <<RefreshFile(f)>> ELSE <<>>

Misses(f) == testItems[f] # <<>> /\ (Head(testItems[f]) # 0 \/ testsShown[f] = Hidden)

(* Nothing else runs between two awaits of the refresh. *)
Awaiting == at.step \in {"idle", "fetch", "fetched", "document", "read"}

Event == Awaiting /\ eventCount < MaxEvents /\ eventCount' = eventCount + 1

(* onDidOpenTextDocument and onDidChangeTextDocument *)
OpenOrEdit(f) ==
  /\ Event
  /\ IF editor[f] = 0
     THEN disk[f] # 0 /\ editor' = [editor EXCEPT ![f] = disk[f]]
     ELSE \E v \in Versions \ {0, editor[f]} : editor' = [editor EXCEPT ![f] = v]
  /\ refreshes' = refreshes \o DocumentRefresh(f)
  /\ missed' = IF Misses(f) THEN missed \cup {f} ELSE missed
  /\ UNCHANGED <<namesake, folders, disk, robotTestItems, tree, at, fileHandlers,
                 outdated, readded, discarded, thrown>>

(* onDidSaveTextDocument, and the file watcher's event *)
Save(f) ==
  /\ Event
  /\ editor[f] # 0
  /\ disk' = [disk EXCEPT ![f] = editor[f]]
  /\ refreshes' = refreshes \o DocumentRefresh(f)
  /\ fileEvents' = Append(fileEvents, f)
  /\ missed' = IF Misses(f) THEN missed \cup {f} ELSE missed
  /\ UNCHANGED <<namesake, folders, editor, robotTestItems, tree, at, handling,
                 outdated, readded, discarded, thrown>>

(* A document is closed, and its edits discarded: nobody listens. *)
CloseDocument(f) ==
  /\ Awaiting
  /\ editor[f] # 0
  /\ editor' = [editor EXCEPT ![f] = 0]
  /\ discarded' = IF editor[f] # disk[f] THEN discarded \cup {f} ELSE discarded
  /\ UNCHANGED <<namesake, folders, disk, robotTestItems, tree, refreshes, at,
                 fileHandlers, eventCount, outdated, readded, missed, thrown>>

(* Another program creates, changes or deletes the file. *)
FileChanges(f) ==
  /\ Event
  /\ editor[f] = 0
  /\ \E v \in Versions \ {disk[f]} : disk' = [disk EXCEPT ![f] = v]
  /\ fileEvents' = Append(fileEvents, f)
  /\ UNCHANGED <<namesake, folders, editor, robotTestItems, tree, refreshes, at,
                 handling, gaps>>

(* onDidChangeWorkspaceFolders *)
AddFolder(f) ==
  /\ Event
  /\ f \notin folders
  /\ folders' = folders \cup {f}
  /\ refreshes' = Append(refreshes, RefreshAll)
  /\ readded' = IF rootShown[f] THEN readded \cup {f} ELSE readded
  /\ UNCHANGED <<namesake, disk, editor, robotTestItems, tree, at, fileHandlers,
                 outdated, discarded, missed, thrown>>

(* removeWorkspaceFolderItems with deleteTestItems: the ids of the root    *)
(* and of all below it are deleted, the items stay until the refresh.      *)
RemoveFolder(f) ==
  /\ Event
  /\ f \in folders
  /\ folders' = folders \ {f}
  /\ robotTestItems' = [robotTestItems EXCEPT ![f] = NotFetched]
  /\ testItems' = IF robotTestItems[f] \in Versions
                  THEN [g \in Folders |->
                          IF SameRoot(f, g) THEN Only(testItems[g], Versions \ ShownItems(g))
                          ELSE testItems[g]]
                  ELSE testItems
  /\ refreshes' = Append(refreshes, RefreshAll)
  /\ at' = [at EXCEPT !.old = @ \cup {f}]
  /\ UNCHANGED <<namesake, disk, editor, rootShown, testsShown, fileHandlers, gaps>>

(* onDidChangeConfiguration *)
ConfigurationChanges ==
  /\ Event
  /\ refreshes' = Append(refreshes, RefreshAll)
  /\ UNCHANGED <<content, robotTestItems, tree, at, fileHandlers, gaps>>

(* The folders still to do are taken in the order of the workspace. *)
Turn == CHOOSE f \in at.todo : \A g \in at.todo : f <= g

Answered(f) == at.step = "fetched" /\ Turn = f

(* Mutant: no answer is forgotten. *)
RefreshOnly ==
  /\ Awaiting
  /\ fileEvents # <<>>
  /\ ~handling
  /\ refreshes' = Append(refreshes, [RefreshAll EXCEPT !.folder = Head(fileEvents)])
  /\ handling' = TRUE
  /\ UNCHANGED <<content, robotTestItems, tree, at, fileEvents, eventCount, gaps>>

(* refreshFromUri: the folder's answer is forgotten, and everything is     *)
(* refreshed before the next changed file is looked at.                    *)
refreshFromUri ==
  /\ Awaiting
  /\ fileEvents # <<>>
  /\ ~handling
  /\ LET f == Head(fileEvents)
     IN  IF f \in folders
         THEN /\ robotTestItems' = [robotTestItems EXCEPT ![f] = NotFetched]
              /\ refreshes' = Append(refreshes, [RefreshAll EXCEPT !.folder = f])
              /\ handling' = TRUE
              /\ fileEvents' = fileEvents
              /\ outdated' = IF Answered(f) THEN outdated \cup {f} ELSE outdated
         ELSE /\ fileEvents' = Tail(fileEvents)
              /\ UNCHANGED <<robotTestItems, refreshes, handling, outdated>>
  /\ UNCHANGED <<content, tree, at, eventCount, readded, discarded, missed, thrown>>

-----------------------------------------------------------------------------
(* refreshItem *)

Current == Head(refreshes)

(* The refresh returns or throws: the next one, and the handler of the     *)
(* changed file that called it, go on.                                     *)
Leaves ==
  /\ refreshes' = Tail(refreshes)
  /\ at' = Idle
  /\ IF Current.what = "all" /\ Current.folder # 0
     THEN fileEvents' = Tail(fileEvents) /\ handling' = FALSE
     ELSE UNCHANGED fileHandlers

(* findRobotItem for the root suite of f: the first folder with that root. *)
HasRoot(f, g) == g \in folders /\ SameRoot(f, g) /\ robotTestItems[g] \in Versions
RootFolder(f) == {g \in Folders : HasRoot(f, g) /\ \A h \in 1 .. g - 1 : ~HasRoot(f, h)}

Without(ids, v) == Only(ids, Versions \ {v})
With(ids, v) == IF v \in ToSet(ids) THEN ids ELSE Append(ids, v)

(* The items below the root of f, which has no other suite than g's: the   *)
(* others are removed, the ids of their tests are not.                     *)
Siblings(f, g) == {h \in Folders : SameRoot(f, h) /\ h # g /\ testsShown[h] # Hidden}

BelowRoot(f, g, items) ==
  [h \in Folders |-> IF h \in Siblings(f, g) THEN Without(items[h], 0) ELSE items[h]]

HideSiblings(f, g, versions) ==
  [h \in Folders |-> IF h \in Siblings(f, g) THEN Hidden ELSE versions[h]]

(* The loop over the folders comes to the next one. *)
NextTurn(turn) ==
  [turn EXCEPT !.step = "next", !.todo = @ \ {Turn}, !.answer = 0, !.found = 0]

(* Mutant: the old ids are deleted last, the new ones among them. *)
OldItemsLast(g, v) ==
  IF v = 0 THEN testItems[g] ELSE Without(With(testItems[g], v), testsShown[g])

(* The tests of version v, or none if v is 0, replace those of the suite;  *)
(* then the root's refresh goes on, if that is what called.                *)
TestsItems(g, v) ==
  LET old == IF testsShown[g] \in {0, v} THEN testItems[g] ELSE Without(testItems[g], testsShown[g])
  IN  IF v \in {0, testsShown[g]} THEN old ELSE With(old, v)

ShowTests(g, v) ==
  LET items == [testItems EXCEPT ![g] = TestsItems(g, v)]
      versions == [testsShown EXCEPT ![g] = v]
  IN  IF Current.what = "all"
      THEN /\ testItems' = BelowRoot(g, g, items)
           /\ testsShown' = HideSiblings(g, g, versions)
           /\ at' = NextTurn(at)
           /\ UNCHANGED <<refreshes, fileHandlers>>
      ELSE testItems' = items /\ testsShown' = versions /\ Leaves

(* A refresh gets the mutex.  findRobotItem gives the suite of a document  *)
(* only as long as its folder has an answer with it.                       *)
Begin ==
  /\ at.step = "idle"
  /\ refreshes # <<>>
  /\ LET f == Current.folder
     IN  IF Current.what = "all"
         THEN /\ at' = [Idle EXCEPT !.step = "next", !.todo = folders]
              /\ UNCHANGED <<refreshes, fileHandlers>>
         ELSE IF testsShown[f] # Hidden /\ f \in RootFolder(f) /\ robotTestItems[f] # 0
              THEN /\ at' = [Idle EXCEPT !.step = "file", !.answer = f]
                   /\ UNCHANGED <<refreshes, fileHandlers>>
              ELSE Leaves
  /\ UNCHANGED <<content, robotTestItems, tree, eventCount, gaps>>

(* The next folder: the server is asked, unless there is an answer, be it  *)
(* undefined.                                                              *)
NextFolder ==
  /\ at.step = "next"
  /\ at.todo # {}
  /\ LET f == Turn
     IN  at' = IF f \in at.old \/ robotTestItems[f] = NotFetched
               THEN [at EXCEPT !.step = "fetch"]
               ELSE [at EXCEPT !.step = "suite", !.answer = robotTestItems[f]]
  /\ UNCHANGED <<content, robotTestItems, tree, refreshes, fileHandlers, eventCount, gaps>>

(* The server builds the suite from the files, not from what is open. *)
SuiteOf(f) == disk[f]

(* The answer is undefined when there is no client for the folder, or the  *)
(* server has none.                                                        *)
getTestsFromWorkspace ==
  /\ at.step = "fetch"
  /\ LET f == Turn
     IN  /\ \E answer \in {SuiteOf(f), Unknown} :
              at' = [at EXCEPT !.step = "fetched", !.answer = answer]
         /\ outdated' = IF f \in at.old THEN outdated ELSE outdated \ {f}
  /\ UNCHANGED <<content, robotTestItems, tree, refreshes, fileHandlers, eventCount,
                 readded, discarded, missed, thrown>>

(* The request is rejected, and the refresh with it. *)
Rejected ==
  /\ at.step \in {"fetch", "document"}
  /\ Leaves
  /\ thrown' = TRUE
  /\ UNCHANGED <<content, robotTestItems, tree, eventCount, outdated, readded,
                 discarded, missed>>

StoreAnswer ==
  /\ at.step = "fetched"
  /\ LET f == Turn
     IN  robotTestItems' = IF f \in at.old THEN robotTestItems
                           ELSE [robotTestItems EXCEPT ![f] = at.answer]
  /\ at' = [at EXCEPT !.step = "suite"]
  /\ UNCHANGED <<content, tree, refreshes, fileHandlers, eventCount, gaps>>

(* The root suite of the folder gets an item, and so does the suite below. *)
ShowRoot ==
  /\ at.step = "suite"
  /\ at.answer \in Versions
  /\ LET f == Turn
         suites == {g \in RootFolder(f) : robotTestItems[g] # 0}
         turn == [at EXCEPT !.added = @ \cup {f}]
     IN  /\ rootShown' = [h \in Folders |-> rootShown[h] \/ SameRoot(f, h)]
         /\ \/ /\ RootFolder(f) = {}
               /\ at' = NextTurn(turn)
               /\ UNCHANGED <<testItems, testsShown>>
            \/ /\ RootFolder(f) # {} /\ suites = {}
               /\ at' = NextTurn(turn)
               /\ testItems' = BelowRoot(f, 0, testItems)
               /\ testsShown' = HideSiblings(f, 0, testsShown)
            \/ \E g \in suites :
                 /\ at' = [turn EXCEPT !.step = "file", !.answer = g]
                 /\ IF testsShown[g] = Hidden
                    THEN /\ testItems' = [testItems EXCEPT ![g] = With(@, 0)]
                         /\ testsShown' = [testsShown EXCEPT ![g] = 0]
                    ELSE UNCHANGED <<testItems, testsShown>>
  /\ UNCHANGED <<content, robotTestItems, refreshes, fileHandlers, eventCount, gaps>>

SkipFolder ==
  /\ at.step = "suite"
  /\ at.answer = Unknown
  /\ at' = NextTurn(at)
  /\ UNCHANGED <<content, robotTestItems, tree, refreshes, fileHandlers, eventCount, gaps>>

(* The suite of a document: the tests are those of the folder's answer,    *)
(* or, if the document is open, what the server finds in it.               *)
ShowAnswer ==
  /\ at.step = "file"
  /\ editor[at.answer] = 0
  /\ ShowTests(at.answer, robotTestItems[at.answer])
  /\ discarded' = discarded \ {at.answer}
  /\ missed' = missed \ {at.answer}
  /\ UNCHANGED <<content, robotTestItems, rootShown, eventCount, outdated, readded,
                 thrown>>

AskDocument ==
  /\ at.step = "file"
  /\ editor[at.answer] # 0
  /\ at' = [at EXCEPT !.step = "document"]
  /\ UNCHANGED <<content, robotTestItems, tree, refreshes, fileHandlers, eventCount, gaps>>

(* get_document: a document that was closed meanwhile is read from its file. *)
TextOf(f) == IF editor[f] # 0 THEN editor[f] ELSE disk[f]

getTestsFromDocument ==
  /\ at.step = "document"
  /\ TextOf(at.answer) # 0
  /\ at' = [at EXCEPT !.step = "read", !.found = TextOf(at.answer)]
  /\ missed' = missed \ {at.answer}
  /\ discarded' = IF editor[at.answer] = 0 THEN discarded \ {at.answer} ELSE discarded
  /\ UNCHANGED <<content, robotTestItems, tree, refreshes, fileHandlers, eventCount,
                 outdated, readded, thrown>>

ShowFound ==
  /\ at.step = "read"
  /\ ShowTests(at.answer, at.found)
  /\ UNCHANGED <<content, robotTestItems, rootShown, eventCount, gaps>>

(* No client for the folder: the children are undefined, and removed. *)
FoundNothing ==
  /\ at.step = "document"
  /\ ShowTests(at.answer, 0)
  /\ missed' = missed \cup {at.answer}
  /\ UNCHANGED <<content, robotTestItems, rootShown, eventCount, outdated, readded,
                 discarded, thrown>>

(* After the last folder, the root suites that no folder has are removed:  *)
(* their ids are deleted, those of the items below are not.                *)
Finish ==
  /\ at.step = "next"
  /\ at.todo = {}
  /\ LET gone == {f \in Folders : \A g \in at.added : ~SameRoot(f, g)}
     IN  /\ rootShown' = [f \in Folders |-> f \notin gone]
         /\ testsShown' = [f \in Folders |-> IF f \in gone THEN Hidden ELSE testsShown[f]]
         /\ readded' = readded \ gone
  /\ Leaves
  /\ thrown' = FALSE
  /\ UNCHANGED <<content, robotTestItems, testItems, eventCount, outdated,
                 discarded, missed>>

(* The items that are no longer shown are held weakly. *)
Collect(f) ==
  /\ Awaiting
  /\ testItems' = [testItems EXCEPT ![f] = Only(@, ShownItems(f))]
  /\ UNCHANGED <<content, robotTestItems, rootShown, testsShown, refreshes, at, fileHandlers,
                 eventCount, gaps>>

-----------------------------------------------------------------------------
Refreshing ==
  \/ Begin \/ NextFolder \/ getTestsFromWorkspace \/ Rejected \/ StoreAnswer
  \/ ShowRoot \/ SkipFolder \/ ShowAnswer \/ AskDocument
  \/ getTestsFromDocument \/ ShowFound \/ FoundNothing \/ Finish
  \/ refreshFromUri

tiNext ==
  \/ Refreshing
  \/ ConfigurationChanges
  \/ \E f \in Folders :
       \/ OpenOrEdit(f) \/ Save(f) \/ CloseDocument(f) \/ FileChanges(f)
       \/ AddFolder(f) \/ RemoveFolder(f) \/ Collect(f)

tiSpec == tiInit /\ [][tiNext]_tiVars

-----------------------------------------------------------------------------
Quiet == refreshes = <<>> /\ fileEvents = <<>>

(* The version whose tests a user expects to see *)
Expected(f) == IF f \notin folders \/ disk[f] = 0 THEN Hidden ELSE TextOf(f)

(* The ways the tree stays wrong until something else happens: an answer   *)
(* was lost (thrown, or undefined and kept), came too late, or the event   *)
(* that would have asked for it went to the wrong item or does not exist;  *)
(* or two folders have root suites of the same name.                       *)
Excused(f) ==
  \/ thrown
  \/ robotTestItems[f] = Unknown
  \/ f \in outdated \cup discarded \cup missed
  \/ namesake

(* When nothing is going on, every folder's items show the tests of its    *)
(* file, in the editor or else on disk, except for those reasons.          *)
TreeIsCurrent == Quiet => \A f \in Folders : testsShown[f] = Expected(f) \/ Excused(f)

(* Every item that is shown is found by its id, or its results would be    *)
(* dropped, unless its folder came back while the items were still there.  *)
ItemsAreFound ==
  Quiet => \A f \in folders :
    \/ ShownItems(f) \subseteq ToSet(testItems[f])
    \/ f \in readded \/ namesake
=============================================================================
