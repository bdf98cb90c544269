# RobotCode in TLA+

RobotCode is a language server and a debugger for Robot Framework, written in Python, with a small
Visual Studio Code extension that starts both. This directory holds TLA+ models of its concurrent
core, the TLC configurations that check them, and TLAPS proofs of the properties that matter most.

* [The system](#the-system) - parts, state, interaction, and what is hard about them
* [Modules](#modules) - each with its correspondence to the code, its runs and its properties
* [What is proved](#what-is-proved)
* [What is only model-checked](#what-is-only-model-checked)
* [What is not modelled](#what-is-not-modelled)
* [Plan](#plan)
* [Running it](#running-it)

Paths below are relative to `src/robotcode/` unless they start with `vscode-client/` (that is,
`src/vscode-client/`).

## The system

Four processes run when somebody debugs a suite: the editor with the extension; the **language
server** (one per workspace folder, stdio or tcp); the **debug adapter** (stdio or tcp); and the
**launcher**, which runs Robot Framework in its main thread and serves the adapter on tcp from a
second thread. Within a Python process everything but the launcher's Robot Framework thread runs on
one asyncio loop: code between two awaits is atomic, and that is the grain of all models of loops.

| Component | State it keeps | Operations | Model |
|---|---|---|---|
| Debugger core, `debugger/debugger.py`, `listeners.py` | `state`, `requested_state`, `stop_stack_len`, `stack_frames`, breakpoint tables, hit counts, stop on entry | start/end of suite, test, keyword, control item (listener, robot thread); continue, next, stepIn, stepOut, pause, terminate, setBreakpoints, setExceptionBreakpoints (loop thread) | `Debugger` |
| JSON-RPC protocol and server loop, `jsonrpc2/` | `_received_request`, `_sended_request`, message buffer, stop event, transport | data received, requests, notifications, responses, `$/cancelRequest`, calls to the client, reading loop, stop | `JsonRpc`, `Framing` |
| LSP lifecycle, `language_server/common/protocol.py` | shutdown flag, parts | initialize, shutdown, exit, cancel | `JsonRpc`, `RequestLifecycle` |
| Text documents and their cache, `common/text_document.py`, `robotframework/parts/documents_cache.py` | text, version, cache entries with data and lock, references | get_cache, apply changes, invalidate, tokens / model / namespace getters | `DocumentCache` |
| Diagnostics publishing, `common/parts/diagnostics.py`, `documents.py` | table of documents, running entries, timers, the diagnostics stored with a document | didOpen, didChange, didSave, didClose, publish, cancel, shutdown | `Diagnostics` |
| Debug adapter and launcher, `debugger/launcher/server.py`, `client.py`, `server.py`, `__main__.py`, `protocol.py` | client connection, requests sent, flags exited / terminated / configuration done / signaled | launch and its connect loop, forwarding, terminate, disconnect, waits with timeouts, last events | `DapSession` |
| Variables, evaluate, stack trace | none of their own | render the state of a sleeping run | - |
| Imports manager, `robotframework/diagnostics/imports_manager.py` | library and resource entries, locks, sentinels and finalizers, file watches | load, invalidate, release | `ImportsManager` |
| Workspace: file watchers, configuration, folders, `common/parts/workspace.py` | watch entries, callbacks, registrations; settings, folders | add, remove, changed files; configuration | `FileWatchers` (the watchers) |
| Namespaces and analysis, `robotframework/diagnostics/namespace.py`, `parts/model_helper.py` | imported files, diagnostics, locks; otherwise pure | initialise, import, analyse, find keywords | `Namespace`, `KeywordSearch`, `RunKeywords` |
| Language features (hover, goto, completion, signature help, semantic tokens, formatting, ...) | the token cache; a syntax tree that the formatter rewrites | answer requests, be cancelled | `LanguageFeatures` |
| Events, `utils/async_event.py` | listener sets | notify one after the other or as tasks | inside `LanguageFeatures`, `Diagnostics`, `ImportsManager`, `FileWatchers` |
| Test discovery, Robocop | none | build a suite; one more collector of diagnostics | the two answers of discovery, in `TestItems` |
| VS Code: language clients, `vscode-client/languageclientsmanger.ts` | map of clients, a mutex | get, start, refresh, stop, dispose | `LanguageClients` |
| VS Code: test controller, `vscode-client/testcontrollermanager.ts` | tree of tests, maps of items, two mutexes; test runs, debug sessions | refresh, files, documents, folders; run, report, end, cancel | `TestItems`, `TestRuns` |
| VS Code: debug manager, `vscode-client/debugmanager.ts` | a run id counter | start a session per folder | `TestRuns` (runTests) |
| Types, conversions, logging | - | - | not modelled |

How they interact: the client's messages enter through `Framing` (bytes to messages) and `JsonRpc`
(messages to tasks). Notifications of the document part change a `TextDocument`, which empties its
cache (`DocumentCache`); requests read through that cache; the diagnostics part hears of every change
and republishes after a delay (`Diagnostics`). A debug session (`DapSession`) starts the launcher; once
Robot Framework runs there, the two threads of the launcher meet in the one `Debugger` object. The
language features (`LanguageFeatures`) await the syntax tree and the namespace of a document; a namespace
(`Namespace`) is initialised from the entries of an `ImportsManager`, which watches files
(`FileWatchers`) and documents and tells the namespaces to start anew. In the editor one language client per
folder (`LanguageClients`) is asked for the tests that the test controller shows (`TestItems`), and a
test run (`TestRuns`) is a debug session per folder.

What makes it hard:

* **Two threads, one object, a lock only one of them takes.** The robot thread tests and sets
  `state` without the condition that the request handlers hold.
* **Cancellation.** Asyncio cancels at awaits only: a request may be cancelled before its handler
  started, after it ended and before its answer left, or while it awaits an answer of the client.
* **Computations outlive what they compute from.** A text changes while tokens of it are computed; a
  timer fires while its entry is being replaced; a document is closed and opened again while the
  listeners of the closing run.
* **Two ends with timeouts of the same length.** Adapter and launcher each give up on the other.
* **Objects that end when nobody refers to them.** Imports leave by finalizers, whose coroutines run
  later, among new imports of the same file.
* **A process that ends itself** (`os._exit`, SIGINT, SIGTERM) with events still to be sent.

The properties that make each component correct are listed with its module; `PROJECT.json` lists the
hazards with their lines and the properties that cover them, or the reason why none does.

## Modules

A module models one component; most runs check one of them. The runs `editor`, `connection`, `sessions`, `features`
and `diagnostics` check several components that share no variable: the MC module EXTENDS them all, its
initial states choose one (`part` or `layer`), and a behaviour takes the steps of that one only while
the variables of the others keep the values they begin with. A property of a component is then checked on all
behaviours of that component, as if it had a run of its own.

### Debugger

`Debugger.tla` models `debugger/debugger.py` with the listener that drives it. The robot thread has a
program counter and one action per access to shared state, because it takes no lock there: `start_item`,
`start_not_run` and `end_item` / `pop_frame` (listener callbacks, with the push and the pop of the frame),
then `process_start_state` as `check_stopped`, `compare_requested`, `send_stopped`, `reset_requested`,
`load_points`, `visit_point`, and `wait_for_running`, which tests the state and sleeps (`blocked`) as the
code does under `condition`. Requests are single actions, for they hold `condition`: `continue_thread`,
`next`, `step_in`, `step_out`, `pause_thread`, `stop`, `set_breakpoints`, `set_exception_breakpoints`. Events pass a queue to the client (`events`, `view`). What a client
does is bounded, what it sends is not: every request may come at every point. `reach` and `last` are
history variables for the step and the terminate properties.

| Run | Instance | Properties |
|---|---|---|
| `debugger_races` | depth 3, 3 items, 3 requests besides continue; a plain breakpoint next to one with a hit condition, the failed-keyword filter; 2.4 million states | `SleepsOnlyWhilePaused`, `ClientKnows`, `TerminateIsFinal` |
| `editor` (part stepping) | depth 5, 6 items, 2 requests, two lines | `FramesMatchRun`, `StepsStopOutside` |
| `debugger_live` | depth 4, 4 items, 2 requests, items of status NOT RUN, conditional and log points, all filters; 0.6 million states | `RunEnds` |

* `SleepsOnlyWhilePaused`: no wake-up is lost although the state is tested without the lock.
* `ClientKnows`: a thread that sleeps is shown as stopped once the events have arrived. The exception,
  stated in the property, is a pause request: it sets the state without an event and may put to
  sleep a thread that was already past `process_start_state`.
* `TerminateIsFinal`: once terminated while asleep, the run stops for failures only.
* `FramesMatchRun`: the frames are the running items. With NOT RUN items, whose start pushes no frame
  while their end may pop one, there may be fewer; that run checks liveness only.
* `StepsStopOutside`: next and stepOut do not stop inside what they are to get over.
* `RunEnds`: unless the client pauses, the run ends.

Bounds: three nested items are a suite, a test and a keyword; five are needed for a step out of a
keyword called by a keyword, with an item left to stop at. Two requests besides continue are an
interrupting one and one that meets its effects; three allow pause, terminate and a step. Fairness of
`FairSpec`: the robot thread runs (it is a thread), events arrive (a queue of the loop), and a client that
was told of a stop continues at some time. Without that last one a stopped run may stay stopped,
which is also why the runs do not check deadlock: a thread may sleep, and the run ends.

### JsonRpc, RequestLifecycle, Framing

`JsonRpc.tla` models `jsonrpc2/protocol.py` and `server.py` with the cancel, shutdown and exit requests of
`common/protocol.py`, on an explicit queue of the loop (`ready`): an action is one entry of the queue.
Each request has two tasks as in the code, that of the message (registers in `_received_request`,
creates the handler, awaits it, answers: `handle_request`, `reply`) and that of the handler (`suspend`,
`resume`, `send_request`, `finish`). `cancel_received_request` cancels what the table has;
`cancel_all_received_request` of shutdown everything else. The reader of stdio is woken, stops on the event and ends the
loop; in tcp mode there is no such reader and no stop event. `client_reply` answers calls of the server, with errors if
`ClientErrors`.

`RequestLifecycle.tla` is what a client may rely on: each request is answered at most once and after it
was sent, only revoked ones go without answer, and the server stops only when told to exit or after it
answered shutdown. `Status` maps the detailed state to it; the run checks `Lifecycle!Spec` as a property.

`Framing.tla` models `JsonRPCProtocolBase.data_received`: the buffer, the search for the end of the
header, the loop over complete messages, on streams of tokens cut at every place.

| Run | Instance | Properties |
|---|---|---|
| `jsonrpc_lifecycle` | two requests and shutdown on stdio, one call to the client, answered by a result or an error, one message under way; 2.9 million states, requests other than shutdown symmetric | `CallersAreKnown`, `KeepsLifecycle` |
| `connection` (layer requests) | tcp, one request and shutdown, two calls, answered by results, two messages under way | `RequestsAreClosed` |
| `connection` (layer bytes) | three messages of bodies of one to three bytes, all chunkings | `HandledInOrder` |

* `CallersAreKnown`: the call that a handler awaits is still in the table of sent requests, its future
  not done: no other answer, cancellation or shutdown takes it away from its caller.
* `KeepsLifecycle`: `JsonRpc` implements `RequestLifecycle`.
* `RequestsAreClosed`: every request is answered or revoked, or the server stops.
* `HandledInOrder`: the bodies come out whole and in order, and none waits for the next message.

Bounds: two requests are one that is cancelled and one that must not be; shutdown cancels both.
Messages under way are bounded because only their order matters. Fairness: the loop runs what is ready
(asyncio is first in, first out), written bytes are read, the client answers, and a handler that is
resumed again and again ends at some time (strong fairness, for it may be suspended in between).
`RequestsAreClosed` assumes that the client answers with results: the handler of an error response does not
complete the future of the call, so a handler that awaits it stays suspended (a listed hazard). Deadlock
is not checked because a server may stop and a client may be done.

### DocumentCache

`DocumentCache.tla` models `TextDocument.get_cache` and the invalidation by text changes. Tasks ask for
a key; an entry has data and a lock; the first task computes from the text as it is when the computation
reads it and the others wait; a change empties the table, so that a computation in progress stores its
result into an entry that is no longer in the cache. Computing may fail or be cancelled.

Run `document_cache` (three tasks, one key, two changes, two entries; 173 thousand states):
`CacheIsCurrent` (the cache never holds the result of an older text), `ResultsAreFresh` (nobody gets a result
older than the text at the time of the question), `OneComputes` (one task computes per entry, and holds its
lock), `WaitersProceed` (a waiting task gets on, also if the one that computes fails). Three tasks are
one that computes, one that waits and one that comes after a change. The keys do not touch each other, so one
is enough. Fairness: the tasks run, computations end, and the asyncio lock is fair.

### Diagnostics

`Diagnostics.tla` models one document with its handlers and what publishes its diagnostics. A
notification and its handler up to the first await are one action; the listeners of `didClose` come in
either order and at any later time, as one of them waits for a lock of the imports manager. An entry
of `_running_diagnostics` has a timer and a task (`PublishDiagnosticsEntry`), which asks the collectors one
after the other, stores what they find with the document and sends it. Cancelling is asynchronous. The client's
view (`shown`) is part of the model, so that properties compare what it sees with the text it has.

| Run | Instance | Properties |
|---|---|---|
| `diagnostics` | two collectors, one unreliable, three entries, two changes, two openings, one save; 527 thousand states (part diagnostics) | `NoOrphans`, `OnePublishes`, `OpenIsKept`, `NeverOlder` |
| `diagnostics_live` | a client that waits for a closing to end before it opens again; 226 thousand states | `Settles` |
| `diagnostics_reopen` (violation) | three openings | `RefusedIsNotOpen` |

Entries are interchangeable and used again, three suffice for one that publishes, one that is being
cancelled and one that is armed. Two openings are enough for what one closing can do to the next opening;
the third is needed for the finding. Fairness: listeners are called, timers fire, collectors answer or
raise, cancellations arrive. The runs do not check deadlock since the client's bounds end a behaviour.

**Finding.** A change is refused with `Document '...' is not opened.` (`common/parts/documents.py:185`)
for a document that *is* open: the handler of didClose looks the document up, calls the listeners, awaits,
and then removes whatever is in the table under the URI (`common/parts/documents.py:138`). If the client
has closed and opened the document again meanwhile, twice, the document just opened is removed. Run
`diagnostics_reopen` shows the steps. For a client that waits, or that reopens once, the
document stays (`OpenIsKept`).

### DapSession

`DapSession.tla` models a debug session from launch to its end. The adapter: the launch handler (process,
connect loop, timeout), requests forwarded under the client's number, its own configurationDone,
terminate and disconnect, which take numbers of the adapter's counter (the two may collide, as in the
code), events passed on, the connection lost. The connection is a pair of queues with the launcher's
backlog in between. The launcher: the loop thread's handlers and the main thread `run_robot` with
its three waits, their timeouts, the KeyboardInterrupt that a first terminate raises at any await
(`Cancelled` lists where it leads), SIGTERM by the second, `os._exit` by disconnect, and the last
three events.

Run `sessions` (part session; two setBreakpoints, two terminate or disconnect requests at any time):

* `BreakpointsFirst`: Robot Framework runs only with all breakpoints asked for before configurationDone,
  unless the session is being terminated - though every message is handled by tasks of its own.
* `WaitsForAnswers`: while the launcher lives no entry of `_sended_request` waits for an answer that is
  not under way. (After its end entries stay for ever; a listed hazard.)
* `SessionEnds`: a connected session ends for the client with `terminated`, or the launcher was killed or
  gave up before it saw the connection (`cut`).

Two breakpoint requests give an order to get wrong, two stop requests are SIGINT and SIGTERM,
or either with a disconnect. Fairness: both loops and the main thread run, and a run of Robot Framework
ends, which is what `RunEnds` says of `Debugger`. The client owes nothing: the launcher's timeouts
see to the end. A session ends, so deadlock is not checked.

### FileWatchers

`FileWatchers.tla` models the watchers of `common/parts/workspace.py`. Whoever wants to hear of changed files
adds an entry with a callback and patterns (`add_file_watchers`); the first entry of its patterns registers
them with the client and is put among the entries when that has answered (`add_first`,
`register_capability`), further ones become its children (`add_child`). A changed file comes to all
callbacks of one event (`Called`). Removing an entry takes its callback out of that event or out of its
parent's, and ends a registration (`remove_child`, `remove_first`, `unregister_capability`). The
client registers dynamically and accepts every registration.

Run `diagnostics` (part watchers; two callbacks, two lists of patterns, four entries; 1.3 million states): `WatchersAreTold`, whoever
watches has its callback among those called and its patterns among those registered. The code keeps one set
of callbacks for all entries, so there are exceptions, which the histories name exactly: another entry with
the same callback was removed (`silenced`), or the entry that held the common registration was
(`unwatched`). Four entries are a parent, two children and a stranger with a callback of theirs.

### ImportsManager

`ImportsManager.tla` models the table of libraries or of resources of
`robotframework/diagnostics/imports_manager.py` for one imported file: the entry with its references and its
watch, the locks of the table and of the entry (who holds one follows from where the tasks are, and who waits gets
it in any order, except that an import that waits for an entry's lock goes before the tasks that hold the table's:
they came later, and asyncio's locks are first in, first out), the document of a resource, the namespaces that import the file, the handlers of changed files and documents (`events`), the
coroutines of finalizers that remove an entry or close a document (`removals`, `closings`), and the calls by which
namespaces are told (`notices`). Texts are versions, so that what a namespace has read can be compared with
what there is.

Run `imports` (two importing documents, two entries, two versions; 399 thousand states):

* `StaleOnlyByRace`: a namespace that knows an old text is about to hear of it, except in three cases, all in the
  code: nobody listened for the file yet, the call came while the namespace was being initialised, or its entry had
  been dropped from the table by a removal that was decided before it asked.
* `UnusedIsLeaving`: an entry in the table that no import refers to has its removal under way.
* `ImportsAnswered`: whoever asks for an import gets an answer; no order of handlers, removals and imports
  deadlocks on the two locks.

Two events from outside (a change, a failure, the end of an import) are enough for every race of two tasks.
A third is allowed where it matters, at the end of an import that refers to two entries
(`LastEvent`, an action constraint); nothing is imported after it. Fairness: the loop runs its tasks, awaits end, imports and the
client answer (`WF(Work)`).

### LanguageFeatures, Namespace, KeywordSearch, RunKeywords

What answers a request of the editor about an open document, in one run, `features`, of four parts.

`LanguageFeatures.tla`: a listener is a task that awaits the tree, the namespace and imported files. Each piece of
the features' code is the set of the sequences of awaits it can make, with what it catches there; the position and
the text, which decide between them, are a choice. Semantic tokens are cached with the document, the formatter
rewrites the cached tree, and a request may be cancelled or fail at any await. Instance: two requests, one of
them for what is cached, two versions. 169 thousand states for the four parts.

* `TokensFit`: cached tokens are of the present text, from its tree to its names.
* `FeaturesEnd`: every request is answered or was taken back and no listener stays behind, not even one that
  catches its own cancellation. Fairness: the loop runs every task and every await ends (`WF(Work(r))`).

`Namespace.tla`: how a namespace is initialised by callers that come together and are cancelled anywhere, how resource
files bring in further ones, and how the diagnostics are gathered. Imports gathered together finish in any order, so
a level of the initialisation has the set of positions still to do, and the diagnostics are the sequence of the sets
of reports that its parts add. Instance: four files in five layouts (a missing file alone, a file by two names, two
files by one name, a circle, a file imported three times), one reader, two runs of the diagnostics.

* `NothingIsLeftOut`: once initialised every file that imports lead to is in the namespace, except for a file
  hidden by another one of the same name, and after a cancellation in the middle.
* `TwiceIsReported`: a file that came in by two names is reported where it is imported by one of them, for its
  keywords are found twice.
* `DiagnosticsAreWhole`: with nobody cancelled the diagnostics are complete and hold nothing twice.
* `CallersEnd`: every caller is answered or ends by its cancellation (`WF(Proceeds(c))`).

`KeywordSearch.tla`: `KeywordFinder` and `Namespace.get_keywords` as pure operators, evaluated for every file with up to
four keywords in itself, its resources and its libraries, names with dots, embedded arguments and prefixes.

* `CompletionAgrees`: the keyword completion offers for a name is the one the name stands for, or the search
  reports why not.
* `AdviceWorks`: who is told to write the full name of an ambiguous keyword finds it by that name; the two
  exceptions are in the property.

`RunKeywords.tla`: a call of Run Keyword and the like is walked by the analysis and, in separate code, by hover and goto.
`HoverAgreesWithAnalysis`: both find the same keywords on every line of up to five tokens, except behind an ambiguous
keyword. Five tokens are Run Keyword If with a condition, a keyword and a branch. Both walks only ever go on with
arguments later in the line, so each is a function of where the remaining arguments begin (`Checking`, `Search`), which
holds what a keyword there runs and what the branches there do.

### TestItems, LanguageClients

`TestItems.tla` is the tree of tests: every event that refreshes it (documents opened, edited, saved, files changed,
created and deleted, folders added and removed), the two mutexes, each await of a refresh, the answers kept in
`robotTestItems` (with the entry `undefined` of an answer that failed) and the map `testItems` from ids
to items. A folder has at most one robot file, known by the version of its tests; the item that shows an
error is not told from none; events come while a refresh awaits something, not inside its synchronous code.

* `TreeIsCurrent`: when nothing is going on, every folder shows the tests of its file, in the editor or
  else on disk. The exceptions are named: an answer was lost (`thrown`, `Unknown`), came after the file changed (`outdated`),
  edits were closed unsaved (`discarded`), the event that would have asked went elsewhere or does not exist
  (`missed`), or root suites have the same name (`namesake`). Each of them does occur.
* `ItemsAreFound`: an item that is shown is found by its id, or its results would be dropped; the exception is a
  folder that came back while its items were still there (`readded`).

`LanguageClients.tla` is the map of clients with its first-in-first-out mutex, the servers, and callers that get, refresh
and dispose. `ServersAreKnown`: while the mutex is free, the servers that run are those of the clients in the
map, one per folder; a stop that fails may leave a server behind, and one that fails in `stopAllClients` its
clients.

Run `editor` (parts tests and clients): two folders, two versions, three events (a file deleted and created again while
its document is opened); three callers (one that gets, one that refreshes, one that disposes, or two alike), two
folders, three clients. Together with the stepping debugger 5.0 million states.

### TestRuns

`TestRuns.tla` is `runTests` with its loop over the folders of a request, the debug sessions it starts, their events
(`robotExited`, the end of the session), and the cancellation handler. Sessions may be refused, and some hang
until they are stopped. Run `sessions` (part test runs; two requests, two folders, two run ids):

* `NothingAfterEnd`: only sessions of folders that runTests came to after the run had ended, its earlier
  sessions being gone by then, report to an ended run or end it again.
* `TestRunsEnd`: every test run that was called is ended, but for requests without a folder, refused sessions, and hanging
  sessions that nobody stops, also because the cancellation came before them. Fairness: the extension host runs
  what is ready; a session that does not hang, or is stopped, terminates.

## What is proved

Each theorem holds for all values of the constants that satisfy the module's named assumption
(bounds are natural numbers; the sets are what their comments say).

| Module | Theorem | Says | Extra assumption |
|---|---|---|---|
| `Debugger_proofs` | `TypeCorrect` | `[]TypeOK` | |
| | `NoLostWakeup` | `[]SleepsOnlyWhilePaused` | |
| | `ClientIsTold` | `[]ClientKnows` | |
| | `TerminateHolds` | `[]TerminateIsFinal` | |
| | `FramesAreTheRun` | `[]FramesMatchRun` | no item of status NOT RUN |
| | `StepsComeOut` | `StepsStopOutside` | no item of status NOT RUN |
| `Connection_proofs` (`JsonRpc`) | `TypeCorrect` | `[]TypeOK` | |
| | `ResponsesFindTheirCallers` | `[]CallersAreKnown` | |
| | `ImplementsLifecycle` | `KeepsLifecycle`: `JsonRpc` implements `RequestLifecycle` | |
| `Connection_proofs` (`Framing`) | `MessagesComeOut` | `[]HandledInOrder` | |
| `DocumentCache_proofs` | `TypeCorrect`, `CacheHoldsCurrent`, `ResultsFresh`, `ComputesOnce` | `TypeOK` and the three invariants of the run | |
| `Workspace_proofs` (`Diagnostics`) | `TypeCorrect`, `NoEntryIsLost`, `PublishesAlone` | `TypeOK`, `NoOrphans`, `OnePublishes` | |
| | `OpenDocumentKept` | `[]OpenIsKept` | the client waits for a closing before it opens again |
| | `NothingOlderIsShown` | `NeverOlder` | |
| `DapSession_proofs` | `TypeCorrect`, `NoBreakpointIsLate` | `TypeOK`, `BreakpointsFirst` | |
| | `AnswersAreOnTheirWay` | `[]WaitsForAnswers` | |
| `Workspace_proofs` (`FileWatchers`) | `WatchersKeepTypes`, `WatchersAreServed` | its types, `[]WatchersAreTold` | |
| `ImportsManager_proofs` | `TypesAreKept` | its types | |
| | `LocksAreHeldOnce` | at most one task holds the lock of the table, and one that of an entry | |
| | `UnusedEntriesLeave` | `[]UnusedIsLeaving` | |
| | `OldTextsAreTold` | `[]StaleOnlyByRace` | |
| `Analysis_proofs` (`LanguageFeatures`) | `TokensAreOfTheText` | `[]TokensFit` | |
| `Analysis_proofs` (`Namespace`) | `EveryFileComesIn` | `[]NothingIsLeftOut` | |
| | `TwiceReported` | `[]TwiceIsReported` | |
| | `AnswersAreWhole` | `[]DiagnosticsAreWhole` | |
| `Analysis_proofs` (`KeywordSearch`) | `OffersAgree`, `AdviceHelps` | `[]CompletionAgrees`, `[]AdviceWorks` | |
| `Editor_proofs` (`TestRuns`) | `TypeCorrect`, `LateOnesAlone` | `trTypeOK`, `NothingAfterEnd` | |
| `Editor_proofs` (`TestItems`) | `TreeKeepsTypes` | its types | |
| | `ShownItemsAreFound` | `[]ItemsAreFound` | |
| | `TestsShownAreCurrent` | `[]TreeIsCurrent` | |
| `Editor_proofs` (`LanguageClients`) | `NoServerIsForgotten` | `[]ServersAreKnown` | |
| | `OneCallerWorks` | one caller at a time starts or stops clients | |

The arguments:

* **Debugger.** Types need that a scan of breakpoints has an item to scan for (`ScanHasItem`) and
  that an end has an item to pop (`EndHasItem`). `NoLostWakeup` follows by itself from the fact
  that every request that leaves Paused notifies under the lock `wait` releases. `ClientIsTold` needs `PausedIsTold`: the last event
  on its way, or the view if there is none, is a stop whenever the state is Paused and the thread is
  not just about to send one. `TerminateHolds` needs `EntryIsOver` (stop on entry is over before the
  thread first sleeps) and `StoppedStays` (a terminated thread finds Stopped wherever it looks).
  `StepsComeOut` rests on `FramesMatchRun` and on `LevelsInReach`: while a step is requested every level up to
  `stop_stack_len` is one the step may stop at. For a step out that is a counting argument (`SomethingIsLeft`): were
  all the frames down to the first level it passes control structures, they would be more than it counted.
* **JsonRpc.** The queue of the loop is the difficulty: most of the module is lemmas that say what appending, taking the
  head and putting tasks behind do to what the queue has, has once, and has in which order. `QInv` ties the
  queue to the state: the entries of a handler, of a request and of the read data are there when their states say so, once
  (`HandlerEntries`, `RequestEntries`, `DataEntry`). With it, no two handlers await one call and the call is
  pending (`CallersInv`), hence `CallersAreKnown`. For the refinement `RInv` adds that a request has at most one answer and only a revoked one
  is cancelled (`AnswersInv`), that cancellations and exit under way were sent by the client (`SentInv`), and that the
  entry that stops the loop is behind the answer to shutdown (`StopInv`). Each action then maps to a step of
  `RequestLifecycle` or to a stutter.
* **Framing.** `FInv` is about what is on its way: the buffer, the rest of the chunk and the stream. Positions `b` and a
  flag per message (has its header a second field?) cut it into the messages not handled (`IsCut`), every
  length after the first comes behind a byte of a body (`LengthsFollowBodies`), what was handled is a prefix of what was
  written (`HandledIsPrefix`), and nothing complete is kept when a chunk has been read (`NothingIsKept`). That `find`
  meets the first length of the buffer, and therefore the first message of the cut, uses that a set of
  numbers has a least element, from the library's well-foundedness of the naturals.
* **DocumentCache.** The inductive invariant says which entry a task works on (`Linked`), that who computes
  holds its lock alone (`OneComputes`), that the text read for an entry of the cache is the present one
  (`Reading`), and that whoever waits asked no later than the text is read for its entry (`Waiting`);
  `CacheIsCurrent` and `ResultsAreFresh` are conjuncts of it.
* **Diagnostics.** `IInv`: the table has at most one entry (`OneEntry`), timers and tasks belong to it
  or are about to be cancelled (`NoOrphans`), and only one works (`OnePublishes`). `KInv`
  adds `OpenIsKept` itself and that no closing is in progress while the document is open. `NInv`, for
  `NeverOlder`: the document in the table has the client's text (`Tracked`), nothing has a newer one
  (`NoFuture`), what is stored with it is empty or no older than what is shown (`DataKept`), and so is what a task
  is about to send, whose remaining collectors will find something at least as new as what they showed
  (`Collects`). It needs no assumption on when the client opens the document again.
* **DapSession.** `BInv`: what the client asked for is set or under way (`AskedComes`), a configurationDone
  under way is behind the breakpoints it follows (`InOrder`), once it is handled they are set
  (`DoneIsLast`), and the main thread gets to `start` only with it or by a signal (`StartsConfigured`,
  `InterruptIsSignal`). Nothing is in the queues before there is a connection (`NoLink`). `AnswersCome` is
  inductive with the types: the number of a request moves from the one queue to the other, a response leaves
  together with the entry of its number, and a dead launcher stays dead.
* **FileWatchers.** An entry is in use from the client's answer until it is removed, and its patterns are registered
  then (`WaitingInv`); each entry's callback is among those called and its patterns among those registered, but for
  the histories (`WatchersInv`). The first half is stated for entries that still wait for the client too, or it would
  not survive their arrival.
* **ImportsManager.** The locks are no variables of the model: who holds one follows from where the tasks are. `LocksOK`
  shows that this makes sense, for no two tasks are ever where only the holder may be. `UnusedIsLeaving` is then
  inductive with the types: an import lets go of an entry only together with a removal of it, and a removal gives up
  only when the entry is referred to again or has left the table.
  `StaleOnlyByRace` needs `ToldOK`: who has seen a text has an entry, and a handler works with the entry of the table
  (`TasksFit`). Of a library, whoever read it has what the entry keeps or a notice of it under way, and what the entry
  keeps is that of the file while no handler is under way (`LibraryOK`; a library is read only while its entry is empty).
  Of a resource, an emptied entry means a notice or a reload under way (`ResourceOK`). That holds because an
  import never fills an emptied entry behind a handler's back: nobody waits for the lock of an empty entry
  (`WaitsForFull`), which is where the order of asyncio's locks comes in.
* **LanguageFeatures.** `LInv`: a listener reads no text older than the one it was asked about and none newer than
  the present one (`TasksInOrder`). What it stores under the present version is then of that version, whichever other
  listeners stored, cleared or were cancelled meanwhile.
* **Namespace.** `TablesOK`: at most one caller imports, it holds the lock and its first level is the suite.
  `DiagnosticsAreWhole` follows from `WholeUnlessCancelled`: while nobody is cancelled each stage of the initialisation
  and of the analysis accounts for what the diagnostics have by then, and the parts have nothing in common.
  For `NothingIsLeftOut` the table of resources does not tell enough, as a file may be replaced by another one of its
  name. `SomeEntered` says that there is a set of files entered so far: each is still present or shares a name, what it
  imports is entered or still to do on some level (`Pending`), and once all is done nothing leads out of it.
* **KeywordSearch.** The types of the tables suffice; the rest is about the search. `FromFilesEnds`, `ExplicitEnds` and
  `PlainEnds` say how each of its stages ends, `AgreesPlain` goes through them for a name that completion offers. For
  the advice, a keyword that alone matches some name alone matches its own (`MatchesItself`), and a full name is split
  at its owner in one way (`FullNameSplits`), so that only another owner's keyword can come in between.
* **RunKeywords.** The two walks are recursive functions over the ends of the line, and what a recursive function
  computes for every line is an induction, for which the library's theorems cannot be used (they take an operator as a
  parameter). It is done with a set of places instead: `FromTheEnd` says that a set that holds a place whenever it
  holds all the later ones holds every place, from the library's well-foundedness of the naturals. It is used three
  times: there are tables that satisfy the equations of the walks (`TableExists`), whatever satisfies them holds
  results that are in the line and leave later arguments (`TableIs`; `CheckingIs` and `SearchIs` say so of the two walks),
  and they agree, but for ambiguous keywords before the position (`WalksAgree`). Agreement of what is found is not
  inductive: a branch goes on with the arguments the branch before it left, so that both walks must also leave the same
  arguments while the search finds nothing, and what makes it give up must lie before what the analysis leaves.
* **TestRuns.** Types need that run ids suffice: the counter and the number of folders still to come to
  stay within the bound (`RunIdsSuffice`). `NothingAfterEnd` is inductive with `EndedIsLate`: an id
  that stands for an ended run was given to a folder that came too late.
* **TestItems.** Types need that a refresh has the folder or the document it works for (`TurnOK`, and `QueuesOK` for
  those that wait for a mutex). `ItemsAreFound` follows from `ItemsHaveIds` (an item of the tree is in the map by its id)
  and `ShownHaveRoots`, with `OnlyHas` for the function that removes one item after the other. `TreeIsCurrent` is the
  resting case of `CurrentInv`, which says for each folder (`Parts`) that it was asked for, that the answer kept is of
  the present text or an exception is recorded, that an answer with tests is shown, that what is shown is the text, and
  that what is gone is hidden; each unless what makes it true is still to come, as a refresh in progress or waiting or
  an event of the editor (`AllToCome`, `EventToCome`, `FileToCome`).
* **LanguageClients.** Who works holds the mutex, at the head of its queue (`MutexInv`); `ServersInv` says of
  each place of the holder which clients run: those of the map, plus or minus the one being started or stopped.

## What is only model-checked

* Liveness (`RunEnds`, `RequestsAreClosed`, `WaitersProceed`, `Settles`, `SessionEnds`, `ImportsAnswered`,
  `FeaturesEnd`, `CallersEnd`, `TestRunsEnd`): the prover has no support for ENABLED, hence none for fairness.

Every other property of the passing runs is a theorem.

## What is not modelled

* The rendering of variables, evaluation and stack traces: they read the state of a sleeping run and keep
  nothing. debugpy, noDebug, output events, and the end of the adapter's own process: start-up and
  transport.
* Test discovery's building of a suite, and Robocop: calls of Robot Framework and of a linter, without state. What the editor
  does with discovery's answers is in `TestItems`.
* Parsing, library introspection (`library_doc.py`) and the content of the features' answers: large pure computations
  over Robot Framework's syntax trees; what they read, and when, is in `DocumentCache`, `Namespace` and
  `LanguageFeatures`.
* Settings, configuration requests, the list of folders and file operations of the workspace: single requests
  that keep no state that interleaves.
* A client that cannot register watchers or that refuses a registration; the restart of the editor, of a
  language server by hand and of its client's process; the attached Python debug session and the resolution of
  launch configurations in `debugmanager.ts`.
* The conversion of JSON to typed records (`lsp_types.py`, `dap_types.py`, `utils/dataclasses.py`), URIs, logging and
  the command lines.

A data race on a single Python attribute has no torn outcome under the interpreter's lock, so accesses
are atomic and their order is what is modelled.

## Plan

The modules were written in the order of what depends on what; each step is done unless it says otherwise.

1. `Debugger`: the run control everything else serves. Six theorems.
2. `JsonRpc` with the abstract `RequestLifecycle`, and `Framing`. Four theorems, among them the refinement.
3. `DocumentCache` and `Diagnostics`. Nine theorems.
4. `DapSession`: composes adapter, connection and launcher around a run. Three theorems.
5. `ImportsManager`: entries with their locks, sentinels and finalizers, invalidation by files and documents. Four theorems.
6. `FileWatchers`: watch entries with parents, children and callbacks. Two theorems.
7. `TestRuns`, `TestItems`, `LanguageClients`: the editor's side. Seven theorems.
8. `LanguageFeatures`, `Namespace`, `KeywordSearch`, `RunKeywords`: what answers requests about a document. Seven theorems.
9. *Left:* the lock that an imports manager holds across a configuration request; incremental text changes in UTF-16
   positions and the delta encoding of semantic tokens as pure operators.

## Running it

`tlc -config MCDebugger.cfg MCDebugger.tla`, and so on for each `.cfg` listed under `runs` in
`PROJECT.json`; `tlapm Debugger_proofs.tla`, and so on for each `_proofs` module. Each run takes
between a few seconds and about three minutes with two workers. `PROJECT.json` maps every definition to the
lines it models, and names for every property a plausible change of the code that violates it.
