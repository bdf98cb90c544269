----------------------------- MODULE Namespace -----------------------------
(***************************************************************************)
(* The namespace of a document: which resource files it and its imports    *)
(* bring in, and the diagnostics it reports.  Requests initialise it, one  *)
(* at a time; a request may be cancelled wherever it waits, and the next   *)
(* one finds the tables as they are then.                                  *)
(*                                                                         *)
(* Libraries are imported in the same way, into a table of their own; only *)
(* resources import further files.                                         *)
(***************************************************************************)
EXTENDS Naturals, Sequences, FiniteSets, SequencesExt

CONSTANTS
    Files,              \* resource files
    Suite,              \* the file of the namespace
    Layouts,            \* what the files import: from each file to a sequence of
                        \* [name, file], the file is Missing if there is none
    Missing,
    Readers,            \* requests that need what is imported
    Checkers            \* runs of the diagnostics of the document

Callers == Readers \union Checkers
Free == "nobody"                    \* has a lock

ASSUME NamespaceAssumption ==
    /\ Suite \in Files /\ Missing \notin Files
    /\ \A l \in Layouts : l \in [Files -> Seq([name : STRING, file : Files \union {Missing}])]
    /\ Readers \intersect Checkers = {} /\ Free \notin Callers

VARIABLES
    imports,            \* the layout
    _resources,         \* from the name of an import to its file
    _diagnostics,       \* what has been reported, in this order: what gathered imports
                        \* report is a set
    _initialized, _analyzed,
    _initialize_lock, _analyze_lock,
    caller,             \* what each caller is at
    cancelled           \* callers that were cancelled

nsVars == <<imports, _resources, _diagnostics, _initialized, _analyzed,
            _initialize_lock, _analyze_lock, caller, cancelled>>

\* A diagnostic is about an import of the suite, at its place, or about the rest of
\* the file: what an analysis finds in the tree, and in its documentation.
Finding == [at |-> 0, of |-> "finding"]
Error == [at |-> 0, of |-> "error"]

Imported(file) == \E n \in DOMAIN _resources : _resources[n] = file
Report(at, of) == _diagnostics' = Append(_diagnostics, {[at |-> at, of |-> of]})

nsInit ==
    /\ imports \in Layouts
    /\ _resources = <<>> /\ _diagnostics = <<>>
    /\ _initialized = FALSE /\ _analyzed = FALSE
    /\ _initialize_lock = Free /\ _analyze_lock = Free
    /\ caller = [c \in Callers |-> [at |-> "start", levels |-> <<>>, answer |-> <<>>]]
    /\ cancelled = {}

-----------------------------------------------------------------------------

At(c, place) == caller[c].at = place
Moves(c, place) == caller' = [caller EXCEPT ![c].at = place]

\* The diagnostics of a document run again only when the last run is over or
\* cancelled.
asks(c) ==
    /\ At(c, "start")
    /\ c \in Checkers => \A d \in Checkers \ {c} : caller[d].at \in {"start", "answered", "ended"} \/ d \in cancelled
    /\ Moves(c, "called")
    /\ UNCHANGED <<imports, _resources, _diagnostics, _initialized, _analyzed,
                   _initialize_lock, _analyze_lock, cancelled>>

\* The namespace is initialised: a reader has what it needs; get_diagnostisc asks
\* whether an analysis was made, before it waits for the lock.
Initialized(c) ==
    IF c \in Readers THEN [caller[c] EXCEPT !.at = "answered", !.levels = <<>>]
    ELSE IF _analyzed THEN [caller[c] EXCEPT !.at = "answered", !.levels = <<>>, !.answer = _diagnostics]
    ELSE [caller[c] EXCEPT !.at = "before analysis", !.levels = <<>>]

Level(file) == [of |-> file, todo |-> {}, loaded |-> FALSE]

ensure_initialized(c) ==
    /\ At(c, "called") /\ c \notin cancelled
    /\ _initialize_lock = Free
    /\ IF _initialized THEN caller' = [caller EXCEPT ![c] = Initialized(c)] /\ UNCHANGED _initialize_lock
       ELSE /\ _initialize_lock' = c
            /\ caller' = [caller EXCEPT ![c].at = "importing", ![c].levels = <<Level(Suite)>>]
    /\ UNCHANGED <<imports, _resources, _diagnostics, _initialized, _analyzed, _analyze_lock, cancelled>>

-----------------------------------------------------------------------------
(* _import_imports calls itself for the imports of a resource: a level for *)
(* each call in progress.                                                  *)

Importing(c) == At(c, "importing") /\ c \notin cancelled
level(c) == Last(caller[c].levels)
top_level(c) == Len(caller[c].levels) = 1
SetLevel(c, l) == [caller EXCEPT ![c].levels = Append(Front(@), l)]

\* _import of every import at once, gathered: a missing file is reported at the
\* top level; a file that is imported already gives no entry.
Absent(file) == {[at |-> k, of |-> "missing"] : k \in {j \in DOMAIN imports[file] : imports[file][j].file = Missing}}
Entries(file) == {k \in DOMAIN imports[file] : imports[file][k].file # Missing /\ ~Imported(imports[file][k].file)}

load_imports(c) ==
    /\ Importing(c) /\ ~level(c).loaded
    /\ caller' = SetLevel(c, [level(c) EXCEPT !.todo = Entries(level(c).of), !.loaded = TRUE])
    /\ _diagnostics' = IF top_level(c) THEN Append(_diagnostics, Absent(Suite)) ELSE _diagnostics
    /\ UNCHANGED <<imports, _resources, _initialized, _analyzed, _initialize_lock, _analyze_lock, cancelled>>

\* The first of the imports still to do.
NextEntry(c) == Importing(c) /\ level(c).loaded /\ level(c).todo # {}
place(c) == Min(level(c).todo)
entry(c) == imports[level(c).of][place(c)]
Dropped(c) == [level(c) EXCEPT !.todo = @ \ {place(c)}]
WithResource(e) == [n \in DOMAIN _resources \union {e.name} |-> IF n = e.name THEN e.file ELSE _resources[n]]

\* Mutant: what a resource imports is left for later.
add_resource_alone(c) ==
    /\ NextEntry(c)
    /\ ~Imported(entry(c).file) /\ entry(c).file # Suite
    /\ _resources' = WithResource(entry(c))
    /\ caller' = SetLevel(c, Dropped(c))
    /\ UNCHANGED <<imports, _diagnostics, _initialized, _analyzed, _initialize_lock, _analyze_lock, cancelled>>

\* A new resource is entered, and what it imports comes next.
add_resource(c) ==
    /\ NextEntry(c)
    /\ ~Imported(entry(c).file) /\ entry(c).file # Suite
    /\ _resources' = WithResource(entry(c))
    /\ caller' = [caller EXCEPT ![c].levels =
            Append(Append(Front(@), Dropped(c)), Level(entry(c).file))]
    /\ UNCHANGED <<imports, _diagnostics, _initialized, _analyzed, _initialize_lock, _analyze_lock, cancelled>>

\* Mutant: what is imported again is not reported.
again_silently(c) ==
    /\ NextEntry(c)
    /\ Imported(entry(c).file) \/ entry(c).file = Suite
    /\ _resources' = IF top_level(c) /\ entry(c).file # Suite THEN WithResource(entry(c)) ELSE _resources
    /\ caller' = SetLevel(c, Dropped(c))
    /\ UNCHANGED <<imports, _diagnostics, _initialized, _analyzed, _initialize_lock, _analyze_lock, cancelled>>

\* One that is the file itself, or has come in by another import since: reported
\* at the top level, where the second one is entered as well.
add_again(c) ==
    /\ NextEntry(c)
    /\ Imported(entry(c).file) \/ entry(c).file = Suite
    /\ IF ~top_level(c) THEN UNCHANGED <<_resources, _diagnostics>>
       ELSE IF entry(c).file = Suite THEN Report(place(c), "recursive") /\ UNCHANGED _resources
       ELSE Report(place(c), "imported already") /\ _resources' = WithResource(entry(c))
    /\ caller' = SetLevel(c, Dropped(c))
    /\ UNCHANGED <<imports, _initialized, _analyzed, _initialize_lock, _analyze_lock, cancelled>>

\* The imports of a file are done; after those of the suite the namespace is
\* initialised.
level_done(c) ==
    /\ Importing(c) /\ level(c).loaded /\ level(c).todo = {}
    /\ IF top_level(c)
       THEN /\ _initialized' = TRUE /\ _initialize_lock' = Free
            /\ caller' = [caller EXCEPT ![c] = Initialized(c)]
       ELSE /\ caller' = [caller EXCEPT ![c].levels = Front(@)]
            /\ UNCHANGED <<_initialized, _initialize_lock>>
    /\ UNCHANGED <<imports, _resources, _diagnostics, _analyzed, _analyze_lock, cancelled>>

-----------------------------------------------------------------------------
(* get_diagnostisc, _analyze *)

start_analysis(c) ==
    /\ At(c, "before analysis") /\ c \notin cancelled
    /\ _analyze_lock = Free /\ _analyze_lock' = c
    /\ Moves(c, "analyzing")
    /\ UNCHANGED <<imports, _resources, _diagnostics, _initialized, _analyzed, _initialize_lock, cancelled>>

\* Mutant: what the analyser has found takes the place of what was reported.
analyzed_alone(c) ==
    /\ At(c, "analyzing") /\ c \notin cancelled
    /\ _diagnostics' = <<{Finding}>>
    /\ Moves(c, "documenting")
    /\ UNCHANGED <<imports, _resources, _initialized, _analyzed, _initialize_lock, _analyze_lock, cancelled>>

\* What the analyser has found is added when it is through; the documentation of
\* the file comes next.
analyzed_tree(c) ==
    /\ At(c, "analyzing") /\ c \notin cancelled
    /\ _diagnostics' = Append(_diagnostics, {Finding})
    /\ Moves(c, "documenting")
    /\ UNCHANGED <<imports, _resources, _initialized, _analyzed, _initialize_lock, _analyze_lock, cancelled>>

end_analysis(c) ==
    /\ At(c, "documenting") /\ c \notin cancelled
    /\ _diagnostics' = Append(_diagnostics, {Error})
    /\ caller' = [caller EXCEPT ![c].at = "answered", ![c].answer = _diagnostics']
    /\ _analyzed' = TRUE /\ _analyze_lock' = Free
    /\ UNCHANGED <<imports, _resources, _initialized, _initialize_lock, cancelled>>

-----------------------------------------------------------------------------

\* Where a caller waits: for a lock, for imports, for an analysis.
Waits(c) == \/ caller[c].at \in {"called", "before analysis", "analyzing", "documenting"}
            \/ At(c, "importing") /\ ~level(c).loaded

cancel(c) ==
    /\ Waits(c) /\ c \notin cancelled
    /\ cancelled' = cancelled \union {c}
    /\ UNCHANGED <<imports, _resources, _diagnostics, _initialized, _analyzed,
                   _initialize_lock, _analyze_lock, caller>>

\* Mutant: the lock of the initialisation is not released.
interrupted_locking(c) ==
    /\ Waits(c) /\ c \in cancelled
    /\ caller' = [caller EXCEPT ![c].at = "ended", ![c].levels = <<>>]
    /\ _analyze_lock' = IF _analyze_lock = c THEN Free ELSE _analyze_lock
    /\ UNCHANGED <<imports, _resources, _diagnostics, _initialized, _analyzed, _initialize_lock, cancelled>>

\* The cancellation ends the caller.  The locks are released, what is in the tables
\* stays, with what the imports had reported by then, and an analysis counts as made.
interrupted(c) ==
    /\ Waits(c) /\ c \in cancelled
    /\ \/ /\ At(c, "importing") /\ top_level(c)
          /\ \E some \in SUBSET Absent(Suite) : _diagnostics' = Append(_diagnostics, some)
       \/ ~(At(c, "importing") /\ top_level(c)) /\ UNCHANGED _diagnostics
    /\ _analyzed' = (_analyzed \/ caller[c].at \in {"analyzing", "documenting"})
    /\ _initialize_lock' = IF _initialize_lock = c THEN Free ELSE _initialize_lock
    /\ _analyze_lock' = IF _analyze_lock = c THEN Free ELSE _analyze_lock
    /\ caller' = [caller EXCEPT ![c].at = "ended", ![c].levels = <<>>]
    /\ UNCHANGED <<imports, _resources, _initialized, cancelled>>

Proceeds(c) ==
    \/ ensure_initialized(c) \/ load_imports(c) \/ add_resource(c) \/ add_again(c) \/ level_done(c)
    \/ start_analysis(c) \/ analyzed_tree(c) \/ end_analysis(c) \/ interrupted(c)

nsNext == \E c \in Callers : asks(c) \/ cancel(c) \/ Proceeds(c)

nsSpec == nsInit /\ [][nsNext]_nsVars

\* The loop runs every task, loading an import and analysing a tree come to an end,
\* and asyncio gives a lock to the one that waits longest.
nsFairness == \A c \in Callers : WF_nsVars(Proceeds(c))

-----------------------------------------------------------------------------

\* The files that a chain of imports leads to from the suite: every set that has
\* the suite, and with a file what it imports, has them.
ImportsOf(f) == {i.file : i \in Range(imports[f])} \ {Missing}
Closed(fs) == Suite \in fs /\ \A f \in fs : ImportsOf(f) \subseteq fs
Reachable == {f \in Files : \A fs \in SUBSET Files : Closed(fs) => f \in fs}
NamesOf(f) == {i.name : i \in {j \in UNION {Range(imports[g]) : g \in Reachable} : j.file = f}}

\* Once the namespace is initialised every file that imports lead to is in it.
\* Two things keep one out: another file that is imported by the same name, and
\* an initialisation that was cancelled when some files had been entered.
NothingIsLeftOut ==
    _initialized => \A f \in Reachable \ {Suite} :
        \/ Imported(f)
        \/ \E g \in Reachable \ {f} : NamesOf(f) \intersect NamesOf(g) # {}
        \/ \E c \in cancelled : caller[c].at = "ended"

\* A file that has come in by two names is reported to have been imported already, at
\* the import that has one of them: its keywords are all found twice.
TwiceIsReported ==
    \A n, m \in DOMAIN _resources : n # m /\ _resources[n] = _resources[m] =>
        \E k \in DOMAIN imports[Suite] :
            /\ imports[Suite][k].name \in {n, m}
            /\ [at |-> k, of |-> "imported already"] \in UNION Range(_diagnostics)

\* Diagnostics are complete and nothing is in them twice, as long as no caller has
\* been cancelled.
DiagnosticsAreWhole ==
    cancelled = {} => \A c \in Checkers : caller[c].at = "answered" =>
        /\ {Finding, Error} \union Absent(Suite) \subseteq UNION Range(caller[c].answer)
        /\ \A j, k \in DOMAIN caller[c].answer :
            j # k => caller[c].answer[j] \intersect caller[c].answer[k] = {}

\* Every caller gets its answer or ends by its cancellation: no lock stays taken.
CallersEnd == \A c \in Callers : At(c, "called") ~> caller[c].at \in {"answered", "ended"}
=============================================================================
