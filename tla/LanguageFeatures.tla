-------------------------- MODULE LanguageFeatures --------------------------
(***************************************************************************)
(* The requests an editor sends about one open document, and the listeners *)
(* that answer them: hover, goto, completion, signature help, folding      *)
(* ranges, symbols, semantic tokens and formatting.                        *)
(*                                                                         *)
(* A listener is a task that awaits the document's syntax tree, namespace  *)
(* and imported files one after the other.  What decides how far it gets,  *)
(* the position and the text, is a choice; each piece of code is the set   *)
(* of the sequences of awaits that it may make.                            *)
(***************************************************************************)
EXTENDS Naturals, Sequences, FiniteSets

CONSTANTS
    Requests,       \* requests that are in progress together
    Features,       \* what the editor asks for by each of them
    MaxVersion      \* bound: versions of the text

FeatureNames == {"goto", "hover", "signature_help", "completion", "folding_range", "document_symbols",
                 "semantic_tokens", "format_internal", "format_robot_tidy"}

ASSUME LanguageFeaturesAssumption ==
    /\ MaxVersion \in Nat
    /\ Features \in [Requests -> SUBSET FeatureNames]

VARIABLES
    version,        \* of the text of the document
    formatted,      \* versions whose cached tree the formatter has rewritten
    colored,        \* the cached semantic tokens of this version, or NoTokens
    request,        \* status of each request: free, asked, answered, cancelled
    task            \* the task of its listener

lfVars == <<version, formatted, colored, request, task>>

NoTokens == [tree |-> 0, names |-> 0]

-----------------------------------------------------------------------------
(* Awaits, and what happens when one fails: the exception leaves the       *)
(* listener, is caught unless it is a cancellation, or is caught anyway.   *)
(* Awaits of the same namespace that follow one another are one.           *)

Await(op) == [op |-> op, catches |-> "nothing"]
AwaitSafely(op) == [op |-> op, catches |-> "errors"]
AwaitSilently(op) == [op |-> op, catches |-> "everything"]

Tree == Await("tree")               \* documents_cache.get_model
Namespace_ == Await("names")             \* documents_cache.get_namespace
Lookup == Await("lookup")           \* of the namespace
Manager == Await("manager")         \* documents_cache.get_imports_manager

None == {<<>>}
Maybe(paths) == None \union paths
Then(p, q) == {a \o b : a \in p, b \in q}

\* ModelHelperMixin.get_keyworddoc_and_token_from_position.
Keyword == {<<AwaitSafely("lookup")>>}

\* RobotGotoProtocolPart
_definition_default == {<<Namespace_>>, <<Namespace_, AwaitSilently("lookup")>>}
definition_KeywordCall == Then({<<Namespace_>>}, Keyword)
definition_Fixture == Then({<<Namespace_>>}, Keyword)
_definition_Template_or_TestTemplate == Maybe({<<Namespace_, Lookup>>})
definition_LibraryImport == Maybe({<<Namespace_, AwaitSilently("import")>>})
definition_ResourceImport == Maybe({<<Namespace_, AwaitSilently("import")>>})

\* RobotHoverProtocolPart
_hover_default == {<<Namespace_>>, <<Namespace_, AwaitSilently("lookup")>>}
hover_KeywordCall == Then({<<Namespace_>>}, Keyword)
hover_Fixture == Then({<<Namespace_>>}, Keyword)
_hover_Template_or_TestTemplate == Maybe({<<Namespace_, Lookup>>})
hover_LibraryImport == Maybe({<<Namespace_, AwaitSilently("import")>>})
hover_ResourceImport == Maybe({<<Namespace_, AwaitSilently("import")>>})

\* RobotSignatureHelpProtocolPart
_signature_help_KeywordCall_or_Fixture == Then({<<Namespace_>>}, Maybe(Keyword))
signature_help_LibraryImport == Maybe({<<Manager, AwaitSafely("import")>>})

\* CompletionCollector; sections are written in a style that is configured.
create_section_completion_items == {<<Await("style")>>}
create_variables_completion_items == {<<Namespace_, Lookup>>}
create_keyword_completion_items == {<<Namespace_, Lookup>>}
complete_default == Maybe(create_section_completion_items \union create_variables_completion_items)
_complete_TestCase_or_Keyword == Maybe(create_keyword_completion_items)
_complete_SuiteSetup_or_SuiteTeardown_or_TestTemplate == Maybe(create_keyword_completion_items)
complete_Setup_or_Teardown_or_Template == Maybe(create_keyword_completion_items)
complete_import == Maybe({<<Manager, AwaitSafely("import")>>})
complete_arguments == Maybe({<<Namespace_>>, <<Namespace_, Lookup>>})
complete_LibraryImport == Then(complete_import, complete_arguments)
complete_ResourceImport == Maybe({<<Manager, AwaitSafely("import")>>})
_complete_KeywordCall_or_Fixture == Maybe(Then({<<Namespace_>>}, Maybe(Keyword)))

\* What each listener awaits first; what the method for the node at the position
\* awaits; what is awaited if that has no result, for a completion in any case.
collect(f) ==
    CASE f \in {"goto", "hover", "signature_help", "completion", "folding_range", "document_symbols"} -> {<<Tree>>}
      [] f = "semantic_tokens" -> {<<Await("cache"), Tree, Namespace_, Lookup, Await("thread")>>}
      [] f = "format_internal" -> {<<Await("rewrite")>>}
      [] f = "format_robot_tidy" -> {<<Await("style"), AwaitSilently("rewrite")>>}

methods(f) ==
    CASE f = "goto" -> None \union definition_KeywordCall \union definition_Fixture
            \union _definition_Template_or_TestTemplate
            \union definition_LibraryImport \union definition_ResourceImport
      [] f = "hover" -> None \union hover_KeywordCall \union hover_Fixture
            \union _hover_Template_or_TestTemplate \union hover_LibraryImport \union hover_ResourceImport
      [] f = "signature_help" -> _signature_help_KeywordCall_or_Fixture \union signature_help_LibraryImport
      [] f = "completion" -> _complete_TestCase_or_Keyword \union complete_Setup_or_Teardown_or_Template
            \union _complete_SuiteSetup_or_SuiteTeardown_or_TestTemplate
            \union complete_LibraryImport \union complete_ResourceImport \union _complete_KeywordCall_or_Fixture
      [] OTHER -> {}

defaults(f) == CASE f = "goto" -> _definition_default [] f = "hover" -> _hover_default
                 [] f = "completion" -> complete_default [] OTHER -> {}

-----------------------------------------------------------------------------

Idle == [stage |-> "none"]
Done == [stage |-> "done"]

lfInit ==
    /\ version = 1 /\ formatted = {} /\ colored = NoTokens
    /\ request = [r \in Requests |-> "free"]
    /\ task = [r \in Requests |-> Idle]

\* A request arrives, and its listener starts as a task.
Ask(r, f) ==
    /\ request[r] = "free"
    /\ request' = [request EXCEPT ![r] = "asked"]
    /\ \E p \in collect(f) :
        task' = [task EXCEPT ![r] = [feature |-> f, stage |-> "collect", path |-> p, since |-> version,
                                     at |-> version, tree |-> 0, names |-> 0, cut |-> FALSE]]
    /\ UNCHANGED <<version, formatted, colored>>

\* The task is at its next await; what it reads is of the text at that time or
\* of a later one, as the document cache has it.
Running(r) == task[r].stage \in {"collect", "method", "last method", "default"}
AtAwait(r, op) == Running(r) /\ ~task[r].cut /\ task[r].path # <<>> /\ Head(task[r].path).op = op
Goes(r, t) == task' = [task EXCEPT ![r] = [t EXCEPT !.path = Tail(t.path), !.at = version]]
Read(r) == task[r].at .. version

ReadTree(r) ==
    /\ AtAwait(r, "tree")
    /\ \E v \in Read(r) : Goes(r, [task[r] EXCEPT !.tree = v])
    /\ UNCHANGED <<version, formatted, colored, request>>

ReadNames(r) ==
    /\ AtAwait(r, "names")
    /\ \E v \in Read(r) : Goes(r, [task[r] EXCEPT !.names = v])
    /\ UNCHANGED <<version, formatted, colored, request>>

ReadOther(r) ==
    /\ \E op \in {"lookup", "manager", "import", "style", "thread"} : AtAwait(r, op)
    /\ Goes(r, task[r])
    /\ UNCHANGED <<version, formatted, colored, request>>

\* The formatter changes the tree that it was given, the one of the cache.
Rewrite(r) ==
    /\ AtAwait(r, "rewrite")
    /\ \E v \in Read(r) :
        /\ formatted' = formatted \union {v}
        /\ Goes(r, [task[r] EXCEPT !.tree = v])
    /\ UNCHANGED <<version, colored, request>>

\* Semantic tokens are cached with the document, by text_document.get_cache: the
\* first task that asks for those of a version computes them, others wait.
Colors(r, v) == Running(r) /\ task[r].feature = "semantic_tokens" /\ task[r].since = v
                /\ task[r].path # <<>> /\ Head(task[r].path).op # "cache"
ReadCache(r) ==
    /\ AtAwait(r, "cache")
    /\ \E v \in Read(r) :
        /\ \A s \in Requests : ~Colors(s, v)
        /\ IF v = version /\ colored # NoTokens
           THEN Goes(r, [task[r] EXCEPT !.since = v, !.path = <<Head(@)>>,
                                        !.tree = colored.tree, !.names = colored.names])
           ELSE Goes(r, [task[r] EXCEPT !.since = v])
    /\ UNCHANGED <<version, formatted, colored, request>>

Stage(r, stage, paths) == \E p \in paths : task' = [task EXCEPT ![r].stage = stage, ![r].path = p]

\* Mutant: tokens of an older text go into the cache of the present one.
EndsAnyhow(r) ==
    /\ task' = [task EXCEPT ![r] = Done]
    /\ colored' = IF task[r].feature = "semantic_tokens" THEN [tree |-> task[r].tree, names |-> task[r].names]
                  ELSE colored

\* The listener returns.  Tokens go to the entry they were computed for, which
\* the document has dropped if its text is another one now.
Ends(r) ==
    /\ task' = [task EXCEPT ![r] = Done]
    /\ colored' = IF task[r].feature = "semantic_tokens" /\ task[r].since = version
                  THEN [tree |-> task[r].tree, names |-> task[r].names] ELSE colored

\* Nothing is left to await here: the listener goes on with a method, with its
\* default, or returns.  A completion asks the methods of two nodes.
Advance(r) ==
    /\ Running(r) /\ task[r].path = <<>>
    /\ LET f == task[r].feature IN
       \/ task[r].stage = "collect" /\ Stage(r, "method", methods(f)) /\ UNCHANGED colored
       \/ task[r].stage = "method" /\ f = "completion" /\ Stage(r, "last method", methods(f)) /\ UNCHANGED colored
       \/ /\ task[r].stage \in {"method", "last method"} /\ defaults(f) # {}
          /\ Stage(r, "default", defaults(f)) /\ UNCHANGED colored
       \/ /\ task[r].stage = "collect" \/ f # "completion" \/ task[r].stage = "default"
          /\ Ends(r)
    /\ UNCHANGED <<version, formatted, request>>

\* What is caught ends the method of goto and hover, which go on with their
\* default, and else what it was awaited for.
Catches(r) ==
    LET t == task[r] IN
    IF t.feature \in {"goto", "hover"} /\ t.stage = "method"
    THEN \E p \in defaults(t.feature) :
            task' = [task EXCEPT ![r].stage = "default", ![r].path = p, ![r].cut = FALSE, ![r].at = version]
    ELSE task' = [task EXCEPT ![r].path = Tail(@), ![r].cut = FALSE, ![r].at = version]

\* An await fails; an exception that nobody catches ends the listener, is logged
\* by the part that collects, and the answer is null.
Fails(r) ==
    /\ Running(r) /\ ~task[r].cut /\ task[r].path # <<>> /\ Head(task[r].path).op # "cache"
    /\ IF Head(task[r].path).catches # "nothing" THEN Catches(r)
       ELSE task' = [task EXCEPT ![r] = Done]
    /\ UNCHANGED <<version, formatted, colored, request>>

\* Mutant: what catches everything begins the await again.
TriesAgain(r) ==
    /\ Running(r) /\ task[r].cut /\ task[r].path # <<>>
    /\ IF Head(task[r].path).catches = "everything" THEN UNCHANGED task
       ELSE task' = [task EXCEPT ![r] = Done]
    /\ UNCHANGED <<version, formatted, colored, request>>

\* A cancellation reaches the await that the task is at; "except BaseException"
\* catches it like any error, and the task goes on.
Interrupted(r) ==
    /\ Running(r) /\ task[r].cut /\ task[r].path # <<>>
    /\ IF Head(task[r].path).catches = "everything" THEN Catches(r)
       ELSE task' = [task EXCEPT ![r] = Done]
    /\ UNCHANGED <<version, formatted, colored, request>>

\* The request has the result of its listener.
Answer(r) ==
    /\ request[r] = "asked" /\ task[r] = Done
    /\ request' = [request EXCEPT ![r] = "answered"]
    /\ UNCHANGED <<version, formatted, colored, task>>

\* The editor takes a request back: _notify cancels the task of the listener and
\* does not wait for its end.
Cancel(r) ==
    /\ request[r] = "asked"
    /\ request' = [request EXCEPT ![r] = "cancelled"]
    /\ task' = IF Running(r) THEN [task EXCEPT ![r].cut = TRUE] ELSE task
    /\ UNCHANGED <<version, formatted, colored>>

\* The editor changes the text.
Change ==
    /\ version < MaxVersion
    /\ version' = version + 1 /\ colored' = NoTokens
    /\ UNCHANGED <<formatted, request, task>>

Work(r) ==
    \/ ReadTree(r) \/ ReadNames(r) \/ ReadOther(r) \/ ReadCache(r) \/ Rewrite(r)
    \/ Advance(r) \/ Interrupted(r) \/ Answer(r)

lfNext ==
    \/ Change
    \/ \E r \in Requests : Work(r) \/ Fails(r) \/ Cancel(r) \/ \E f \in Features[r] : Ask(r, f)

lfSpec == lfInit /\ [][lfNext]_lfVars

\* Every await ends some time, and the loop runs every task.
lfFairness == \A r \in Requests : WF_lfVars(Work(r))

-----------------------------------------------------------------------------

\* The tokens in the cache are of the present text, from its tree to its names.
TokensFit == colored # NoTokens => colored = [tree |-> version, names |-> version]

\* Every request is answered or was taken back, and no listener stays behind, not
\* even one that catches its own cancellation.
FeaturesEnd == \A r \in Requests :
    /\ request[r] = "asked" ~> request[r] # "asked"
    /\ task[r] # Idle ~> task[r] = Done
=============================================================================
