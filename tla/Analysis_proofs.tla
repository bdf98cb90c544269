-------------------------- MODULE Analysis_proofs --------------------------
(* Proofs about what the language features work on.  LanguageFeatures, for *)
(* any number of requests: its variables keep their types, and the         *)
(* semantic tokens in the cache are of the present text.  Namespace, for   *)
(* any files, imports and callers: what a file imports twice is reported,  *)
(* an answer has all the diagnostics, and every file that is reached comes *)
(* in.  KeywordSearch, for any number of keywords: what completion offers  *)
(* is what a name stands for, and the advice to write full names works.    *)
(* RunKeywords, for calls of any length: hover and goto know the keywords  *)
(* that the analysis finds.                                                *)
EXTENDS LanguageFeatures, Namespace, KeywordSearch, RunKeywords, FiniteSetTheorems, SequenceTheorems,
        WellFoundedInduction, TLAPS

-----------------------------------------------------------------------------
(* LanguageFeatures.                                                       *)


Operations == {"tree", "names", "lookup", "manager", "import", "style", "thread", "cache", "rewrite"}
Awaits == [op : Operations, catches : {"nothing", "errors", "everything"}]
Stages == {"collect", "method", "last method", "default"}
Tasks == [feature : FeatureNames, stage : Stages, path : Seq(Awaits), since : Nat, at : Nat,
          tree : Nat, names : Nat, cut : BOOLEAN]

lfTypeOK ==
  /\ version \in Nat /\ version > 0
  /\ colored \in [tree : Nat, names : Nat]
  /\ task \in [Requests -> Tasks \union {Idle, Done}]

(* What the task that colors a text has still to await. *)
Uncached == <<Await("cache"), Tree, Namespace_, Lookup, Await("thread")>>
Unread == <<Tree, Namespace_, Lookup, Await("thread")>>
Unnamed == <<Namespace_, Lookup, Await("thread")>>
Unlooked == <<Lookup, Await("thread")>>
Unsplit == <<Await("thread")>>
ToColor == {Uncached, Unread, Unnamed, Unlooked, Unsplit, <<>>}

(* A task has read texts that are not older than the one it was asked for, or *)
(* than that of its entry in the cache.                                       *)
Coloring(t) ==
  /\ t.stage = "collect" /\ t.path \in ToColor
  /\ t.path \notin {Uncached, Unread} => t.since <= t.tree /\ t.tree <= version
  /\ t.path \notin {Uncached, Unread, Unnamed} => t.since <= t.names /\ t.names <= version

InOrder(t) ==
  t.stage \in Stages =>
    /\ t.since <= t.at /\ t.at <= version
    /\ t.feature = "semantic_tokens" => Coloring(t)

TasksInOrder == \A r \in Requests : InOrder(task[r])

LInv == lfTypeOK /\ TasksInOrder /\ TokensFit

-----------------------------------------------------------------------------
LEMMA ThenIsPaths ==
  ASSUME NEW p, NEW q, p \subseteq Seq(Awaits), q \subseteq Seq(Awaits)
  PROVE  Then(p, q) \subseteq Seq(Awaits)
<1>1. ASSUME NEW a \in Seq(Awaits), NEW b \in Seq(Awaits) PROVE a \o b \in Seq(Awaits)
  BY <1>1, ConcatProperties
<1>2. SUFFICES ASSUME NEW x \in Then(p, q) PROVE x \in Seq(Awaits)
  OBVIOUS
<1>3. PICK a \in p, b \in q : x = a \o b
  BY DEF Then
<1>4. a \in Seq(Awaits) /\ b \in Seq(Awaits)
  OBVIOUS
<1>. QED BY <1>1, <1>3, <1>4

LEMMA MaybeIsPaths ==
  ASSUME NEW p, p \subseteq Seq(Awaits)
  PROVE  Maybe(p) \subseteq Seq(Awaits)
<1>1. <<>> \in Seq(Awaits)
  OBVIOUS
<1>. QED BY <1>1 DEF Maybe, None

LEMMA AwaitsAreAwaits ==
  ASSUME NEW op \in Operations
  PROVE  Await(op) \in Awaits /\ AwaitSafely(op) \in Awaits /\ AwaitSilently(op) \in Awaits
BY DEF Awaits, Await, AwaitSafely, AwaitSilently

LEMMA ShortPaths ==
  /\ \A a \in Awaits : <<a>> \in Seq(Awaits)
  /\ \A a, b \in Awaits : <<a, b>> \in Seq(Awaits)
OBVIOUS

LEMMA NamedAwaits ==
  /\ Tree \in Awaits /\ Namespace_ \in Awaits /\ Lookup \in Awaits /\ Manager \in Awaits
BY AwaitsAreAwaits DEF Tree, Namespace_, Lookup, Manager, Operations

LEMMA KeywordIsPaths == Keyword \subseteq Seq(Awaits)
<1>1. AwaitSafely("lookup") \in Awaits
  BY AwaitsAreAwaits DEF Operations
<1>. QED BY <1>1, ShortPaths DEF Keyword

LEMMA NamespacePaths ==
  /\ {<<Namespace_>>} \subseteq Seq(Awaits)
  /\ {<<Namespace_, Lookup>>} \subseteq Seq(Awaits)
  /\ {<<Namespace_, AwaitSilently("lookup")>>} \subseteq Seq(Awaits)
  /\ {<<Namespace_, AwaitSilently("import")>>} \subseteq Seq(Awaits)
  /\ {<<Manager, AwaitSafely("import")>>} \subseteq Seq(Awaits)
  /\ {<<Await("style")>>} \subseteq Seq(Awaits)
<1>1. /\ AwaitSilently("lookup") \in Awaits /\ AwaitSilently("import") \in Awaits
      /\ AwaitSafely("import") \in Awaits /\ Await("style") \in Awaits
  BY AwaitsAreAwaits DEF Operations
<1>. QED BY <1>1, NamedAwaits, ShortPaths

LEMMA DefaultPaths ==
  ASSUME NEW f \in FeatureNames
  PROVE  defaults(f) \subseteq Seq(Awaits)
<1>1. _definition_default \subseteq Seq(Awaits) /\ _hover_default \subseteq Seq(Awaits)
  BY NamespacePaths DEF _definition_default, _hover_default
<1>2. complete_default \subseteq Seq(Awaits)
  BY NamespacePaths, MaybeIsPaths
     DEF complete_default, create_section_completion_items, create_variables_completion_items
<1>. QED BY <1>1, <1>2 DEF defaults

LEMMA GotoPaths == methods("goto") \subseteq Seq(Awaits)
<1>1. definition_KeywordCall \subseteq Seq(Awaits)
  BY NamespacePaths, KeywordIsPaths, ThenIsPaths DEF definition_KeywordCall
<1>2. definition_Fixture \subseteq Seq(Awaits)
  BY NamespacePaths, KeywordIsPaths, ThenIsPaths DEF definition_Fixture
<1>3. _definition_Template_or_TestTemplate \subseteq Seq(Awaits)
  BY NamespacePaths, MaybeIsPaths DEF _definition_Template_or_TestTemplate
<1>4. definition_LibraryImport \subseteq Seq(Awaits)
  BY NamespacePaths, MaybeIsPaths DEF definition_LibraryImport
<1>5. definition_ResourceImport \subseteq Seq(Awaits)
  BY NamespacePaths, MaybeIsPaths DEF definition_ResourceImport
<1>6. None \subseteq Seq(Awaits)
  BY DEF None
<1>. QED BY <1>1, <1>2, <1>3, <1>4, <1>5, <1>6 DEF methods

LEMMA HoverPaths == methods("hover") \subseteq Seq(Awaits)
<1>1. hover_KeywordCall \subseteq Seq(Awaits)
  BY NamespacePaths, KeywordIsPaths, ThenIsPaths DEF hover_KeywordCall
<1>2. hover_Fixture \subseteq Seq(Awaits)
  BY NamespacePaths, KeywordIsPaths, ThenIsPaths DEF hover_Fixture
<1>3. _hover_Template_or_TestTemplate \subseteq Seq(Awaits)
  BY NamespacePaths, MaybeIsPaths DEF _hover_Template_or_TestTemplate
<1>4. hover_LibraryImport \subseteq Seq(Awaits)
  BY NamespacePaths, MaybeIsPaths DEF hover_LibraryImport
<1>5. hover_ResourceImport \subseteq Seq(Awaits)
  BY NamespacePaths, MaybeIsPaths DEF hover_ResourceImport
<1>6. None \subseteq Seq(Awaits)
  BY DEF None
<1>. QED BY <1>1, <1>2, <1>3, <1>4, <1>5, <1>6 DEF methods

LEMMA SignatureHelpPaths == methods("signature_help") \subseteq Seq(Awaits)
<1>1. Maybe(Keyword) \subseteq Seq(Awaits)
  BY KeywordIsPaths, MaybeIsPaths
<1>2. _signature_help_KeywordCall_or_Fixture \subseteq Seq(Awaits)
  BY <1>1, NamespacePaths, ThenIsPaths DEF _signature_help_KeywordCall_or_Fixture
<1>3. signature_help_LibraryImport \subseteq Seq(Awaits)
  BY NamespacePaths, MaybeIsPaths DEF signature_help_LibraryImport
<1>. QED BY <1>2, <1>3 DEF methods

LEMMA CompletionPaths == methods("completion") \subseteq Seq(Awaits)
<1>1. create_keyword_completion_items \subseteq Seq(Awaits)
  BY NamespacePaths DEF create_keyword_completion_items
<1>2. /\ _complete_TestCase_or_Keyword \subseteq Seq(Awaits)
      /\ _complete_SuiteSetup_or_SuiteTeardown_or_TestTemplate \subseteq Seq(Awaits)
      /\ complete_Setup_or_Teardown_or_Template \subseteq Seq(Awaits)
  BY <1>1, MaybeIsPaths DEF _complete_TestCase_or_Keyword, complete_Setup_or_Teardown_or_Template,
     _complete_SuiteSetup_or_SuiteTeardown_or_TestTemplate
<1>3. complete_import \subseteq Seq(Awaits) /\ complete_ResourceImport \subseteq Seq(Awaits)
  BY NamespacePaths, MaybeIsPaths DEF complete_import, complete_ResourceImport
<1>4. complete_arguments \subseteq Seq(Awaits)
  <2>1. {<<Namespace_>>, <<Namespace_, Lookup>>} \subseteq Seq(Awaits)
    BY NamespacePaths
  <2>. QED BY <2>1, MaybeIsPaths DEF complete_arguments
<1>5. complete_LibraryImport \subseteq Seq(Awaits)
  BY <1>3, <1>4, ThenIsPaths DEF complete_LibraryImport
<1>6. _complete_KeywordCall_or_Fixture \subseteq Seq(Awaits)
  <2>1. Maybe(Keyword) \subseteq Seq(Awaits)
    BY KeywordIsPaths, MaybeIsPaths
  <2>2. Then({<<Namespace_>>}, Maybe(Keyword)) \subseteq Seq(Awaits)
    BY <2>1, NamespacePaths, ThenIsPaths
  <2>. QED BY <2>2, MaybeIsPaths DEF _complete_KeywordCall_or_Fixture
<1>. QED BY <1>2, <1>3, <1>5, <1>6 DEF methods

LEMMA MethodPaths ==
  ASSUME NEW f \in FeatureNames
  PROVE  methods(f) \subseteq Seq(Awaits)
<1>1. CASE f \in {"goto", "hover", "signature_help", "completion"}
  BY <1>1, GotoPaths, HoverPaths, SignatureHelpPaths, CompletionPaths
<1>2. CASE f \notin {"goto", "hover", "signature_help", "completion"}
  BY <1>2 DEF methods
<1>. QED BY <1>1, <1>2

LEMMA ColorsArePaths == ToColor \subseteq Seq(Awaits)
<1>1. Await("cache") \in Awaits /\ Await("thread") \in Awaits
  BY AwaitsAreAwaits DEF Operations
<1>. QED BY <1>1, NamedAwaits DEF ToColor, Uncached, Unread, Unnamed, Unlooked, Unsplit

LEMMA CollectPaths ==
  ASSUME NEW f \in FeatureNames
  PROVE  /\ collect(f) \subseteq Seq(Awaits)
         /\ f = "semantic_tokens" => collect(f) = {Uncached}
<1>1. CASE f = "semantic_tokens"
  BY <1>1, ColorsArePaths DEF collect, Uncached, ToColor
<1>2. CASE f = "format_internal"
  BY <1>2, AwaitsAreAwaits, ShortPaths DEF collect, Operations
<1>3. CASE f = "format_robot_tidy"
  <2>1. Await("style") \in Awaits /\ AwaitSilently("rewrite") \in Awaits
    BY AwaitsAreAwaits DEF Operations
  <2>. QED BY <1>3, <2>1, ShortPaths DEF collect
<1>4. CASE f \in {"goto", "hover", "signature_help", "completion", "folding_range", "document_symbols"}
  BY <1>4, NamedAwaits, ShortPaths DEF collect
<1>. QED BY <1>1, <1>2, <1>3, <1>4 DEF FeatureNames

(* The next await of the task that colors a text, and what comes after it. *)
LEMMA ColorSteps ==
  /\ Head(Uncached) = Await("cache") /\ Tail(Uncached) = Unread
  /\ Head(Unread) = Tree /\ Tail(Unread) = Unnamed
  /\ Head(Unnamed) = Namespace_ /\ Tail(Unnamed) = Unlooked
  /\ Head(Unlooked) = Lookup /\ Tail(Unlooked) = Unsplit
  /\ Head(Unsplit) = Await("thread") /\ Tail(Unsplit) = <<>>
BY DEF Uncached, Unread, Unnamed, Unlooked, Unsplit

LEMMA ColorsDiffer ==
  /\ Uncached \notin {Unread, Unnamed, Unlooked, Unsplit, <<>>}
  /\ Unread \notin {Unnamed, Unlooked, Unsplit, <<>>}
  /\ Unnamed \notin {Unlooked, Unsplit, <<>>}
  /\ Unlooked \notin {Unsplit, <<>>}
  /\ Unsplit # <<>>
<1>1. /\ Len(Uncached) = 5 /\ Len(Unread) = 4 /\ Len(Unnamed) = 3 /\ Len(Unlooked) = 2
      /\ Len(Unsplit) = 1 /\ Len(<<>>) = 0
  BY DEF Uncached, Unread, Unnamed, Unlooked, Unsplit
<1>2. /\ Uncached # Unread /\ Uncached # Unnamed /\ Uncached # Unlooked /\ Uncached # Unsplit
      /\ Unread # Unnamed /\ Unread # Unlooked /\ Unread # Unsplit
      /\ Unnamed # Unlooked /\ Unnamed # Unsplit /\ Unlooked # Unsplit
  BY <1>1
<1>3. /\ Uncached # <<>> /\ Unread # <<>> /\ Unnamed # <<>> /\ Unlooked # <<>> /\ Unsplit # <<>>
  BY <1>1
<1>. QED BY <1>2, <1>3

-----------------------------------------------------------------------------
LEMMA RunningIsTask ==
  ASSUME lfTypeOK, NEW r \in Requests, Running(r)
  PROVE  task[r] \in Tasks /\ task[r].stage \in Stages
<1>1. task[r] \in Tasks \union {Idle, Done}
  BY DEF lfTypeOK
<1>2. Idle.stage = "none" /\ Done.stage = "done"
  BY DEF Idle, Done
<1>. QED BY <1>1, <1>2 DEF Running, Stages

(* A step of one task leaves the others as they are. *)
LEMMA OneTask ==
  ASSUME LInv, NEW r \in Requests, NEW t \in Tasks \union {Idle, Done},
         task' = [task EXCEPT ![r] = t], InOrder(t), version' = version, colored' = colored
  PROVE  LInv'
<1>1. lfTypeOK' /\ TokensFit'
  BY DEF LInv, lfTypeOK, TokensFit
<1>2. ASSUME NEW s \in Requests PROVE InOrder(task[s])'
  <2>1. task'[s] = IF s = r THEN t ELSE task[s]
    BY DEF LInv, lfTypeOK
  <2>2. InOrder(task[s])
    BY DEF LInv, TasksInOrder
  <2>3. InOrder(task'[s])
    BY <2>1, <2>2
  <2>. QED BY <2>3 DEF InOrder, Coloring
<1>. QED BY <1>1, <1>2 DEF LInv, TasksInOrder

LEMMA DoneInOrder == Done \in Tasks \union {Idle, Done} /\ InOrder(Done)
BY DEF Done, InOrder, Stages

LEMMA TailIsPath ==
  ASSUME NEW p \in Seq(Awaits), p # <<>>
  PROVE  Tail(p) \in Seq(Awaits) /\ Head(p) \in Awaits
BY HeadTailProperties

(* What the task that colors a text does next. *)
LEMMA ColorsNext ==
  ASSUME LInv, NEW r \in Requests, Running(r), task[r].feature = "semantic_tokens"
  PROVE  /\ task[r].stage = "collect"
         /\ task[r].path # <<>> => Head(task[r].path).catches = "nothing"
         /\ \/ task[r].path = Uncached /\ Head(task[r].path).op = "cache" /\ Tail(task[r].path) = Unread
            \/ task[r].path = Unread /\ Head(task[r].path).op = "tree" /\ Tail(task[r].path) = Unnamed
            \/ task[r].path = Unnamed /\ Head(task[r].path).op = "names" /\ Tail(task[r].path) = Unlooked
            \/ task[r].path = Unlooked /\ Head(task[r].path).op = "lookup" /\ Tail(task[r].path) = Unsplit
            \/ task[r].path = Unsplit /\ Head(task[r].path).op = "thread" /\ Tail(task[r].path) = <<>>
            \/ task[r].path = <<>>
<1>1. Coloring(task[r])
  BY RunningIsTask DEF LInv, TasksInOrder, InOrder
<1>2. task[r].path \in ToColor
  BY <1>1 DEF Coloring
<1>3. task[r].path # <<>> => Head(task[r].path).catches = "nothing"
  BY <1>2, ColorSteps DEF ToColor, Await, Tree, Namespace_, Lookup
<1>4. /\ Tree.op = "tree" /\ Namespace_.op = "names" /\ Lookup.op = "lookup"
      /\ Await("cache").op = "cache" /\ Await("thread").op = "thread"
  BY DEF Tree, Namespace_, Lookup, Await
<1>. QED BY <1>1, <1>2, <1>3, <1>4, ColorSteps DEF ToColor, Coloring

(* How far it has got. *)
LEMMA ColorsKnown ==
  ASSUME LInv, NEW r \in Requests, Running(r), task[r].feature = "semantic_tokens"
  PROVE  Coloring(task[r])
BY RunningIsTask DEF LInv, TasksInOrder, InOrder

(* A task that has awaited something, and now has tree, names and entry. *)
LEMMA GoesOn ==
  ASSUME LInv, NEW r \in Requests, Running(r), task[r].path # <<>>,
         NEW tree \in Nat, NEW names \in Nat, NEW since \in Nat, NEW p \in Seq(Awaits),
         since <= version,
         NEW t, t = [task[r] EXCEPT !.tree = tree, !.names = names, !.since = since,
                                    !.path = p, !.at = version],
         task' = [task EXCEPT ![r] = t],
         task[r].feature = "semantic_tokens" =>
           /\ p \in ToColor
           /\ p \notin {Uncached, Unread} => since <= tree /\ tree <= version
           /\ p \notin {Uncached, Unread, Unnamed} => since <= names /\ names <= version,
         version' = version, colored' = colored
  PROVE  LInv'
<1>1. task[r] \in Tasks /\ version \in Nat
  BY RunningIsTask DEF LInv, lfTypeOK
<1>2. t \in Tasks
  BY <1>1 DEF Tasks
<1>3. /\ t.tree = tree /\ t.names = names /\ t.since = since /\ t.path = p /\ t.at = version
      /\ t.feature = task[r].feature /\ t.stage = task[r].stage
  BY <1>1 DEF Tasks
<1>4. InOrder(t)
  <2>1. t.since <= t.at /\ t.at <= version
    BY <1>1, <1>3
  <2>2. ASSUME t.feature = "semantic_tokens" PROVE Coloring(t)
    BY <1>3, <2>2, ColorsNext DEF Coloring
  <2>. QED BY <2>1, <2>2 DEF InOrder
<1>. QED BY <1>2, <1>4, OneTask

-----------------------------------------------------------------------------
LEMMA WhatIsRead ==
  ASSUME LInv, NEW r \in Requests, Running(r), NEW v \in Read(r)
  PROVE  v \in Nat /\ task[r].since <= v /\ v <= version
<1>1. task[r] \in Tasks /\ version \in Nat /\ task[r].since <= task[r].at
  BY RunningIsTask DEF LInv, lfTypeOK, TasksInOrder, InOrder
<1>2. task[r].since \in Nat /\ task[r].at \in Nat
  BY <1>1 DEF Tasks
<1>. QED BY <1>1, <1>2 DEF Read

LEMMA AtAwaitIsRunning ==
  ASSUME LInv, NEW r \in Requests, NEW op, AtAwait(r, op)
  PROVE  /\ Running(r) /\ task[r] \in Tasks /\ task[r].path # <<>>
         /\ task[r].path \in Seq(Awaits) /\ Tail(task[r].path) \in Seq(Awaits)
         /\ Head(task[r].path).op = op
         /\ task[r].since <= version
<1>1. Running(r) /\ task[r].path # <<>> /\ Head(task[r].path).op = op
  BY DEF AtAwait
<1>2. task[r] \in Tasks /\ task[r].since <= task[r].at /\ task[r].at <= version
  BY <1>1, RunningIsTask DEF LInv, TasksInOrder, InOrder
<1>3. task[r].since \in Nat /\ task[r].at \in Nat /\ version \in Nat /\ task[r].path \in Seq(Awaits)
  BY <1>2 DEF Tasks, LInv, lfTypeOK
<1>. QED BY <1>1, <1>2, <1>3, TailIsPath

LEMMA ReadTreeKeeps ==
  ASSUME LInv, NEW r \in Requests, ReadTree(r)
  PROVE  LInv'
<1>1. AtAwait(r, "tree") /\ version' = version /\ colored' = colored
  BY DEF ReadTree
<1>2. PICK v \in Read(r) : Goes(r, [task[r] EXCEPT !.tree = v])
  BY DEF ReadTree
<1>. DEFINE p == Tail(task[r].path)
            t == [task[r] EXCEPT !.tree = v, !.names = task[r].names, !.since = task[r].since,
                                 !.path = p, !.at = version]
<1>3. Running(r) /\ task[r] \in Tasks /\ task[r].path # <<>> /\ p \in Seq(Awaits)
      /\ Head(task[r].path).op = "tree" /\ task[r].since <= version
  BY <1>1, AtAwaitIsRunning
<1>4. v \in Nat /\ task[r].since <= v /\ v <= version
  BY <1>3, WhatIsRead
<1>5. task[r].names \in Nat /\ task[r].since \in Nat
  BY <1>3 DEF Tasks
<1>6. task' = [task EXCEPT ![r] = t]
  BY <1>2, <1>3 DEF Goes, Tasks
<1>7. ASSUME task[r].feature = "semantic_tokens" PROVE p = Unnamed
  BY <1>3, <1>7, ColorsNext
<1>8. Unnamed \in ToColor
  BY DEF ToColor
<1>. HIDE DEF t, p
<1>9. /\ p \in ToColor
      /\ p \notin {Uncached, Unread} => task[r].since <= v /\ v <= version
      /\ p \notin {Uncached, Unread, Unnamed} => task[r].since <= task[r].names /\ task[r].names <= version
      \/ task[r].feature # "semantic_tokens"
  BY <1>4, <1>7, <1>8
<1>. QED BY <1>1, <1>3, <1>4, <1>5, <1>6, <1>9, GoesOn DEF t

LEMMA ReadNamesKeeps ==
  ASSUME LInv, NEW r \in Requests, ReadNames(r)
  PROVE  LInv'
<1>1. AtAwait(r, "names") /\ version' = version /\ colored' = colored
  BY DEF ReadNames
<1>2. PICK v \in Read(r) : Goes(r, [task[r] EXCEPT !.names = v])
  BY DEF ReadNames
<1>. DEFINE p == Tail(task[r].path)
            t == [task[r] EXCEPT !.tree = task[r].tree, !.names = v, !.since = task[r].since,
                                 !.path = p, !.at = version]
<1>3. Running(r) /\ task[r] \in Tasks /\ task[r].path # <<>> /\ p \in Seq(Awaits)
      /\ Head(task[r].path).op = "names" /\ task[r].since <= version
  BY <1>1, AtAwaitIsRunning
<1>4. v \in Nat /\ task[r].since <= v /\ v <= version
  BY <1>3, WhatIsRead
<1>5. task[r].tree \in Nat /\ task[r].since \in Nat
  BY <1>3 DEF Tasks
<1>6. task' = [task EXCEPT ![r] = t]
  BY <1>2, <1>3 DEF Goes, Tasks
<1>7. ASSUME task[r].feature = "semantic_tokens"
      PROVE  p = Unlooked /\ task[r].since <= task[r].tree /\ task[r].tree <= version
  <2>1. p = Unlooked /\ task[r].path = Unnamed
    BY <1>3, <1>7, ColorsNext
  <2>. QED BY <2>1, <1>3, <1>7, ColorsKnown, ColorsDiffer DEF Coloring
<1>8. Unlooked \in ToColor
  BY DEF ToColor
<1>. HIDE DEF t, p
<1>9. /\ p \in ToColor
      /\ p \notin {Uncached, Unread} => task[r].since <= task[r].tree /\ task[r].tree <= version
      /\ p \notin {Uncached, Unread, Unnamed} => task[r].since <= v /\ v <= version
      \/ task[r].feature # "semantic_tokens"
  BY <1>4, <1>7, <1>8
<1>. QED BY <1>1, <1>3, <1>4, <1>5, <1>6, <1>9, GoesOn DEF t

LEMMA ReadOtherKeeps ==
  ASSUME LInv, NEW r \in Requests, ReadOther(r)
  PROVE  LInv'
<1>1. PICK op \in {"lookup", "manager", "import", "style", "thread"} : AtAwait(r, op)
  BY DEF ReadOther
<1>2. Goes(r, task[r]) /\ version' = version /\ colored' = colored
  BY DEF ReadOther
<1>. DEFINE p == Tail(task[r].path)
            t == [task[r] EXCEPT !.tree = task[r].tree, !.names = task[r].names,
                                 !.since = task[r].since, !.path = p, !.at = version]
<1>3. Running(r) /\ task[r] \in Tasks /\ task[r].path # <<>> /\ p \in Seq(Awaits)
      /\ Head(task[r].path).op = op /\ task[r].since <= version
  BY <1>1, AtAwaitIsRunning
<1>4. task[r].tree \in Nat /\ task[r].names \in Nat /\ task[r].since \in Nat
  BY <1>3 DEF Tasks
<1>5. task' = [task EXCEPT ![r] = t]
  BY <1>2, <1>3 DEF Goes, Tasks
<1>6. ASSUME task[r].feature = "semantic_tokens"
      PROVE  /\ p \in {Unsplit, <<>>}
             /\ task[r].since <= task[r].tree /\ task[r].tree <= version
             /\ task[r].since <= task[r].names /\ task[r].names <= version
  <2>1. p \in {Unsplit, <<>>} /\ task[r].path \in {Unlooked, Unsplit}
    BY <1>3, <1>6, ColorsNext
  <2>. QED BY <2>1, <1>3, <1>6, ColorsKnown, ColorsDiffer DEF Coloring
<1>7. Unsplit \in ToColor /\ <<>> \in ToColor
  BY DEF ToColor
<1>. HIDE DEF t, p
<1>8. /\ p \in ToColor
      /\ p \notin {Uncached, Unread} => task[r].since <= task[r].tree /\ task[r].tree <= version
      /\ p \notin {Uncached, Unread, Unnamed} => task[r].since <= task[r].names /\ task[r].names <= version
      \/ task[r].feature # "semantic_tokens"
  BY <1>6, <1>7
<1>. QED BY <1>2, <1>3, <1>4, <1>5, <1>8, GoesOn DEF t

(* Whoever finds tokens in the cache has them from the text of now. *)
LEMMA ReadCacheKeeps ==
  ASSUME LInv, NEW r \in Requests, ReadCache(r)
  PROVE  LInv'
<1>1. AtAwait(r, "cache") /\ version' = version /\ colored' = colored
  BY DEF ReadCache
<1>2. PICK v \in Read(r) :
        IF v = version /\ colored # NoTokens
        THEN Goes(r, [task[r] EXCEPT !.since = v, !.path = <<Head(@)>>,
                                     !.tree = colored.tree, !.names = colored.names])
        ELSE Goes(r, [task[r] EXCEPT !.since = v])
  BY DEF ReadCache
<1>3. Running(r) /\ task[r] \in Tasks /\ task[r].path # <<>> /\ Tail(task[r].path) \in Seq(Awaits)
      /\ task[r].path \in Seq(Awaits) /\ Head(task[r].path).op = "cache"
  BY <1>1, AtAwaitIsRunning
<1>4. v \in Nat /\ v <= version
  BY <1>3, WhatIsRead
<1>5. task[r].tree \in Nat /\ task[r].names \in Nat /\ version \in Nat
  BY <1>3 DEF Tasks, LInv, lfTypeOK
<1>6. CASE v = version /\ colored # NoTokens
  <2>1. colored = [tree |-> version, names |-> version]
    BY <1>6 DEF LInv, TokensFit
  <2>. DEFINE t == [task[r] EXCEPT !.tree = version, !.names = version, !.since = v,
                                   !.path = <<>>, !.at = version]
  <2>2. Tail(<<Head(task[r].path)>>) = <<>> /\ <<>> \in Seq(Awaits)
    OBVIOUS
  <2>3. Goes(r, [task[r] EXCEPT !.since = v, !.path = <<Head(@)>>, !.tree = version, !.names = version])
    BY <1>2, <1>6, <2>1
  <2>4. task' = [task EXCEPT ![r] = t]
    BY <2>3, <2>2, <1>3 DEF Goes, Tasks
  <2>5. <<>> \in ToColor
    BY DEF ToColor
  <2>. HIDE DEF t
  <2>. QED BY <1>1, <1>3, <1>4, <1>5, <1>6, <2>2, <2>4, <2>5, GoesOn DEF t
<1>7. CASE ~(v = version /\ colored # NoTokens)
  <2>. DEFINE p == Tail(task[r].path)
              t == [task[r] EXCEPT !.tree = task[r].tree, !.names = task[r].names, !.since = v,
                                   !.path = p, !.at = version]
  <2>1. Goes(r, [task[r] EXCEPT !.since = v])
    BY <1>2, <1>7
  <2>2. task' = [task EXCEPT ![r] = t]
    BY <2>1, <1>3 DEF Goes, Tasks
  <2>3. ASSUME task[r].feature = "semantic_tokens" PROVE p = Unread
    BY <1>3, <2>3, ColorsNext
  <2>4. Unread \in ToColor
    BY DEF ToColor
  <2>5. p \in Seq(Awaits)
    BY <1>3
  <2>. HIDE DEF t, p
  <2>6. /\ p \in ToColor
        /\ p \notin {Uncached, Unread} => v <= task[r].tree /\ task[r].tree <= version
        /\ p \notin {Uncached, Unread, Unnamed} => v <= task[r].names /\ task[r].names <= version
        \/ task[r].feature # "semantic_tokens"
    BY <2>3, <2>4
  <2>. QED BY <1>1, <1>3, <1>4, <1>5, <2>2, <2>5, <2>6, GoesOn DEF t
<1>. QED BY <1>6, <1>7

LEMMA RewriteKeeps ==
  ASSUME LInv, NEW r \in Requests, Rewrite(r)
  PROVE  LInv'
<1>1. AtAwait(r, "rewrite") /\ version' = version /\ colored' = colored
  BY DEF Rewrite
<1>2. PICK v \in Read(r) : Goes(r, [task[r] EXCEPT !.tree = v])
  BY DEF Rewrite
<1>. DEFINE p == Tail(task[r].path)
            t == [task[r] EXCEPT !.tree = v, !.names = task[r].names, !.since = task[r].since,
                                 !.path = p, !.at = version]
<1>3. Running(r) /\ task[r] \in Tasks /\ task[r].path # <<>> /\ p \in Seq(Awaits)
      /\ Head(task[r].path).op = "rewrite" /\ task[r].since <= version
  BY <1>1, AtAwaitIsRunning
<1>4. v \in Nat
  BY <1>3, WhatIsRead
<1>5. task[r].names \in Nat /\ task[r].since \in Nat
  BY <1>3 DEF Tasks
<1>6. task' = [task EXCEPT ![r] = t]
  BY <1>2, <1>3 DEF Goes, Tasks
<1>7. task[r].feature # "semantic_tokens"
  BY <1>3, ColorsNext
<1>. HIDE DEF t, p
<1>. QED BY <1>1, <1>3, <1>4, <1>5, <1>6, <1>7, GoesOn DEF t

LEMMA StageKeeps ==
  ASSUME LInv, NEW r \in Requests, Running(r), task[r].feature # "semantic_tokens",
         NEW stage \in Stages, NEW paths, paths \subseteq Seq(Awaits), Stage(r, stage, paths),
         version' = version, colored' = colored
  PROVE  LInv'
<1>1. PICK p \in paths : task' = [task EXCEPT ![r].stage = stage, ![r].path = p]
  BY DEF Stage
<1>. DEFINE t == [task[r] EXCEPT !.stage = stage, !.path = p]
<1>2. task[r] \in Tasks /\ InOrder(task[r]) /\ task[r].stage \in Stages /\ r \in DOMAIN task
  BY RunningIsTask DEF LInv, TasksInOrder, lfTypeOK
<1>3. p \in Seq(Awaits)
  OBVIOUS
<1>4. t \in Tasks
  BY <1>2, <1>3 DEF Tasks
<1>5. t.feature = task[r].feature /\ t.since = task[r].since /\ t.at = task[r].at
  BY <1>2 DEF Tasks
<1>6. InOrder(t)
  BY <1>2, <1>5 DEF InOrder
<1>7. task' = [task EXCEPT ![r] = t]
  BY <1>1, <1>2
<1>. HIDE DEF t
<1>. QED BY <1>4, <1>6, <1>7, OneTask

(* What has been read is of the version it was read for, if that is the last: *)
(* tokens that go into the cache then are of the present text.                *)
LEMMA EndsKeeps ==
  ASSUME LInv, NEW r \in Requests, Running(r), task[r].path = <<>>, Ends(r), version' = version
  PROVE  LInv'
<1>1. task' = [task EXCEPT ![r] = Done]
  BY DEF Ends
<1>2. task[r] \in Tasks /\ version \in Nat /\ version > 0
  BY RunningIsTask DEF LInv, lfTypeOK
<1>3. colored' \in [tree : Nat, names : Nat]
  BY <1>2 DEF Ends, LInv, lfTypeOK, Tasks
<1>4. colored' # NoTokens => colored' = [tree |-> version, names |-> version]
  <2>1. CASE task[r].feature = "semantic_tokens" /\ task[r].since = version
    <3>1. Coloring(task[r])
      BY <2>1, ColorsKnown
    <3>2. /\ version <= task[r].tree /\ task[r].tree <= version
          /\ version <= task[r].names /\ task[r].names <= version
      BY <2>1, <3>1, ColorsDiffer DEF Coloring
    <3>3. task[r].tree = version /\ task[r].names = version
      BY <3>2, <1>2 DEF Tasks
    <3>. QED BY <2>1, <3>3 DEF Ends
  <2>2. CASE ~(task[r].feature = "semantic_tokens" /\ task[r].since = version)
    BY <2>2 DEF Ends, LInv, TokensFit
  <2>. QED BY <2>1, <2>2
<1>5. lfTypeOK'
  BY <1>1, <1>2, <1>3 DEF LInv, lfTypeOK
<1>6. TasksInOrder'
  <2>1. ASSUME NEW s \in Requests PROVE InOrder(task[s])'
    <3>1. task'[s] = IF s = r THEN Done ELSE task[s]
      BY <1>1 DEF LInv, lfTypeOK
    <3>2. InOrder(task'[s])
      BY <3>1, DoneInOrder DEF LInv, TasksInOrder
    <3>. QED BY <3>2 DEF InOrder, Coloring
  <2>. QED BY <2>1 DEF TasksInOrder
<1>. QED BY <1>4, <1>5, <1>6 DEF LInv, TokensFit

LEMMA AdvanceKeeps ==
  ASSUME LInv, NEW r \in Requests, Advance(r)
  PROVE  LInv'
<1>1. Running(r) /\ task[r].path = <<>> /\ version' = version
  BY DEF Advance
<1>2. task[r] \in Tasks /\ task[r].feature \in FeatureNames
  BY <1>1, RunningIsTask DEF LInv, Tasks
<1>. DEFINE f == task[r].feature
<1>3. methods("semantic_tokens") = {} /\ defaults("semantic_tokens") = {}
  BY DEF methods, defaults
<1>4. methods(f) \subseteq Seq(Awaits) /\ defaults(f) \subseteq Seq(Awaits)
  BY <1>2, MethodPaths, DefaultPaths
<1>5. ASSUME NEW stage, NEW paths, Stage(r, stage, paths) PROVE paths # {}
  BY <1>5 DEF Stage
<1>6. CASE task[r].stage = "collect" /\ Stage(r, "method", methods(f)) /\ UNCHANGED colored
  BY <1>1, <1>3, <1>4, <1>5, <1>6, StageKeeps DEF Stages
<1>7. CASE task[r].stage = "method" /\ Stage(r, "last method", methods(f)) /\ UNCHANGED colored
  BY <1>1, <1>3, <1>4, <1>5, <1>7, StageKeeps DEF Stages
<1>8. CASE Stage(r, "default", defaults(f)) /\ UNCHANGED colored
  BY <1>1, <1>3, <1>4, <1>5, <1>8, StageKeeps DEF Stages
<1>9. CASE Ends(r)
  BY <1>1, <1>9, EndsKeeps
<1>. QED BY <1>6, <1>7, <1>8, <1>9 DEF Advance

(* Nothing is caught while a text is colored. *)
LEMMA CatchesKeeps ==
  ASSUME LInv, NEW r \in Requests, Running(r), task[r].path # <<>>,
         Head(task[r].path).catches # "nothing", Catches(r),
         version' = version, colored' = colored
  PROVE  LInv'
<1>1. task[r].feature # "semantic_tokens"
  BY ColorsNext
<1>2. /\ task[r] \in Tasks /\ InOrder(task[r]) /\ task[r].stage \in Stages
      /\ task[r].since <= task[r].at /\ task[r].at <= version
  BY RunningIsTask DEF LInv, TasksInOrder, InOrder
<1>3. /\ task[r].feature \in FeatureNames /\ task[r].path \in Seq(Awaits) /\ version \in Nat
      /\ task[r].since \in Nat /\ task[r].at \in Nat /\ r \in DOMAIN task
  BY <1>2 DEF Tasks, LInv, lfTypeOK
<1>4. ASSUME NEW stage \in Stages, NEW p \in Seq(Awaits),
             task' = [task EXCEPT ![r] = [task[r] EXCEPT !.stage = stage, !.path = p,
                                                         !.cut = FALSE, !.at = version]]
      PROVE  LInv'
  <2>. DEFINE t == [task[r] EXCEPT !.stage = stage, !.path = p, !.cut = FALSE, !.at = version]
  <2>1. t \in Tasks
    BY <1>2, <1>3 DEF Tasks
  <2>2. t.feature = task[r].feature /\ t.since = task[r].since /\ t.at = version
    BY <1>2 DEF Tasks
  <2>3. InOrder(t)
    BY <1>1, <1>2, <1>3, <2>2 DEF InOrder
  <2>. HIDE DEF t
  <2>. QED BY <2>1, <2>3, <1>4, OneTask DEF t
<1>5. CASE task[r].feature \in {"goto", "hover"} /\ task[r].stage = "method"
  <2>1. PICK p \in defaults(task[r].feature) :
          task' = [task EXCEPT ![r].stage = "default", ![r].path = p, ![r].cut = FALSE, ![r].at = version]
    BY <1>5 DEF Catches
  <2>2. p \in Seq(Awaits)
    BY <1>3, DefaultPaths
  <2>3. task' = [task EXCEPT ![r] = [task[r] EXCEPT !.stage = "default", !.path = p,
                                                    !.cut = FALSE, !.at = version]]
    BY <2>1, <1>3
  <2>. QED BY <1>4, <2>2, <2>3 DEF Stages
<1>6. CASE ~(task[r].feature \in {"goto", "hover"} /\ task[r].stage = "method")
  <2>. DEFINE p == Tail(task[r].path)
  <2>1. p \in Seq(Awaits)
    BY <1>3, TailIsPath
  <2>2. task' = [task EXCEPT ![r].path = p, ![r].cut = FALSE, ![r].at = version]
    BY <1>6, <1>3 DEF Catches
  <2>3. task' = [task EXCEPT ![r] = [task[r] EXCEPT !.stage = task[r].stage, !.path = p,
                                                    !.cut = FALSE, !.at = version]]
    BY <2>2, <1>2, <1>3 DEF Tasks
  <2>. HIDE DEF p
  <2>. QED BY <1>2, <1>4, <2>1, <2>3
<1>. QED BY <1>5, <1>6

LEMMA FailsKeeps ==
  ASSUME LInv, NEW r \in Requests, Fails(r)
  PROVE  LInv'
<1>1. Running(r) /\ task[r].path # <<>> /\ version' = version /\ colored' = colored
  BY DEF Fails
<1>2. CASE Head(task[r].path).catches # "nothing" /\ Catches(r)
  BY <1>1, <1>2, CatchesKeeps
<1>3. CASE task' = [task EXCEPT ![r] = Done]
  BY <1>1, <1>3, DoneInOrder, OneTask
<1>. QED BY <1>2, <1>3 DEF Fails

LEMMA InterruptedKeeps ==
  ASSUME LInv, NEW r \in Requests, Interrupted(r)
  PROVE  LInv'
<1>1. Running(r) /\ task[r].path # <<>> /\ version' = version /\ colored' = colored
  BY DEF Interrupted
<1>2. CASE Head(task[r].path).catches # "nothing" /\ Catches(r)
  BY <1>1, <1>2, CatchesKeeps
<1>3. CASE task' = [task EXCEPT ![r] = Done]
  BY <1>1, <1>3, DoneInOrder, OneTask
<1>. QED BY <1>2, <1>3 DEF Interrupted

LEMMA NoTaskMoves ==
  ASSUME LInv, version' = version, colored' = colored, task' = task
  PROVE  LInv'
<1>1. lfTypeOK' /\ TokensFit'
  BY DEF LInv, lfTypeOK, TokensFit
<1>2. TasksInOrder'
  BY DEF LInv, TasksInOrder, InOrder, Coloring
<1>. QED BY <1>1, <1>2 DEF LInv

LEMMA CancelKeeps ==
  ASSUME LInv, NEW r \in Requests, Cancel(r)
  PROVE  LInv'
<1>1. version' = version /\ colored' = colored
  BY DEF Cancel
<1>2. CASE Running(r)
  <2>. DEFINE t == [task[r] EXCEPT !.cut = TRUE]
  <2>1. /\ task[r] \in Tasks /\ InOrder(task[r]) /\ r \in DOMAIN task
    BY <1>2, RunningIsTask DEF LInv, TasksInOrder, lfTypeOK
  <2>2. task' = [task EXCEPT ![r] = t]
    BY <1>2, <2>1 DEF Cancel
  <2>3. t \in Tasks
    BY <2>1 DEF Tasks
  <2>4. /\ t.feature = task[r].feature /\ t.stage = task[r].stage /\ t.path = task[r].path
        /\ t.since = task[r].since /\ t.at = task[r].at /\ t.tree = task[r].tree
        /\ t.names = task[r].names
    BY <2>1 DEF Tasks
  <2>5. InOrder(t)
    BY <2>1, <2>4 DEF InOrder, Coloring
  <2>. HIDE DEF t
  <2>. QED BY <1>1, <2>2, <2>3, <2>5, OneTask
<1>3. CASE ~Running(r)
  BY <1>1, <1>3, NoTaskMoves DEF Cancel
<1>. QED BY <1>2, <1>3

LEMMA AskKeeps ==
  ASSUME LInv, NEW r \in Requests, NEW f \in Features[r], Ask(r, f)
  PROVE  LInv'
<1>1. version' = version /\ colored' = colored
  BY DEF Ask
<1>2. f \in FeatureNames
  BY LanguageFeaturesAssumption
<1>. DEFINE fresh(p) == [feature |-> f, stage |-> "collect", path |-> p, since |-> version,
                         at |-> version, tree |-> 0, names |-> 0, cut |-> FALSE]
<1>3. PICK p \in collect(f) : task' = [task EXCEPT ![r] = fresh(p)]
  BY DEF Ask
<1>4. p \in Seq(Awaits) /\ (f = "semantic_tokens" => p = Uncached)
  BY <1>2, CollectPaths
<1>5. fresh(p) \in Tasks
  BY <1>2, <1>4 DEF Tasks, Stages, LInv, lfTypeOK
<1>6. ASSUME f = "semantic_tokens" PROVE Coloring(fresh(p))
  BY <1>4, <1>6 DEF Coloring, ToColor
<1>7. InOrder(fresh(p))
  BY <1>6 DEF InOrder, LInv, lfTypeOK
<1>. HIDE DEF fresh
<1>. QED BY <1>1, <1>3, <1>5, <1>7, OneTask

(* A new text has no tokens yet. *)
LEMMA ChangeKeeps ==
  ASSUME LInv, Change
  PROVE  LInv'
<1>1. version \in Nat /\ version > 0 /\ version' = version + 1
  BY DEF LInv, lfTypeOK, Change
<1>2. colored' = NoTokens /\ task' = task
  BY DEF Change
<1>3. lfTypeOK'
  BY <1>1, <1>2 DEF LInv, lfTypeOK, NoTokens
<1>4. ASSUME NEW r \in Requests, task[r].stage \in Stages
      PROVE  InOrder(task[r])'
  <2>1. task[r] \in Tasks
    BY <1>4, RunningIsTask DEF LInv, Running, Stages
  <2>2. task[r].since \in Nat /\ task[r].at \in Nat /\ task[r].tree \in Nat /\ task[r].names \in Nat
    BY <2>1 DEF Tasks
  <2>3. InOrder(task[r])
    BY DEF LInv, TasksInOrder
  <2>. QED BY <1>1, <1>2, <1>4, <2>2, <2>3 DEF InOrder, Coloring
<1>5. ASSUME NEW r \in Requests, task[r].stage \notin Stages
      PROVE  InOrder(task[r])'
  BY <1>2, <1>5 DEF InOrder
<1>6. TasksInOrder'
  BY <1>4, <1>5 DEF TasksInOrder
<1>. QED BY <1>2, <1>3, <1>6 DEF LInv, TokensFit

-----------------------------------------------------------------------------
LEMMA LInvInit == lfInit => LInv
<1>. SUFFICES ASSUME lfInit PROVE LInv
  OBVIOUS
<1>1. lfTypeOK
  BY DEF lfInit, lfTypeOK, NoTokens
<1>2. TasksInOrder
  BY DEF lfInit, TasksInOrder, InOrder, Idle, Stages
<1>3. TokensFit
  BY DEF lfInit, TokensFit
<1>. QED BY <1>1, <1>2, <1>3 DEF LInv

LEMMA LInvNext == LInv /\ [lfNext]_lfVars => LInv'
<1>. SUFFICES ASSUME LInv, [lfNext]_lfVars PROVE LInv'
  OBVIOUS
<1>1. CASE Change
  BY <1>1, ChangeKeeps
<1>2. ASSUME NEW r \in Requests, Work(r) PROVE LInv'
  BY <1>2, ReadTreeKeeps, ReadNamesKeeps, ReadOtherKeeps, ReadCacheKeeps, RewriteKeeps,
     AdvanceKeeps, InterruptedKeeps, NoTaskMoves DEF Work, Answer
<1>3. ASSUME NEW r \in Requests, Fails(r) PROVE LInv'
  BY <1>3, FailsKeeps
<1>4. ASSUME NEW r \in Requests, Cancel(r) PROVE LInv'
  BY <1>4, CancelKeeps
<1>5. ASSUME NEW r \in Requests, NEW f \in Features[r], Ask(r, f) PROVE LInv'
  BY <1>5, AskKeeps
<1>6. CASE UNCHANGED lfVars
  BY <1>6, NoTaskMoves DEF lfVars
<1>. QED BY <1>1, <1>2, <1>3, <1>4, <1>5, <1>6 DEF lfNext

(* Whatever is asked, cancelled and changed in whatever order: tokens that the *)
(* cache has are of the present text, its tree and its names alike, although   *)
(* semantic_tokens computes them across awaits and text_document.get_cache     *)
(* keeps what it computed.                                                     *)
THEOREM TokensAreOfTheText == lfSpec => []TokensFit
<1>1. LInv => TokensFit
  BY DEF LInv
<1>. QED BY <1>1, LInvInit, LInvNext, PTL DEF lfSpec

-----------------------------------------------------------------------------
(* Namespace.                                                              *)


Places == {"start", "called", "importing", "before analysis", "analyzing", "documenting", "answered", "ended"}
Reports == SUBSET [at : Nat, of : {"finding", "error", "missing", "recursive", "imported already"}]
Calls == [of : Files, todo : SUBSET Nat, loaded : BOOLEAN]

Progress == [at : Places, levels : Seq(Calls), answer : Seq(Reports)]

nsTypeOK ==
  /\ imports \in [Files -> Seq([name : STRING, file : Files \union {Missing}])]
  /\ DOMAIN _resources \subseteq STRING /\ _resources \in [DOMAIN _resources -> Files]
  /\ _diagnostics \in Seq(Reports)
  /\ _initialized \in BOOLEAN /\ _analyzed \in BOOLEAN
  /\ _initialize_lock \in Callers \union {Free} /\ _analyze_lock \in Callers \union {Free}
  /\ caller \in [Callers -> Progress]
  /\ cancelled \subseteq Callers

(* The calls of one that imports: the first is for the suite, and what they have *)
(* still to do are files that are there.                                         *)
KnownLevel(l) == \A k \in l.todo : k \in DOMAIN imports[l.of] /\ imports[l.of][k].file # Missing
Known(t) == \A i \in DOMAIN t : KnownLevel(t[i])
Stacked(t) == t \in Seq(Calls) /\ t # <<>> /\ t[1].of = Suite /\ Known(t)

(* One caller at most imports. *)
LevelsOK == \A c \in Callers : At(c, "importing") =>
  _initialize_lock = c /\ ~_initialized /\ Stacked(caller[c].levels)

TablesOK == nsTypeOK /\ LevelsOK

Content(parts) == UNION Range(parts)
Disjoint(parts) == \A j, k \in DOMAIN parts : j # k => parts[j] \intersect parts[k] = {}

SuiteLoaded(c) == At(c, "importing") /\ caller[c].levels[1].loaded

(* The diagnostics grow with the initialisation and with the one analysis. *)
Unstarted == ~_initialized /\ (\A c \in Callers : ~SuiteLoaded(c)) => Content(_diagnostics) = {}
ToBeReported == \A c \in Callers : SuiteLoaded(c) =>
  /\ Absent(Suite) \subseteq Content(_diagnostics)
  /\ \A d \in Content(_diagnostics) : d.at # 0 /\ d.at \notin caller[c].levels[1].todo
Started == _initialized => Absent(Suite) \subseteq Content(_diagnostics)
Analysis ==
  /\ Finding \in Content(_diagnostics) => _analyzed \/ \E c \in Callers : At(c, "documenting")
  /\ Error \in Content(_diagnostics) => _analyzed
  /\ _analyzed => {Finding, Error} \subseteq Content(_diagnostics)
  /\ \A c \in Callers : At(c, "documenting") => Finding \in Content(_diagnostics)
InAnalysis(c) == caller[c].at \in {"before analysis", "analyzing", "documenting"}
Asking(c) == caller[c].at \notin {"start", "answered"}
OneAnalysis ==
  /\ \A c \in Callers : InAnalysis(c) => c \in Checkers /\ _initialized /\ ~_analyzed
  /\ \A c, d \in Checkers : Asking(c) /\ Asking(d) => c = d
Complete(parts) == {Finding, Error} \union Absent(Suite) \subseteq Content(parts) /\ Disjoint(parts)
Answered == \A c \in Checkers : At(c, "answered") => Complete(caller[c].answer)
GoOn == \A c \in Callers : ~At(c, "ended")
Whole == Disjoint(_diagnostics) /\ Unstarted /\ ToBeReported /\ Started /\ Analysis /\ OneAnalysis /\ Answered /\ GoOn
WholeUnlessCancelled == cancelled = {} => Whole

NoneEnded == \A c \in cancelled : caller[c].at # "ended"
Shares(f) == \E g \in Reachable \ {f} : NamesOf(f) \intersect NamesOf(g) # {}

(* The files that were entered so far, some of which another file of the same name *)
(* has replaced since: what they import has been entered or is still to do.        *)
Left(l, f, fs) ==
  /\ l.of = f
  /\ l.loaded => \A k \in DOMAIN imports[f] : imports[f][k].file \in fs \union {Missing} \/ k \in l.todo
StillToDo(c, f, fs) == \E i \in DOMAIN caller[c].levels : Left(caller[c].levels[i], f, fs)
Named(fs) == \A n \in DOMAIN _resources : _resources[n] \in fs /\ n \in NamesOf(_resources[n])
Present(fs) == \A f \in fs \ {Suite} : Imported(f) \/ Shares(f)
Pending(c, fs) ==
  /\ Suite \in fs
  /\ \A i \in DOMAIN caller[c].levels : caller[c].levels[i].of \in fs
  /\ \A f \in fs : ImportsOf(f) \subseteq fs \/ StillToDo(c, f, fs)
Entered(fs) ==
  /\ fs \subseteq Reachable /\ Named(fs) /\ Present(fs)
  /\ _initialized => Closed(fs)
  /\ \A c \in Callers : At(c, "importing") => Pending(c, fs)
  /\ ~_initialized /\ (\A c \in Callers : ~At(c, "importing")) => fs = {}
SomeEntered == NoneEnded => \E fs \in SUBSET Files : Entered(fs)

LEMMA MinIsLeast ==
  ASSUME NEW S, S \subseteq Nat, S # {}
  PROVE  Min(S) \in S /\ \A y \in S : Min(S) =< y
<1>. DEFINE smaller == {ss \in Nat \X Nat : ss[1] < ss[2]}
<1>1. OpToRel(<, Nat) = smaller
  BY DEF OpToRel
<1>2. PICK x \in S : \A y \in S : ~ (<<y, x>> \in smaller)
  BY <1>1, NatLessThanWellFounded, WFMin
<1>3. ASSUME NEW y \in S PROVE x =< y
  <2>1. x \in Nat /\ y \in Nat
    OBVIOUS
  <2>2. ~ (<<y, x>> \in smaller)
    BY <1>2
  <2>. QED BY <2>1, <2>2
<1>4. \E m \in S : \A y \in S : m =< y
  BY <1>3
<1>. QED BY <1>4 DEF Min

(* The caller that imports goes on, and no other one does. *)
Same(c) ==
  /\ caller'[c].at = "importing" /\ caller'[c].answer = caller[c].answer
  /\ \A d \in Callers \ {c} : caller'[d] = caller[d]

(* A stack with another level on top, and with one more. *)
Topped(s, l, t) ==
  /\ Stacked(t) /\ DOMAIN t = DOMAIN s /\ DOMAIN t = 1 .. Len(s)
  /\ Len(t) = Len(s) /\ t[Len(s)] = l
  /\ \A i \in 1 .. Len(s) - 1 : t[i] = s[i]
Pushed(t, f, u) ==
  /\ Stacked(u) /\ Len(t) \in Nat /\ DOMAIN t = 1 .. Len(t) /\ DOMAIN u = 1 .. Len(t) + 1
  /\ u[Len(t) + 1] = Level(f) /\ \A i \in 1 .. Len(t) : u[i] = t[i]

-----------------------------------------------------------------------------
LEMMA TopOfStack ==
  ASSUME NEW s \in Seq(Calls), s # <<>>
  PROVE  /\ Len(s) \in Nat /\ Len(s) > 0 /\ Last(s) \in Calls /\ Last(s) = s[Len(s)]
         /\ Front(s) \in Seq(Calls) /\ Len(Front(s)) = Len(s) - 1
         /\ \A i \in 1 .. Len(s) - 1 : Front(s)[i] = s[i]
<1>1. Len(s) \in Nat /\ Len(s) > 0
  BY EmptySeq, LenProperties
<1>2. Last(s) \in Calls /\ Last(s) = s[Len(s)]
  BY <1>1, ElementOfSeq DEF Last
<1>3. Front(s) \in Seq(Calls) /\ Len(Front(s)) = Len(s) - 1
      /\ \A i \in 1 .. Len(s) - 1 : Front(s)[i] = s[i]
  <2>. DEFINE m == 1
              n == Len(s) - 1
  <2>1. m \in Int /\ n \in Int /\ \A i \in m .. n : s[i] \in Calls
    BY <1>1, ElementOfSeq
  <2>2. /\ SubSeq(s, m, n) \in Seq(Calls)
        /\ Len(SubSeq(s, m, n)) = IF m <= n THEN n - m + 1 ELSE 0
        /\ \A i \in 1 .. n - m + 1 : SubSeq(s, m, n)[i] = s[m + i - 1]
    BY <2>1, SubSeqProperties
  <2>3. n - m + 1 = Len(s) - 1 /\ \A i \in 1 .. Len(s) - 1 : m + i - 1 = i
    BY <1>1
  <2>. QED BY <1>1, <2>2, <2>3 DEF Front
<1>. QED BY <1>1, <1>2, <1>3

(* The level of the call in progress changes, and the others do not. *)
LEMMA TopChanges ==
  ASSUME NEW s \in Seq(Calls), s # <<>>, NEW l \in Calls, NEW t, t = Append(Front(s), l)
  PROVE  /\ t \in Seq(Calls) /\ Len(t) = Len(s) /\ t # <<>> /\ t[Len(s)] = l
         /\ \A i \in 1 .. Len(s) - 1 : t[i] = s[i]
<1>1. /\ Len(s) \in Nat /\ Len(s) > 0 /\ Front(s) \in Seq(Calls) /\ Len(Front(s)) = Len(s) - 1
      /\ \A i \in 1 .. Len(s) - 1 : Front(s)[i] = s[i]
  BY TopOfStack
<1>2. t \in Seq(Calls) /\ Len(t) = Len(Front(s)) + 1
      /\ \A i \in 1 .. Len(Front(s)) : t[i] = Front(s)[i]
      /\ t[Len(Front(s)) + 1] = l
  BY <1>1, AppendProperties
<1>. QED BY <1>1, <1>2, EmptySeq

LEMMA ContentGrows ==
  ASSUME NEW s \in Seq(Reports), NEW x \in Reports
  PROVE  /\ Append(s, x) \in Seq(Reports)
         /\ Content(Append(s, x)) = Content(s) \union x
         /\ Disjoint(s) /\ Content(s) \intersect x = {} => Disjoint(Append(s, x))
<1>. DEFINE t == Append(s, x)
<1>1. /\ t \in Seq(Reports) /\ Len(t) = Len(s) + 1 /\ Len(s) \in Nat
      /\ \A i \in 1 .. Len(s) : t[i] = s[i]
      /\ t[Len(s) + 1] = x
  BY AppendProperties, LenProperties
<1>2. DOMAIN s = 1 .. Len(s) /\ DOMAIN t = 1 .. Len(s) + 1
  BY <1>1, LenProperties
<1>. HIDE DEF t
<1>3. Range(t) = Range(s) \union {x}
  BY <1>1, <1>2 DEF Range
<1>4. Content(t) = Content(s) \union x
  BY <1>3 DEF Content
<1>5. ASSUME Disjoint(s), Content(s) \intersect x = {} PROVE Disjoint(t)
  <2>1. ASSUME NEW i \in DOMAIN s PROVE s[i] \intersect x = {}
    <3>1. s[i] \subseteq Content(s)
      BY DEF Content, Range
    <3>. QED BY <3>1, <1>5
  <2>2. ASSUME NEW j \in DOMAIN t, NEW k \in DOMAIN t, j # k PROVE t[j] \intersect t[k] = {}
    <3>1. CASE j \in DOMAIN s /\ k \in DOMAIN s
      BY <3>1, <2>2, <1>1, <1>2, <1>5 DEF Disjoint
    <3>2. CASE j \notin DOMAIN s
      <4>1. j = Len(s) + 1 /\ k \in DOMAIN s
        BY <3>2, <2>2, <1>1, <1>2
      <4>. QED BY <4>1, <2>1, <1>1, <1>2
    <3>3. CASE k \notin DOMAIN s
      <4>1. k = Len(s) + 1 /\ j \in DOMAIN s
        BY <3>3, <2>2, <1>1, <1>2
      <4>. QED BY <4>1, <2>1, <1>1, <1>2
    <3>. QED BY <3>1, <3>2, <3>3
  <2>. QED BY <2>2 DEF Disjoint
<1>. QED BY <1>1, <1>4, <1>5 DEF t

LEMMA ReportsAreReports ==
  {Finding} \in Reports /\ {Error} \in Reports /\ Finding # Error
<1>1. Finding \in [at : Nat, of : {"finding", "error", "missing", "recursive", "imported already"}]
  BY DEF Finding
<1>2. Error \in [at : Nat, of : {"finding", "error", "missing", "recursive", "imported already"}]
  BY DEF Error
<1>3. Finding.of # Error.of
  BY DEF Finding, Error
<1>. QED BY <1>1, <1>2, <1>3 DEF Reports

LEMMA AbsentAreReports ==
  ASSUME nsTypeOK
  PROVE  /\ Absent(Suite) \in Reports
         /\ \A d \in Absent(Suite) : d.at \in DOMAIN imports[Suite] /\ d.at # 0 /\ d.of = "missing"
                                     /\ imports[Suite][d.at].file = Missing
<1>1. imports[Suite] \in Seq([name : STRING, file : Files \union {Missing}])
  BY NamespaceAssumption DEF nsTypeOK
<1>2. \A j \in DOMAIN imports[Suite] : j \in Nat /\ j # 0
  BY <1>1
<1>3. SUFFICES ASSUME NEW d \in Absent(Suite)
               PROVE  /\ d \in [at : Nat, of : {"finding", "error", "missing", "recursive", "imported already"}]
                      /\ d.at \in DOMAIN imports[Suite] /\ d.at # 0 /\ d.of = "missing"
                      /\ imports[Suite][d.at].file = Missing
  BY DEF Reports
<1>4. PICK k \in {j \in DOMAIN imports[Suite] : imports[Suite][j].file = Missing} :
        d = [at |-> k, of |-> "missing"]
  BY <1>3 DEF Absent
<1>. QED BY <1>2, <1>4

-----------------------------------------------------------------------------
(* The call in progress of a caller that imports. *)
LEMMA CallInProgress ==
  ASSUME TablesOK, NEW c \in Callers, At(c, "importing")
  PROVE  /\ caller[c] \in Progress /\ caller[c].at = "importing"
         /\ Stacked(caller[c].levels)
         /\ caller[c].levels \in Seq(Calls) /\ caller[c].levels # <<>>
         /\ Len(caller[c].levels) \in Nat /\ Len(caller[c].levels) > 0
         /\ DOMAIN caller[c].levels = 1 .. Len(caller[c].levels)
         /\ level(c) \in Calls /\ level(c) = caller[c].levels[Len(caller[c].levels)]
         /\ level(c).of \in Files
         /\ imports[level(c).of] \in Seq([name : STRING, file : Files \union {Missing}])
         /\ \A k \in level(c).todo :
              k \in DOMAIN imports[level(c).of] /\ imports[level(c).of][k].file # Missing
         /\ top_level(c) => level(c).of = Suite
         /\ _initialize_lock = c /\ ~_initialized
<1>. DEFINE s == caller[c].levels
<1>1. caller[c] \in Progress /\ caller[c].at = "importing"
  BY DEF TablesOK, nsTypeOK, At
<1>2. s \in Seq(Calls)
  BY <1>1 DEF Progress
<1>3. s # <<>> /\ s[1].of = Suite /\ Known(s) /\ _initialize_lock = c /\ ~_initialized
  BY DEF TablesOK, LevelsOK, Stacked
<1>4. Len(s) \in Nat /\ Len(s) > 0 /\ Last(s) \in Calls /\ Last(s) = s[Len(s)]
  BY <1>2, <1>3, TopOfStack
<1>5. DOMAIN s = 1 .. Len(s)
  BY <1>2, LenProperties
<1>6. level(c) = s[Len(s)] /\ level(c) \in Calls
  BY <1>4 DEF level
<1>7. level(c).of \in Files
  BY <1>6 DEF Calls
<1>8. imports[level(c).of] \in Seq([name : STRING, file : Files \union {Missing}])
  BY <1>7 DEF TablesOK, nsTypeOK
<1>9. top_level(c) => level(c).of = Suite
  BY <1>3, <1>6 DEF top_level
<1>10. \A k \in level(c).todo :
         k \in DOMAIN imports[level(c).of] /\ imports[level(c).of][k].file # Missing
  BY <1>3, <1>4, <1>5, <1>6 DEF Known, KnownLevel
<1>. QED BY <1>1, <1>2, <1>3, <1>4, <1>5, <1>6, <1>7, <1>8, <1>9, <1>10 DEF Stacked

(* The import it comes to. *)
LEMMA EntryInProgress ==
  ASSUME TablesOK, NEW c \in Callers, NextEntry(c)
  PROVE  /\ At(c, "importing") /\ level(c).loaded
         /\ place(c) \in level(c).todo /\ place(c) \in DOMAIN imports[level(c).of]
         /\ place(c) \in Nat /\ place(c) # 0
         /\ entry(c) \in [name : STRING, file : Files] /\ entry(c) = imports[level(c).of][place(c)]
         /\ Dropped(c) \in Calls /\ Dropped(c).of = level(c).of /\ Dropped(c).loaded
         /\ Dropped(c).todo = level(c).todo \ {place(c)}
<1>1. At(c, "importing") /\ level(c).loaded /\ level(c).todo # {}
  BY DEF NextEntry, Importing
<1>2. /\ level(c) \in Calls
      /\ imports[level(c).of] \in Seq([name : STRING, file : Files \union {Missing}])
      /\ \A k \in level(c).todo :
           k \in DOMAIN imports[level(c).of] /\ imports[level(c).of][k].file # Missing
  BY <1>1, CallInProgress
<1>3. level(c).todo \subseteq Nat
  BY <1>2 DEF Calls
<1>4. place(c) \in level(c).todo
  BY <1>1, <1>3, MinIsLeast DEF place
<1>5. /\ place(c) \in DOMAIN imports[level(c).of]
      /\ entry(c) = imports[level(c).of][place(c)] /\ entry(c).file # Missing
  BY <1>2, <1>4 DEF entry
<1>6. entry(c) \in [name : STRING, file : Files \union {Missing}] /\ place(c) # 0
  <2>. DEFINE q == imports[level(c).of]
  <2>1. Len(q) \in Nat /\ DOMAIN q = 1 .. Len(q)
    BY <1>2, LenProperties
  <2>2. place(c) \in 1 .. Len(q)
    BY <1>5, <2>1
  <2>. HIDE DEF q
  <2>3. q[place(c)] \in [name : STRING, file : Files \union {Missing}]
    BY <1>2, <2>2, ElementOfSeq DEF q
  <2>. QED BY <1>5, <2>1, <2>2, <2>3 DEF q
<1>7. entry(c) \in [name : STRING, file : Files]
  BY <1>5, <1>6
<1>8. /\ Dropped(c) \in Calls /\ Dropped(c).of = level(c).of /\ Dropped(c).loaded = level(c).loaded
      /\ Dropped(c).todo = level(c).todo \ {place(c)}
  BY <1>2 DEF Dropped, Calls
<1>. QED BY <1>1, <1>3, <1>4, <1>5, <1>6, <1>7, <1>8

(* The stack of a caller that goes on importing. *)
LEMMA StackStep ==
  ASSUME TablesOK, NEW c \in Callers, At(c, "importing"), NEW t, Stacked(t),
         caller' = [caller EXCEPT ![c].levels = t],
         imports' = imports, _initialized' = _initialized, _initialize_lock' = _initialize_lock
  PROVE  /\ caller' \in [Callers -> Progress] /\ LevelsOK'
         /\ caller'[c].levels = t /\ Same(c)
<1>1. caller \in [Callers -> Progress] /\ t \in Seq(Calls)
  BY DEF TablesOK, nsTypeOK, Stacked
<1>2. /\ caller' \in [Callers -> Progress] /\ caller'[c].levels = t
      /\ caller'[c].at = caller[c].at /\ caller'[c].answer = caller[c].answer
      /\ \A d \in Callers \ {c} : caller'[d] = caller[d]
  BY <1>1 DEF Progress
<1>3. caller[c].at = "importing"
  BY DEF At
<1>4. ASSUME NEW d \in Callers, At(d, "importing")'
      PROVE  _initialize_lock' = d /\ ~_initialized' /\ Stacked(caller'[d].levels)
  <2>1. CASE d = c
    BY <2>1, <1>2 DEF TablesOK, LevelsOK
  <2>2. CASE d # c
    BY <2>2, <1>2, <1>4 DEF TablesOK, LevelsOK, At
  <2>. QED BY <2>1, <2>2
<1>5. LevelsOK'
  BY <1>4 DEF LevelsOK, Stacked, Known, KnownLevel
<1>. QED BY <1>2, <1>3, <1>5 DEF Same

(* A caller that does not import, or not any more. *)
LEMMA PlaceStep ==
  ASSUME TablesOK, NEW c \in Callers, NEW p \in Progress, p.at # "importing",
         caller' = [caller EXCEPT ![c] = p], imports' = imports,
         \/ _initialized' = _initialized /\ _initialize_lock' = _initialize_lock
         \/ _initialize_lock \in {c, Free}
  PROVE  caller' \in [Callers -> Progress] /\ LevelsOK'
<1>1. /\ caller' \in [Callers -> Progress] /\ caller'[c] = p
      /\ \A d \in Callers \ {c} : caller'[d] = caller[d]
  BY DEF TablesOK, nsTypeOK
<1>2. ASSUME NEW d \in Callers, At(d, "importing")'
      PROVE  d # c /\ At(d, "importing") /\ _initialize_lock' = _initialize_lock
             /\ _initialized' = _initialized /\ caller'[d] = caller[d]
  BY <1>1, <1>2, NamespaceAssumption DEF At, TablesOK, LevelsOK
<1>. QED BY <1>1, <1>2 DEF TablesOK, LevelsOK, Stacked, Known, KnownLevel

LEMMA TopStep ==
  ASSUME NEW s, Stacked(s), NEW l \in Calls, l.of = s[Len(s)].of,
         KnownLevel(l), NEW t, t = Append(Front(s), l)
  PROVE  Topped(s, l, t)
<1>0. s \in Seq(Calls) /\ s # <<>> /\ s[1].of = Suite /\ Known(s)
  BY DEF Stacked
<1>1. Len(s) \in Nat /\ Len(s) > 0 /\ DOMAIN s = 1 .. Len(s)
  BY <1>0, TopOfStack, LenProperties
<1>2. /\ t \in Seq(Calls) /\ Len(t) = Len(s) /\ t # <<>> /\ t[Len(s)] = l
      /\ \A i \in 1 .. Len(s) - 1 : t[i] = s[i]
  <2>1. t \in Seq(Calls) /\ Len(t) = Len(s) /\ t # <<>> /\ t[Len(s)] = l
    BY <1>0, TopChanges
  <2>2. \A i \in 1 .. Len(s) - 1 : t[i] = s[i]
    BY <1>0, TopChanges
  <2>. QED BY <2>1, <2>2
<1>3. DOMAIN t = 1 .. Len(s)
  BY <1>2, LenProperties
<1>4. t[1].of = Suite
  <2>1. CASE Len(s) = 1
    BY <2>1, <1>0, <1>1, <1>2
  <2>2. CASE Len(s) # 1
    <3>1. 1 \in 1 .. Len(s) - 1
      BY <2>2, <1>1
    <3>. QED BY <3>1, <1>0, <1>2
  <2>. QED BY <2>1, <2>2
<1>5. ASSUME NEW i \in DOMAIN t PROVE KnownLevel(t[i])
  <2>1. CASE i = Len(s)
    BY <2>1, <1>2, <1>5
  <2>2. CASE i # Len(s)
    <3>0. i \in 1 .. Len(s)
      BY <1>3, <1>5
    <3>1. i \in 1 .. Len(s) - 1 /\ i \in DOMAIN s
      BY <3>0, <2>2, <1>1
    <3>2. t[i] = s[i]
      BY <3>1, <1>0, <1>2
    <3>. QED BY <3>1, <3>2, <1>0 DEF Known
  <2>. QED BY <2>1, <2>2
<1>6. Stacked(t)
  BY <1>2, <1>4, <1>5 DEF Stacked, Known
<1>. QED BY <1>1, <1>2, <1>3, <1>6 DEF Topped

LEMMA PushStep ==
  ASSUME NEW t, Stacked(t), NEW f \in Files, NEW u, u = Append(t, Level(f))
  PROVE  Pushed(t, f, u)
<1>0. t \in Seq(Calls) /\ t # <<>> /\ t[1].of = Suite /\ Known(t)
  BY DEF Stacked
<1>1. Level(f) \in Calls /\ Level(f).todo = {}
  BY DEF Level, Calls
<1>2. /\ u \in Seq(Calls) /\ Len(u) = Len(t) + 1 /\ u[Len(t) + 1] = Level(f)
      /\ \A i \in 1 .. Len(t) : u[i] = t[i]
  BY <1>0, <1>1, AppendProperties
<1>3. Len(t) \in Nat /\ Len(t) > 0 /\ DOMAIN t = 1 .. Len(t) /\ DOMAIN u = 1 .. Len(t) + 1
  BY <1>0, <1>2, LenProperties, EmptySeq
<1>4. u[1].of = Suite
  BY <1>0, <1>2, <1>3
<1>5. ASSUME NEW i \in DOMAIN u PROVE KnownLevel(u[i])
  <2>1. CASE i = Len(t) + 1
    BY <2>1, <1>1, <1>2 DEF KnownLevel
  <2>2. CASE i # Len(t) + 1
    <3>1. i \in DOMAIN t /\ u[i] = t[i]
      BY <2>2, <1>2, <1>3
    <3>. QED BY <3>1, <1>0 DEF Known
  <2>. QED BY <2>1, <2>2
<1>6. u # <<>>
  BY <1>2, <1>3, EmptySeq
<1>7. Stacked(u)
  BY <1>2, <1>4, <1>5, <1>6 DEF Stacked, Known
<1>. QED BY <1>2, <1>3, <1>7 DEF Pushed

LEMMA PopStep ==
  ASSUME TablesOK, NEW c \in Callers, At(c, "importing"), ~top_level(c),
         NEW u, u = Front(caller[c].levels)
  PROVE  /\ Stacked(u)
         /\ DOMAIN u = 1 .. Len(caller[c].levels) - 1
         /\ u[1] = caller[c].levels[1]
         /\ \A i \in 1 .. Len(caller[c].levels) - 1 : u[i] = caller[c].levels[i]
<1>. DEFINE s == caller[c].levels
<1>1. s \in Seq(Calls) /\ s # <<>> /\ Len(s) \in Nat /\ Len(s) > 0 /\ DOMAIN s = 1 .. Len(s)
      /\ Stacked(s)
  BY CallInProgress
<1>2. Known(s) /\ s[1].of = Suite /\ Len(s) # 1
  BY <1>1 DEF top_level, Stacked
<1>. HIDE DEF s
<1>3. u \in Seq(Calls) /\ Len(u) = Len(s) - 1 /\ \A i \in 1 .. Len(s) - 1 : u[i] = s[i]
  BY <1>1, TopOfStack DEF s
<1>4. DOMAIN u = 1 .. Len(s) - 1 /\ u # <<>>
  BY <1>1, <1>2, <1>3, LenProperties, EmptySeq
<1>5. u[1] = s[1]
  BY <1>1, <1>2, <1>3
<1>6. ASSUME NEW i \in DOMAIN u PROVE KnownLevel(u[i])
  <2>1. i \in DOMAIN s /\ u[i] = s[i]
    BY <1>1, <1>3, <1>4
  <2>. QED BY <2>1, <1>2 DEF Known
<1>7. Stacked(u)
  BY <1>2, <1>3, <1>4, <1>5, <1>6 DEF Stacked, Known
<1>. QED BY <1>3, <1>4, <1>5, <1>7 DEF s

-----------------------------------------------------------------------------
(* What the actions of an import do to the stack of its caller.            *)
Loaded(c) == [level(c) EXCEPT !.todo = Entries(level(c).of), !.loaded = TRUE]

(* The level of the new resource comes on top of the one that it was taken from. *)
Entering(s, l, f, u) ==
  /\ Len(s) \in Nat /\ Len(s) > 0 /\ DOMAIN s = 1 .. Len(s) /\ DOMAIN u = 1 .. Len(s) + 1
  /\ u[Len(s) + 1] = Level(f) /\ u[Len(s)] = l
  /\ \A i \in 1 .. Len(s) - 1 : u[i] = s[i]

LEMMA LoadStep ==
  ASSUME TablesOK, NEW c \in Callers, load_imports(c)
  PROVE  TablesOK' /\ Same(c) /\ Topped(caller[c].levels, Loaded(c), caller'[c].levels)
<1>. DEFINE s == caller[c].levels
            l == Loaded(c)
            t == Append(Front(s), l)
<1>1. At(c, "importing") /\ UNCHANGED <<imports, _initialized, _initialize_lock>>
  BY DEF load_imports, Importing
<1>2. /\ s \in Seq(Calls) /\ s # <<>> /\ level(c) \in Calls /\ level(c) = s[Len(s)]
      /\ imports[level(c).of] \in Seq([name : STRING, file : Files \union {Missing}])
  BY <1>1, CallInProgress
<1>3. Stacked(s)
  BY <1>1, CallInProgress
<1>4. Entries(level(c).of) \subseteq Nat
  BY <1>2 DEF Entries
<1>5. l \in Calls /\ l.of = s[Len(s)].of /\ l.todo = Entries(level(c).of)
  BY <1>2, <1>4 DEF Calls, Loaded
<1>6. KnownLevel(l)
  BY <1>2, <1>5 DEF Entries, KnownLevel
<1>7. caller' = [caller EXCEPT ![c].levels = t]
  BY DEF load_imports, SetLevel, Loaded
<1>. HIDE DEF l
<1>8. Topped(s, l, t)
  BY <1>3, <1>5, <1>6, TopStep
<1>9. Stacked(t)
  BY <1>8 DEF Topped
<1>. HIDE DEF t
<1>10. caller' \in [Callers -> Progress] /\ LevelsOK' /\ caller'[c].levels = t /\ Same(c)
  BY <1>1, <1>7, <1>9, StackStep
<1>11. _diagnostics' \in Seq(Reports)
  BY AbsentAreReports, ContentGrows DEF load_imports, TablesOK, nsTypeOK
<1>12. nsTypeOK'
  BY <1>10, <1>11 DEF load_imports, TablesOK, nsTypeOK
<1>. QED BY <1>8, <1>10, <1>12 DEF TablesOK, l

(* One of the files to do is taken off. *)
LEMMA DropStep ==
  ASSUME TablesOK, NEW c \in Callers, NextEntry(c), caller' = SetLevel(c, Dropped(c)),
         UNCHANGED <<imports, _initialized, _initialize_lock>>
  PROVE  /\ caller' \in [Callers -> Progress] /\ LevelsOK' /\ Same(c)
         /\ Topped(caller[c].levels, Dropped(c), caller'[c].levels)
<1>. DEFINE s == caller[c].levels
            l == Dropped(c)
            t == Append(Front(s), l)
<1>1. /\ At(c, "importing") /\ l \in Calls /\ l.of = level(c).of
      /\ l.todo = level(c).todo \ {place(c)}
  BY EntryInProgress
<1>2. /\ level(c) = s[Len(s)]
      /\ \A k \in level(c).todo :
           k \in DOMAIN imports[level(c).of] /\ imports[level(c).of][k].file # Missing
  BY <1>1, CallInProgress
<1>3. Stacked(s)
  BY <1>1, CallInProgress
<1>4. l.of = s[Len(s)].of /\ KnownLevel(l)
  BY <1>1, <1>2 DEF KnownLevel
<1>5. caller' = [caller EXCEPT ![c].levels = t]
  BY DEF SetLevel
<1>. HIDE DEF l
<1>6. Topped(s, l, t)
  BY <1>1, <1>3, <1>4, TopStep
<1>7. Stacked(t)
  BY <1>6 DEF Topped
<1>. HIDE DEF t
<1>8. caller' \in [Callers -> Progress] /\ LevelsOK' /\ caller'[c].levels = t /\ Same(c)
  BY <1>1, <1>5, <1>7, StackStep
<1>. QED BY <1>6, <1>8 DEF l

LEMMA AddStep ==
  ASSUME TablesOK, NEW c \in Callers, add_resource(c)
  PROVE  /\ caller' \in [Callers -> Progress] /\ LevelsOK' /\ Same(c)
         /\ Entering(caller[c].levels, Dropped(c), entry(c).file, caller'[c].levels)
<1>. DEFINE s == caller[c].levels
            l == Dropped(c)
            f == entry(c).file
            t == Append(Front(s), l)
            u == Append(t, Level(f))
<1>0. NextEntry(c) /\ UNCHANGED <<imports, _initialized, _initialize_lock>>
  BY DEF add_resource
<1>1. /\ At(c, "importing") /\ l \in Calls /\ l.of = level(c).of
      /\ l.todo = level(c).todo \ {place(c)} /\ f \in Files
  BY <1>0, EntryInProgress
<1>2. /\ level(c) = s[Len(s)] /\ Len(s) \in Nat /\ Len(s) > 0
      /\ \A k \in level(c).todo :
           k \in DOMAIN imports[level(c).of] /\ imports[level(c).of][k].file # Missing
  BY <1>1, CallInProgress
<1>3. Stacked(s)
  BY <1>1, CallInProgress
<1>4. l.of = s[Len(s)].of /\ KnownLevel(l)
  BY <1>1, <1>2 DEF KnownLevel
<1>5. caller' = [caller EXCEPT ![c].levels = u]
  BY DEF add_resource
<1>. HIDE DEF l, f
<1>6. Topped(s, l, t)
  BY <1>1, <1>3, <1>4, TopStep
<1>7. Stacked(t)
  BY <1>6 DEF Topped
<1>. HIDE DEF t
<1>8. Pushed(t, f, u)
  BY <1>1, <1>7, PushStep
<1>9. Stacked(u)
  BY <1>8 DEF Pushed
<1>. HIDE DEF u
<1>10. caller' \in [Callers -> Progress] /\ LevelsOK' /\ caller'[c].levels = u /\ Same(c)
  BY <1>0, <1>1, <1>5, <1>9, StackStep
<1>11. Entering(s, l, f, u)
  <2>1. Len(t) = Len(s) /\ DOMAIN s = 1 .. Len(s) /\ DOMAIN u = 1 .. Len(s) + 1
    BY <1>6, <1>8 DEF Topped, Pushed
  <2>2. u[Len(s) + 1] = Level(f)
    BY <2>1, <1>8 DEF Pushed
  <2>3. Len(s) \in 1 .. Len(t)
    BY <1>2, <2>1
  <2>4. u[Len(s)] = l
    BY <2>3, <1>6, <1>8 DEF Topped, Pushed
  <2>5. ASSUME NEW i \in 1 .. Len(s) - 1 PROVE u[i] = s[i]
    <3>1. i \in 1 .. Len(t) /\ t[i] = s[i]
      BY <2>1, <1>2, <1>6 DEF Topped
    <3>. QED BY <3>1, <1>8 DEF Pushed
  <2>. QED BY <1>2, <2>1, <2>2, <2>4, <2>5 DEF Entering
<1>. QED BY <1>10, <1>11 DEF l, f

-----------------------------------------------------------------------------
(* Every action keeps the tables typed and the stacks known.               *)
LEMMA TablesInit ==
  ASSUME nsInit
  PROVE  TablesOK
<1>1. _resources \in [DOMAIN _resources -> Files] /\ DOMAIN _resources \subseteq STRING
  BY DEF nsInit
<1>2. _diagnostics \in Seq(Reports)
  BY DEF nsInit
<1>3. caller \in [Callers -> Progress] /\ \A c \in Callers : caller[c].at = "start"
  BY DEF nsInit, Progress, Places
<1>4. imports \in [Files -> Seq([name : STRING, file : Files \union {Missing}])]
  BY NamespaceAssumption DEF nsInit
<1>5. nsTypeOK
  BY <1>1, <1>2, <1>3, <1>4 DEF nsInit, nsTypeOK
<1>. QED BY <1>3, <1>5 DEF TablesOK, LevelsOK, At

LEMMA ReportGrows ==
  ASSUME nsTypeOK, NEW k \in Nat, NEW of \in {"recursive", "imported already"}
  PROVE  {[at |-> k, of |-> of]} \in Reports /\ Append(_diagnostics, {[at |-> k, of |-> of]}) \in Seq(Reports)
<1>1. [at |-> k, of |-> of] \in [at : Nat, of : {"finding", "error", "missing", "recursive", "imported already"}]
  OBVIOUS
<1>2. {[at |-> k, of |-> of]} \in Reports
  BY <1>1 DEF Reports
<1>. QED BY <1>2, ContentGrows DEF nsTypeOK

LEMMA ResourceAdded ==
  ASSUME nsTypeOK, NEW e \in [name : STRING, file : Files]
  PROVE  /\ WithResource(e) \in [DOMAIN WithResource(e) -> Files]
         /\ DOMAIN WithResource(e) \subseteq STRING
         /\ DOMAIN WithResource(e) = DOMAIN _resources \union {e.name}
         /\ \A n \in DOMAIN WithResource(e) :
              WithResource(e)[n] = IF n = e.name THEN e.file ELSE _resources[n]
BY DEF nsTypeOK, WithResource

LEMMA TablesAsks ==
  ASSUME TablesOK, NEW c \in Callers, asks(c)
  PROVE  TablesOK'
<1>. DEFINE p == [caller[c] EXCEPT !.at = "called"]
<1>1. p \in Progress /\ p.at # "importing" /\ caller' = [caller EXCEPT ![c] = p]
  BY DEF asks, Moves, TablesOK, nsTypeOK, Progress, Places
<1>. HIDE DEF p
<1>2. caller' \in [Callers -> Progress] /\ LevelsOK'
  BY <1>1, PlaceStep DEF asks
<1>. QED BY <1>2 DEF asks, TablesOK, nsTypeOK

LEMMA InitializedIs ==
  ASSUME TablesOK, NEW c \in Callers
  PROVE  /\ Initialized(c) \in Progress
         /\ Initialized(c).at \in {"answered", "before analysis"}
<1>1. caller[c] \in Progress /\ _diagnostics \in Seq(Reports) /\ <<>> \in Seq(Calls)
  BY DEF TablesOK, nsTypeOK
<1>. QED BY <1>1 DEF Initialized, Progress, Places

LEMMA TablesEnsure ==
  ASSUME TablesOK, NEW c \in Callers, ensure_initialized(c)
  PROVE  TablesOK'
<1>1. CASE _initialized
  <2>1. Initialized(c) \in Progress /\ Initialized(c).at # "importing"
    BY InitializedIs
  <2>2. caller' \in [Callers -> Progress] /\ LevelsOK'
    BY <1>1, <2>1, PlaceStep DEF ensure_initialized
  <2>. QED BY <1>1, <2>2 DEF ensure_initialized, TablesOK, nsTypeOK
<1>2. CASE ~_initialized
  <2>. DEFINE s == <<Level(Suite)>>
  <2>1. s \in Seq(Calls) /\ s # <<>> /\ s[1].of = Suite /\ \A i \in DOMAIN s : s[i].todo = {}
    BY NamespaceAssumption DEF Level, Calls
  <2>2. Stacked(s)
    BY <2>1 DEF Stacked, Known, KnownLevel
  <2>. HIDE DEF s
  <2>3. caller' = [caller EXCEPT ![c].at = "importing", ![c].levels = s]
    BY <1>2 DEF ensure_initialized, s
  <2>4. /\ caller' \in [Callers -> Progress]
        /\ caller'[c].levels = s /\ \A d \in Callers \ {c} : caller'[d] = caller[d]
    BY <2>1, <2>3 DEF TablesOK, nsTypeOK, Progress, Places
  <2>5. \A d \in Callers : ~At(d, "importing")
    BY NamespaceAssumption DEF ensure_initialized, TablesOK, LevelsOK
  <2>6. LevelsOK'
    BY <1>2, <2>2, <2>4, <2>5 DEF ensure_initialized, LevelsOK, At, Stacked, Known, KnownLevel
  <2>. QED BY <1>2, <2>4, <2>6 DEF ensure_initialized, TablesOK, nsTypeOK
<1>. QED BY <1>1, <1>2 DEF TablesOK, nsTypeOK

LEMMA TablesAdd ==
  ASSUME TablesOK, NEW c \in Callers, add_resource(c)
  PROVE  TablesOK'
<1>1. caller' \in [Callers -> Progress] /\ LevelsOK'
  BY AddStep
<1>2. entry(c) \in [name : STRING, file : Files]
  BY EntryInProgress DEF add_resource
<1>3. _resources' \in [DOMAIN _resources' -> Files] /\ DOMAIN _resources' \subseteq STRING
  BY <1>2, ResourceAdded DEF add_resource, TablesOK
<1>. QED BY <1>1, <1>3 DEF add_resource, TablesOK, nsTypeOK

LEMMA TablesAgain ==
  ASSUME TablesOK, NEW c \in Callers, add_again(c)
  PROVE  TablesOK'
<1>1. NextEntry(c) /\ caller' = SetLevel(c, Dropped(c))
      /\ UNCHANGED <<imports, _initialized, _initialize_lock>>
  BY DEF add_again
<1>2. caller' \in [Callers -> Progress] /\ LevelsOK'
  BY <1>1, DropStep
<1>3. entry(c) \in [name : STRING, file : Files] /\ place(c) \in Nat
  BY <1>1, EntryInProgress
<1>4. _resources' \in [DOMAIN _resources' -> Files] /\ DOMAIN _resources' \subseteq STRING
  BY <1>3, ResourceAdded DEF add_again, TablesOK, nsTypeOK
<1>5. _diagnostics' \in Seq(Reports)
  BY <1>3, ReportGrows DEF add_again, Report, TablesOK, nsTypeOK
<1>. QED BY <1>2, <1>4, <1>5 DEF add_again, TablesOK, nsTypeOK

LEMMA TablesDone ==
  ASSUME TablesOK, NEW c \in Callers, level_done(c)
  PROVE  TablesOK'
<1>1. At(c, "importing") /\ UNCHANGED imports
  BY DEF level_done, Importing
<1>2. CASE top_level(c)
  <2>1. Initialized(c) \in Progress /\ Initialized(c).at # "importing" /\ _initialize_lock = c
    BY <1>1, InitializedIs, CallInProgress
  <2>2. caller' = [caller EXCEPT ![c] = Initialized(c)]
    BY <1>2 DEF level_done
  <2>3. caller' \in [Callers -> Progress] /\ LevelsOK'
    BY <1>1, <2>1, <2>2, PlaceStep
  <2>. QED BY <1>2, <2>3 DEF level_done, TablesOK, nsTypeOK
<1>3. CASE ~top_level(c)
  <2>. DEFINE u == Front(caller[c].levels)
  <2>1. Stacked(u)
    BY <1>1, <1>3, PopStep
  <2>2. caller' = [caller EXCEPT ![c].levels = u] /\ UNCHANGED <<_initialized, _initialize_lock>>
    BY <1>3 DEF level_done
  <2>. HIDE DEF u
  <2>3. caller' \in [Callers -> Progress] /\ LevelsOK'
    BY <1>1, <2>1, <2>2, StackStep
  <2>. QED BY <2>2, <2>3 DEF level_done, TablesOK, nsTypeOK
<1>. QED BY <1>2, <1>3

LEMMA TablesAnalysis ==
  ASSUME TablesOK, NEW c \in Callers, start_analysis(c) \/ analyzed_tree(c) \/ end_analysis(c)
  PROVE  TablesOK'
<1>1. UNCHANGED <<imports, _resources, _initialized, _initialize_lock, cancelled>>
      /\ caller[c] \in Progress
  BY DEF start_analysis, analyzed_tree, end_analysis, TablesOK, nsTypeOK
<1>2. _diagnostics' \in Seq(Reports)
  <2>1. _diagnostics \in Seq(Reports)
    BY DEF TablesOK, nsTypeOK
  <2>2. \/ _diagnostics' = _diagnostics
        \/ _diagnostics' = Append(_diagnostics, {Finding})
        \/ _diagnostics' = Append(_diagnostics, {Error})
    BY DEF start_analysis, analyzed_tree, end_analysis
  <2>. QED BY <2>1, <2>2, ReportsAreReports, ContentGrows
<1>3. PICK p \in Progress : p.at # "importing" /\ caller' = [caller EXCEPT ![c] = p]
  <2>1. CASE start_analysis(c)
    <3>1. [caller[c] EXCEPT !.at = "analyzing"] \in Progress
      BY <1>1 DEF Progress, Places
    <3>2. [caller[c] EXCEPT !.at = "analyzing"].at = "analyzing"
      BY <1>1 DEF Progress
    <3>. QED BY <2>1, <3>1, <3>2 DEF start_analysis, Moves
  <2>2. CASE analyzed_tree(c)
    <3>1. [caller[c] EXCEPT !.at = "documenting"] \in Progress
      BY <1>1 DEF Progress, Places
    <3>2. [caller[c] EXCEPT !.at = "documenting"].at = "documenting"
      BY <1>1 DEF Progress
    <3>. QED BY <2>2, <3>1, <3>2 DEF analyzed_tree, Moves
  <2>3. CASE end_analysis(c)
    <3>. DEFINE p == [caller[c] EXCEPT !.at = "answered", !.answer = _diagnostics']
    <3>1. p \in Progress /\ p.at = "answered"
      BY <1>1, <1>2 DEF Progress, Places
    <3>2. caller' = [caller EXCEPT ![c] = p]
      BY <2>3 DEF end_analysis
    <3>. QED BY <3>1, <3>2
  <2>. QED BY <2>1, <2>2, <2>3
<1>4. caller' \in [Callers -> Progress] /\ LevelsOK'
  BY <1>1, <1>3, PlaceStep
<1>5. _analyzed' \in BOOLEAN /\ _analyze_lock' \in Callers \union {Free}
  BY DEF start_analysis, analyzed_tree, end_analysis, TablesOK, nsTypeOK
<1>. QED BY <1>1, <1>2, <1>4, <1>5 DEF TablesOK, nsTypeOK

LEMMA TablesInterrupted ==
  ASSUME TablesOK, NEW c \in Callers, interrupted(c)
  PROVE  TablesOK'
<1>. DEFINE p == [caller[c] EXCEPT !.at = "ended", !.levels = <<>>]
<1>1. p \in Progress /\ p.at # "importing"
  <2>1. caller[c] \in Progress /\ <<>> \in Seq(Calls)
    BY DEF TablesOK, nsTypeOK
  <2>. QED BY <2>1 DEF Progress, Places
<1>2. caller' = [caller EXCEPT ![c] = p]
  BY DEF interrupted
<1>. HIDE DEF p
<1>3. caller' \in [Callers -> Progress] /\ LevelsOK'
  BY <1>1, <1>2, PlaceStep DEF interrupted
<1>4. _diagnostics' \in Seq(Reports)
  <2>1. \A some \in SUBSET Absent(Suite) : some \in Reports
    BY AbsentAreReports DEF TablesOK, Reports
  <2>2. _diagnostics \in Seq(Reports)
    BY DEF TablesOK, nsTypeOK
  <2>3. \/ _diagnostics' = _diagnostics
        \/ \E some \in SUBSET Absent(Suite) : _diagnostics' = Append(_diagnostics, some)
    BY DEF interrupted
  <2>. QED BY <2>1, <2>2, <2>3, ContentGrows
<1>5. _initialize_lock' \in Callers \union {Free} /\ _analyze_lock' \in Callers \union {Free}
  BY DEF interrupted, TablesOK, nsTypeOK
<1>6. _analyzed' \in BOOLEAN
  BY DEF interrupted
<1>. QED BY <1>3, <1>4, <1>5, <1>6 DEF interrupted, TablesOK, nsTypeOK

LEMMA TablesStep ==
  ASSUME TablesOK, [nsNext]_nsVars
  PROVE  TablesOK'
<1>1. CASE UNCHANGED nsVars
  BY <1>1 DEF nsVars, TablesOK, nsTypeOK, LevelsOK, At, Stacked, Known, KnownLevel
<1>2. CASE nsNext
  <2>1. PICK c \in Callers : asks(c) \/ cancel(c) \/ Proceeds(c)
    BY <1>2 DEF nsNext
  <2>2. CASE cancel(c)
    BY <2>2 DEF cancel, TablesOK, nsTypeOK, LevelsOK, At, Stacked, Known, KnownLevel
  <2>. QED BY <2>1, <2>2, TablesAsks, TablesEnsure, LoadStep, TablesAdd, TablesAgain, TablesDone,
              TablesAnalysis, TablesInterrupted DEF Proceeds
<1>. QED BY <1>1, <1>2

-----------------------------------------------------------------------------
(* A file that has come in twice is reported.                              *)
LEMMA ContentStep ==
  ASSUME TablesOK, [nsNext]_nsVars
  PROVE  Content(_diagnostics) \subseteq Content(_diagnostics')
<1>1. _diagnostics \in Seq(Reports)
  BY DEF TablesOK, nsTypeOK
<1>2. \/ _diagnostics' = _diagnostics
      \/ \E x \in Reports : _diagnostics' = Append(_diagnostics, x)
  <2>1. CASE UNCHANGED nsVars
    BY <2>1 DEF nsVars
  <2>2. CASE nsNext
    <3>1. PICK c \in Callers : asks(c) \/ cancel(c) \/ Proceeds(c)
      BY <2>2 DEF nsNext
    <3>2. CASE asks(c) \/ cancel(c) \/ ensure_initialized(c) \/ add_resource(c) \/ level_done(c) \/ start_analysis(c)
      BY <3>2 DEF asks, cancel, ensure_initialized, add_resource, level_done, start_analysis
    <3>3. CASE load_imports(c)
      BY <3>3, AbsentAreReports DEF load_imports, TablesOK
    <3>4. CASE add_again(c)
      <4>1. place(c) \in Nat
        BY <3>4, EntryInProgress DEF add_again
      <4>. QED BY <3>4, <4>1, ReportGrows DEF add_again, Report, TablesOK
    <3>5. CASE analyzed_tree(c) \/ end_analysis(c)
      BY <3>5, ReportsAreReports DEF analyzed_tree, end_analysis
    <3>6. CASE interrupted(c)
      <4>1. \A some \in SUBSET Absent(Suite) : some \in Reports
        BY AbsentAreReports DEF TablesOK, Reports
      <4>. QED BY <3>6, <4>1 DEF interrupted
    <3>. QED BY <3>1, <3>2, <3>3, <3>4, <3>5, <3>6 DEF Proceeds
  <2>. QED BY <2>1, <2>2
<1>. QED BY <1>1, <1>2, ContentGrows

LEMMA TwiceStep ==
  ASSUME TablesOK, TwiceIsReported, [nsNext]_nsVars
  PROVE  TwiceIsReported'
<1>1. Content(_diagnostics) \subseteq Content(_diagnostics') /\ imports' = imports
  BY ContentStep DEF nsNext, nsVars, asks, cancel, Proceeds, ensure_initialized, load_imports, add_resource,
     add_again, level_done, start_analysis, analyzed_tree, end_analysis, interrupted
<1>2. SUFFICES ASSUME NEW n \in DOMAIN _resources', NEW m \in DOMAIN _resources',
                      n # m, _resources'[n] = _resources'[m]
               PROVE  \E k \in DOMAIN imports[Suite] :
                        /\ imports[Suite][k].name \in {n, m}
                        /\ [at |-> k, of |-> "imported already"] \in Content(_diagnostics')
  BY <1>1 DEF TwiceIsReported, Content
<1>3. CASE n \in DOMAIN _resources /\ m \in DOMAIN _resources /\ _resources[n] = _resources[m]
  BY <1>1, <1>2, <1>3 DEF TwiceIsReported, Content
<1>4. CASE \E c \in Callers : add_resource(c)
  <2>1. PICK c \in Callers : add_resource(c)
    BY <1>4
  <2>2. entry(c) \in [name : STRING, file : Files] /\ ~Imported(entry(c).file)
    BY <2>1, EntryInProgress DEF add_resource
  <2>3. /\ DOMAIN _resources' = DOMAIN _resources \union {entry(c).name}
        /\ \A x \in DOMAIN _resources' :
             _resources'[x] = IF x = entry(c).name THEN entry(c).file ELSE _resources[x]
    BY <2>1, <2>2, ResourceAdded DEF add_resource, TablesOK
  <2>4. n # entry(c).name /\ m # entry(c).name
    BY <1>2, <2>2, <2>3 DEF Imported
  <2>. QED BY <1>2, <1>3, <2>3, <2>4
<1>5. CASE \E c \in Callers : add_again(c)
  <2>1. PICK c \in Callers : add_again(c)
    BY <1>5
  <2>2. /\ entry(c) \in [name : STRING, file : Files] /\ entry(c) = imports[level(c).of][place(c)]
        /\ place(c) \in DOMAIN imports[level(c).of] /\ place(c) \in Nat
    BY <2>1, EntryInProgress DEF add_again
  <2>3. CASE _resources' = _resources
    BY <2>3, <1>2, <1>3
  <2>4. CASE _resources' # _resources
    <3>1. top_level(c) /\ Report(place(c), "imported already") /\ _resources' = WithResource(entry(c))
      BY <2>1, <2>4 DEF add_again
    <3>2. level(c).of = Suite
      BY <2>1, <3>1, CallInProgress DEF add_again, NextEntry, Importing
    <3>3. /\ DOMAIN _resources' = DOMAIN _resources \union {entry(c).name}
          /\ \A x \in DOMAIN _resources' :
               _resources'[x] = IF x = entry(c).name THEN entry(c).file ELSE _resources[x]
      BY <3>1, <2>2, ResourceAdded DEF TablesOK
    <3>4. [at |-> place(c), of |-> "imported already"] \in Content(_diagnostics')
      <4>1. /\ {[at |-> place(c), of |-> "imported already"]} \in Reports
            /\ _diagnostics \in Seq(Reports)
        BY <2>2, ReportGrows DEF TablesOK, nsTypeOK
      <4>. QED BY <3>1, <4>1, ContentGrows DEF Report
    <3>5. CASE entry(c).name \in {n, m}
      BY <3>2, <3>4, <3>5, <2>2
    <3>6. CASE entry(c).name \notin {n, m}
      BY <3>6, <3>3, <1>2, <1>3
    <3>. QED BY <3>5, <3>6
  <2>. QED BY <2>3, <2>4
<1>6. CASE _resources' = _resources
  BY <1>6, <1>2, <1>3
<1>. QED BY <1>4, <1>5, <1>6 DEF nsNext, nsVars, asks, cancel, Proceeds, ensure_initialized, load_imports,
     level_done, start_analysis, analyzed_tree, end_analysis, interrupted

(* TwiceIsReported: a file that has come in by two names is reported to have been *)
(* imported already, however the initialisations of a namespace interleave and    *)
(* wherever they are cancelled.                                                   *)
THEOREM TwiceReported == nsSpec => []TwiceIsReported
<1>1. nsInit => TablesOK /\ TwiceIsReported
  <2>1. nsInit => DOMAIN _resources = {}
    BY DEF nsInit
  <2>2. DOMAIN _resources = {} => TwiceIsReported
    BY DEF TwiceIsReported
  <2>. QED BY <2>1, <2>2, TablesInit
<1>2. TablesOK /\ TwiceIsReported /\ [nsNext]_nsVars => (TablesOK /\ TwiceIsReported)'
  BY TablesStep, TwiceStep
<1>. QED BY <1>1, <1>2, PTL DEF nsSpec

-----------------------------------------------------------------------------
(* As long as no caller is cancelled the diagnostics are whole.            *)
LEMMA FirstOfTopped ==
  ASSUME NEW s, Stacked(s), NEW l, NEW t, Topped(s, l, t)
  PROVE  t[1] = IF Len(s) = 1 THEN l ELSE s[1]
<1>1. Len(s) \in Nat /\ Len(s) > 0
  BY TopOfStack DEF Stacked
<1>2. CASE Len(s) = 1
  BY <1>2 DEF Topped
<1>3. CASE Len(s) # 1
  <2>1. 1 \in 1 .. Len(s) - 1
    BY <1>1, <1>3
  <2>. QED BY <1>3, <2>1 DEF Topped
<1>. QED BY <1>2, <1>3

(* What an import leaves as it was. *)
LEMMA ImportFrame ==
  ASSUME TablesOK, Whole, NEW c \in Callers, At(c, "importing"), Same(c),
         UNCHANGED <<imports, _initialized, _analyzed>>
  PROVE  /\ OneAnalysis' /\ Answered' /\ GoOn' /\ Started' /\ ~_initialized /\ ~_initialized'
         /\ \A d \in Callers : SuiteLoaded(d)' => d = c
         /\ \A d \in Callers : At(d, "documenting")' <=> At(d, "documenting")
         /\ At(c, "importing")'
<1>1. \A d \in Callers : At(d, "importing") => d = c
  BY DEF TablesOK, LevelsOK
<1>2. ~_initialized
  BY DEF TablesOK, LevelsOK
<1>3. /\ caller[c].at = "importing" /\ caller'[c].at = "importing"
      /\ caller'[c].answer = caller[c].answer
      /\ \A d \in Callers \ {c} : caller'[d] = caller[d]
  BY DEF Same, At
<1>4. \A d \in Callers : caller'[d].at = caller[d].at /\ caller'[d].answer = caller[d].answer
  BY <1>3
<1>5. OneAnalysis'
  <2>1. ASSUME NEW d \in Callers, InAnalysis(d)'
        PROVE  d \in Checkers /\ _initialized' /\ ~_analyzed'
    BY <2>1, <1>4 DEF Whole, OneAnalysis, InAnalysis
  <2>2. ASSUME NEW d \in Checkers, NEW e \in Checkers, Asking(d)', Asking(e)' PROVE d = e
    BY <2>2, <1>4 DEF Whole, OneAnalysis, Asking, Callers
  <2>. QED BY <2>1, <2>2 DEF OneAnalysis
<1>6. Answered'
  BY <1>4 DEF Whole, Answered, At, Complete, Absent, Callers
<1>. QED BY <1>1, <1>2, <1>3, <1>4, <1>5, <1>6 DEF Whole, GoOn, At, SuiteLoaded, Started

(* Nothing of an analysis comes with an import. *)
LEMMA ImportReports ==
  ASSUME TablesOK, Whole, NEW x \in Reports, \A d \in x : d.at # 0,
         Content(_diagnostics') \in {Content(_diagnostics), Content(_diagnostics) \union x},
         UNCHANGED _analyzed,
         \A d \in Callers : At(d, "documenting")' <=> At(d, "documenting")
  PROVE  Analysis'
<1>1. Finding \notin x /\ Error \notin x
  BY DEF Finding, Error
<1>. QED BY <1>1 DEF Whole, Analysis

LEMMA WholeLoad ==
  ASSUME TablesOK, TablesOK', Whole, NEW c \in Callers, load_imports(c)
  PROVE  Whole'
<1>. DEFINE s == caller[c].levels
            t == caller'[c].levels
            x == Absent(Suite)
<1>1. At(c, "importing") /\ UNCHANGED <<imports, _initialized, _analyzed>> /\ ~level(c).loaded
  BY DEF load_imports, Importing
<1>2. Same(c)
  BY LoadStep
<1>3. Topped(s, Loaded(c), t)
  BY LoadStep
<1>4. Stacked(s) /\ level(c) = s[Len(s)] /\ level(c) \in Calls
  BY <1>1, CallInProgress
<1>5. t[1] = IF Len(s) = 1 THEN Loaded(c) ELSE s[1]
  BY <1>3, <1>4, FirstOfTopped
<1>6. /\ OneAnalysis' /\ Answered' /\ GoOn' /\ Started' /\ ~_initialized /\ ~_initialized'
      /\ At(c, "importing")'
  BY <1>1, <1>2, ImportFrame
<1>7. \A d \in Callers : SuiteLoaded(d)' => d = c
  BY <1>1, <1>2, ImportFrame
<1>8. \A d \in Callers : At(d, "documenting")' <=> At(d, "documenting")
  BY <1>1, <1>2, ImportFrame
<1>9. x \in Reports
  BY AbsentAreReports DEF TablesOK
<1>10. \A d \in x : d.at \in DOMAIN imports[Suite] /\ d.at # 0 /\ imports[Suite][d.at].file = Missing
  BY AbsentAreReports DEF TablesOK
<1>11. _diagnostics \in Seq(Reports)
  BY DEF TablesOK, nsTypeOK
<1>. HIDE DEF s, t, x
<1>12. CASE top_level(c)
  <2>1. Len(s) = 1 /\ level(c) = s[1] /\ level(c).of = Suite
    BY <1>1, <1>12, <1>4, CallInProgress DEF top_level, s
  <2>2. \A d \in Callers : ~SuiteLoaded(d)
    <3>1. \A d \in Callers : At(d, "importing") => d = c
      BY <1>1 DEF TablesOK, LevelsOK
    <3>. QED BY <3>1, <2>1, <1>1 DEF SuiteLoaded, s
  <2>3. Content(_diagnostics) = {}
    BY <2>2, <1>6 DEF Whole, Unstarted
  <2>4. _diagnostics' = Append(_diagnostics, x)
    BY <1>12 DEF load_imports, x
  <2>5. Content(_diagnostics') = x /\ Disjoint(_diagnostics')
    BY <2>3, <2>4, <1>9, <1>11, ContentGrows DEF Whole
  <2>6. Analysis'
    BY <2>3, <2>5, <1>1, <1>8, <1>9, <1>10, ImportReports
  <2>7. SuiteLoaded(c)' /\ t[1].todo = Entries(Suite)
    <3>1. t[1].loaded /\ t[1].todo = Entries(Suite)
      BY <1>4, <1>5, <2>1 DEF Loaded, Calls
    <3>. QED BY <3>1, <1>6 DEF SuiteLoaded, t
  <2>8. \A d \in x : d.at # 0 /\ d.at \notin t[1].todo
    BY <1>10, <2>7 DEF Entries
  <2>9. ToBeReported'
    BY <1>1, <1>7, <2>5, <2>8 DEF ToBeReported, x, t, Absent
  <2>10. Unstarted'
    BY <2>7 DEF Unstarted
  <2>. QED BY <1>6, <2>5, <2>6, <2>9, <2>10 DEF Whole
<1>13. CASE ~top_level(c)
  <2>1. _diagnostics' = _diagnostics /\ t[1] = s[1]
    BY <1>13, <1>5 DEF load_imports, top_level, s
  <2>2. SuiteLoaded(c)' <=> SuiteLoaded(c)
    BY <2>1, <1>1, <1>6 DEF SuiteLoaded, s, t
  <2>3. Analysis'
    BY <2>1, <1>1, <1>8, <1>9, <1>10, ImportReports
  <2>4. ToBeReported'
    BY <2>1, <2>2, <1>1, <1>7 DEF Whole, ToBeReported, Absent, s, t
  <2>5. Unstarted'
    <3>1. \A d \in Callers : At(d, "importing") => d = c
      BY <1>1 DEF TablesOK, LevelsOK
    <3>. QED BY <3>1, <2>1, <2>2, <1>6 DEF Whole, Unstarted, SuiteLoaded
  <2>. QED BY <1>6, <2>1, <2>3, <2>4, <2>5 DEF Whole
<1>. QED BY <1>12, <1>13

(* A step that leaves the first level as it was, but for the files still to do. *)
LEMMA WholeStays ==
  ASSUME TablesOK, Whole, NEW c \in Callers, At(c, "importing"), Same(c),
         UNCHANGED <<imports, _diagnostics, _initialized, _analyzed>>,
         caller'[c].levels[1].loaded = caller[c].levels[1].loaded,
         caller'[c].levels[1].todo \subseteq caller[c].levels[1].todo
  PROVE  Whole'
<1>1. OneAnalysis' /\ Answered' /\ GoOn' /\ Started' /\ ~_initialized /\ ~_initialized' /\ At(c, "importing")'
  BY ImportFrame
<1>2. \A d \in Callers : SuiteLoaded(d)' => d = c
  BY ImportFrame
<1>3. \A d \in Callers : At(d, "documenting")' <=> At(d, "documenting")
  BY ImportFrame
<1>4. {} \in Reports
  BY DEF Reports
<1>5. Analysis'
  BY <1>3, <1>4, ImportReports
<1>6. SuiteLoaded(c)' <=> SuiteLoaded(c)
  BY <1>1 DEF SuiteLoaded
<1>7. ToBeReported'
  BY <1>2, <1>6 DEF Whole, ToBeReported, Absent
<1>8. Unstarted'
  <2>1. \A d \in Callers : At(d, "importing") => d = c
    BY DEF TablesOK, LevelsOK
  <2>. QED BY <2>1, <1>1, <1>6 DEF Whole, Unstarted, SuiteLoaded
<1>. QED BY <1>1, <1>5, <1>7, <1>8 DEF Whole

LEMMA WholeAdd ==
  ASSUME TablesOK, Whole, NEW c \in Callers, add_resource(c)
  PROVE  Whole'
<1>. DEFINE s == caller[c].levels
            u == caller'[c].levels
            f == entry(c).file
<1>1. At(c, "importing") /\ UNCHANGED <<imports, _diagnostics, _initialized, _analyzed>> /\ NextEntry(c)
  BY DEF add_resource, NextEntry, Importing
<1>2. Same(c)
  BY AddStep
<1>3. Entering(s, Dropped(c), f, u)
  BY AddStep
<1>4. Stacked(s) /\ level(c) = s[Len(s)]
  BY <1>1, CallInProgress
<1>5. Dropped(c).loaded = level(c).loaded /\ Dropped(c).todo \subseteq level(c).todo
  <2>1. level(c) \in Calls
    BY <1>1, CallInProgress
  <2>. QED BY <2>1 DEF Dropped, Calls
<1>. HIDE DEF s, u
<1>6. u[1] = IF Len(s) = 1 THEN Dropped(c) ELSE s[1]
  <2>1. CASE Len(s) = 1
    BY <2>1, <1>3 DEF Entering
  <2>2. CASE Len(s) # 1
    <3>1. 1 \in 1 .. Len(s) - 1
      BY <2>2, <1>3 DEF Entering
    <3>. QED BY <3>1, <2>2, <1>3 DEF Entering
  <2>. QED BY <2>1, <2>2
<1>7. u[1].loaded = s[1].loaded /\ u[1].todo \subseteq s[1].todo
  BY <1>4, <1>5, <1>6
<1>. QED BY <1>1, <1>2, <1>7, WholeStays DEF s, u

LEMMA WholeAgain ==
  ASSUME TablesOK, TablesOK', Whole, NEW c \in Callers, add_again(c)
  PROVE  Whole'
<1>. DEFINE s == caller[c].levels
            t == caller'[c].levels
<1>1. At(c, "importing") /\ UNCHANGED <<imports, _initialized, _analyzed, _initialize_lock>> /\ NextEntry(c)
      /\ caller' = SetLevel(c, Dropped(c))
  BY DEF add_again, NextEntry, Importing
<1>2. Same(c)
  BY <1>1, DropStep
<1>3. Topped(s, Dropped(c), t)
  BY <1>1, DropStep
<1>4. Stacked(s) /\ level(c) = s[Len(s)]
  BY <1>1, CallInProgress
<1>5. level(c).loaded /\ Dropped(c).loaded /\ Dropped(c).todo = level(c).todo \ {place(c)}
      /\ place(c) \in level(c).todo /\ place(c) \in Nat /\ place(c) # 0
  BY <1>1, EntryInProgress
<1>. HIDE DEF s, t
<1>6. t[1] = IF Len(s) = 1 THEN Dropped(c) ELSE s[1]
  BY <1>3, <1>4, FirstOfTopped
<1>7. t[1].loaded = s[1].loaded /\ t[1].todo \subseteq s[1].todo
  <2>1. level(c) \in Calls
    BY <1>1, CallInProgress
  <2>2. Dropped(c).loaded = level(c).loaded
    BY <2>1 DEF Dropped, Calls
  <2>. QED BY <2>2, <1>4, <1>5, <1>6
<1>8. CASE ~top_level(c)
  <2>1. UNCHANGED _diagnostics
    BY <1>8 DEF add_again
  <2>. QED BY <2>1, <1>1, <1>2, <1>7, WholeStays DEF s, t
<1>9. CASE top_level(c)
  <2>. DEFINE of == IF entry(c).file = Suite THEN "recursive" ELSE "imported already"
              d == [at |-> place(c), of |-> of]
  <2>1. _diagnostics' = Append(_diagnostics, {d})
    BY <1>9 DEF add_again, Report
  <2>2. d.at = place(c) /\ {d} \in Reports
    BY <1>5, ReportGrows DEF TablesOK
  <2>. HIDE DEF d
  <2>3. s[1] = level(c) /\ t[1] = Dropped(c)
    BY <1>4, <1>6, <1>9 DEF top_level, s
  <2>4. SuiteLoaded(c)
    BY <2>3, <1>1, <1>5 DEF SuiteLoaded, s
  <2>5. d \notin Content(_diagnostics)
    BY <2>2, <2>3, <2>4, <1>5 DEF Whole, ToBeReported, s
  <2>6. _diagnostics \in Seq(Reports)
    BY DEF TablesOK, nsTypeOK
  <2>7. Content(_diagnostics') = Content(_diagnostics) \union {d} /\ Disjoint(_diagnostics')
    BY <2>1, <2>2, <2>5, <2>6, ContentGrows DEF Whole
  <2>8. OneAnalysis' /\ Answered' /\ GoOn' /\ Started' /\ ~_initialized /\ ~_initialized' /\ At(c, "importing")'
    BY <1>1, <1>2, ImportFrame
  <2>9. \A e \in Callers : SuiteLoaded(e)' => e = c
    BY <1>1, <1>2, ImportFrame
  <2>10. \A e \in Callers : At(e, "documenting")' <=> At(e, "documenting")
    BY <1>1, <1>2, ImportFrame
  <2>11. Analysis'
    BY <2>2, <2>7, <2>10, <1>1, <1>5, ImportReports
  <2>12. SuiteLoaded(c)'
    BY <2>3, <2>8, <1>5 DEF SuiteLoaded, t
  <2>13. \A e \in Content(_diagnostics) : e.at # 0 /\ e.at \notin s[1].todo
    BY <2>4 DEF Whole, ToBeReported, s
  <2>14. \A e \in Content(_diagnostics') : e.at # 0 /\ e.at \notin t[1].todo
    BY <2>2, <2>3, <2>7, <2>13, <1>5
  <2>15. Absent(Suite)' \subseteq Content(_diagnostics')
    BY <2>4, <2>7, <1>1 DEF Whole, ToBeReported, Absent
  <2>16. ToBeReported'
    BY <2>9, <2>14, <2>15 DEF ToBeReported, t
  <2>17. Unstarted'
    BY <2>12 DEF Unstarted
  <2>. QED BY <2>7, <2>8, <2>11, <2>16, <2>17 DEF Whole
<1>. QED BY <1>8, <1>9

(* A caller that the initialisation is done for. *)
LEMMA InitializedFrame ==
  ASSUME TablesOK, Whole, NEW c \in Callers, ~InAnalysis(c), Asking(c),
         caller' = [caller EXCEPT ![c] = Initialized(c)],
         _initialized', Absent(Suite) \subseteq Content(_diagnostics),
         UNCHANGED <<imports, _diagnostics, _analyzed>>
  PROVE  Whole'
<1>1. /\ caller'[c] = Initialized(c) /\ \A d \in Callers \ {c} : caller'[d] = caller[d]
      /\ caller[c] \in Progress
  BY DEF TablesOK, nsTypeOK
<1>2. /\ Initialized(c).at \in {"answered", "before analysis"}
      /\ Initialized(c).at = "before analysis" => c \in Checkers /\ ~_analyzed
      /\ c \in Checkers /\ Initialized(c).at = "answered" => _analyzed /\ Initialized(c).answer = _diagnostics
  BY <1>1, NamespaceAssumption DEF Initialized, Progress, Callers
<1>3. \A d \in Callers : InAnalysis(d)' => d \in Checkers /\ _initialized' /\ ~_analyzed'
  BY <1>1, <1>2 DEF Whole, OneAnalysis, InAnalysis
<1>4. ASSUME NEW d \in Checkers, NEW e \in Checkers, Asking(d)', Asking(e)' PROVE d = e
  <2>1. Asking(d) /\ Asking(e)
    BY <1>1, <1>4 DEF Asking, Callers
  <2>. QED BY <2>1 DEF Whole, OneAnalysis
<1>5. OneAnalysis'
  BY <1>3, <1>4 DEF OneAnalysis
<1>6. Disjoint(_diagnostics) /\ (_analyzed => {Finding, Error} \subseteq Content(_diagnostics))
  BY DEF Whole, Analysis
<1>7. ASSUME NEW d \in Checkers, At(d, "answered")' PROVE Complete(caller'[d].answer)
  <2>1. CASE d = c
    BY <2>1, <1>1, <1>2, <1>6, <1>7 DEF At, Complete
  <2>2. CASE d # c
    BY <2>2, <1>1, <1>7 DEF Whole, Answered, At, Callers
  <2>. QED BY <2>1, <2>2
<1>8. Answered'
  <2>1. \A parts : Complete(parts)' <=> Complete(parts)
    BY DEF Complete, Absent
  <2>. QED BY <1>7, <2>1 DEF Answered
<1>9. \A d \in Callers : SuiteLoaded(d)' => SuiteLoaded(d) /\ caller'[d].levels = caller[d].levels
  BY <1>1, <1>2 DEF SuiteLoaded, At
<1>10. ToBeReported'
  BY <1>9 DEF Whole, ToBeReported, Absent
<1>11. \A d \in Callers : At(d, "documenting")' <=> At(d, "documenting")
  BY <1>1, <1>2 DEF At, InAnalysis
<1>12. Analysis'
  BY <1>11 DEF Whole, Analysis
<1>13. GoOn'
  BY <1>1, <1>2 DEF Whole, GoOn, At
<1>. QED BY <1>5, <1>6, <1>8, <1>10, <1>12, <1>13 DEF Whole, Unstarted, Started, Absent

LEMMA WholeDone ==
  ASSUME TablesOK, Whole, NEW c \in Callers, level_done(c)
  PROVE  Whole'
<1>. DEFINE s == caller[c].levels
<1>1. At(c, "importing") /\ UNCHANGED <<imports, _diagnostics, _analyzed>> /\ level(c).loaded
  BY DEF level_done, Importing
<1>2. Stacked(s) /\ level(c) = s[Len(s)] /\ Len(s) \in Nat /\ Len(s) > 0
  BY <1>1, CallInProgress
<1>3. CASE top_level(c)
  <2>1. SuiteLoaded(c)
    BY <1>1, <1>2, <1>3 DEF SuiteLoaded, top_level
  <2>2. Absent(Suite) \subseteq Content(_diagnostics)
    BY <2>1 DEF Whole, ToBeReported
  <2>3. ~InAnalysis(c) /\ Asking(c)
    BY <1>1 DEF InAnalysis, Asking, At
  <2>4. caller' = [caller EXCEPT ![c] = Initialized(c)] /\ _initialized'
    BY <1>3 DEF level_done
  <2>. QED BY <1>1, <2>2, <2>3, <2>4, InitializedFrame
<1>4. CASE ~top_level(c)
  <2>. DEFINE u == Front(s)
  <2>1. Stacked(u) /\ Len(s) # 1
    BY <1>1, <1>4, PopStep DEF top_level
  <2>2. caller' = [caller EXCEPT ![c].levels = u]
        /\ UNCHANGED <<imports, _initialized, _initialize_lock>>
    BY <1>4 DEF level_done
  <2>4. u[1] = s[1]
    BY <1>1, <1>4, PopStep
  <2>. HIDE DEF u
  <2>5. Same(c) /\ caller'[c].levels = u
    BY <1>1, <2>1, <2>2, StackStep
  <2>. QED BY <1>1, <2>2, <2>4, <2>5, WholeStays
<1>. QED BY <1>3, <1>4

LEMMA WholeEnsure ==
  ASSUME TablesOK, Whole, NEW c \in Callers, ensure_initialized(c)
  PROVE  Whole'
<1>1. caller[c].at = "called" /\ UNCHANGED <<imports, _diagnostics, _initialized, _analyzed>>
      /\ caller \in [Callers -> Progress]
  BY DEF ensure_initialized, At, TablesOK, nsTypeOK
<1>2. CASE _initialized
  <2>1. caller' = [caller EXCEPT ![c] = Initialized(c)] /\ ~InAnalysis(c) /\ Asking(c)
    BY <1>1, <1>2 DEF ensure_initialized, InAnalysis, Asking
  <2>. QED BY <1>1, <1>2, <2>1, InitializedFrame DEF Whole, Started
<1>3. CASE ~_initialized
  <2>1. caller' = [caller EXCEPT ![c].at = "importing", ![c].levels = <<Level(Suite)>>]
    BY <1>3 DEF ensure_initialized
  <2>2. /\ caller'[c].at = "importing" /\ caller'[c].levels = <<Level(Suite)>>
        /\ \A d \in Callers \ {c} : caller'[d] = caller[d]
    BY <1>1, <2>1 DEF Progress
  <2>3. \A d \in Callers : ~At(d, "importing")
    BY NamespaceAssumption DEF ensure_initialized, TablesOK, LevelsOK
  <2>4. ~Level(Suite).loaded
    BY DEF Level
  <2>5. \A d \in Callers : ~SuiteLoaded(d)
    BY <2>3 DEF SuiteLoaded
  <2>6. \A d \in Callers : ~SuiteLoaded(d)'
    BY <2>2, <2>3, <2>4 DEF SuiteLoaded, At
  <2>7. \A d \in Callers : At(d, "documenting")' <=> At(d, "documenting")
    BY <1>1, <2>2 DEF At
  <2>8. Unstarted' /\ ToBeReported' /\ Analysis'
    BY <1>1, <2>5, <2>6, <2>7 DEF Whole, Unstarted, ToBeReported, Analysis
  <2>9. \A d \in Callers : InAnalysis(d)' => InAnalysis(d)
    BY <2>2 DEF InAnalysis
  <2>10. \A d \in Checkers : Asking(d)' => Asking(d)
    BY <1>1, <2>2 DEF Asking, Callers
  <2>11. OneAnalysis'
    BY <1>1, <2>9, <2>10 DEF Whole, OneAnalysis
  <2>12. Answered' /\ GoOn'
    <3>1. \A parts : Complete(parts)' <=> Complete(parts)
      BY <1>1 DEF Complete, Absent
    <3>2. \A d \in Callers : At(d, "answered")' => At(d, "answered") /\ caller'[d] = caller[d]
      BY <2>2 DEF At
    <3>3. \A d \in Callers : ~At(d, "ended")'
      BY <2>2 DEF Whole, GoOn, At
    <3>. QED BY <3>1, <3>2, <3>3 DEF Whole, Answered, GoOn, Callers
  <2>. QED BY <1>1, <2>8, <2>11, <2>12 DEF Whole, Started, Absent
<1>. QED BY <1>2, <1>3 DEF TablesOK, nsTypeOK

LEMMA WholeAsks ==
  ASSUME TablesOK, Whole, cancelled = {}, NEW c \in Callers, asks(c)
  PROVE  Whole'
<1>1. /\ caller[c].at = "start" /\ UNCHANGED <<imports, _diagnostics, _initialized, _analyzed>>
      /\ caller'[c].at = "called" /\ \A d \in Callers \ {c} : caller'[d] = caller[d]
  BY DEF asks, At, Moves, TablesOK, nsTypeOK, Progress
<1>2. \A d \in Callers : SuiteLoaded(d)' <=> SuiteLoaded(d)
  BY <1>1 DEF SuiteLoaded, At
<1>3. \A d \in Callers : SuiteLoaded(d) => caller'[d] = caller[d]
  BY <1>1 DEF SuiteLoaded, At
<1>4. Unstarted' /\ ToBeReported'
  BY <1>1, <1>2, <1>3 DEF Whole, Unstarted, ToBeReported, Absent
<1>5. Analysis'
  <2>1. \A d \in Callers : At(d, "documenting")' <=> At(d, "documenting")
    BY <1>1 DEF At
  <2>. QED BY <1>1, <2>1 DEF Whole, Analysis
<1>6. OneAnalysis'
  <2>1. \A d \in Callers : InAnalysis(d)' => InAnalysis(d)
    BY <1>1 DEF InAnalysis
  <2>2. ASSUME NEW d \in Checkers, NEW e \in Checkers, Asking(d)', Asking(e)' PROVE d = e
    <3>1. c \in Checkers => \A x \in Checkers \ {c} : ~Asking(x)
      BY DEF asks, Whole, GoOn, At, Asking, Callers
    <3>2. \A x \in Checkers \ {c} : Asking(x)' => Asking(x)
      BY <1>1 DEF Asking, Callers
    <3>. QED BY <2>2, <3>1, <3>2 DEF Whole, OneAnalysis
  <2>. QED BY <1>1, <2>1, <2>2 DEF Whole, OneAnalysis
<1>7. Answered' /\ GoOn'
  <2>1. \A parts : Complete(parts)' <=> Complete(parts)
    BY <1>1 DEF Complete, Absent
  <2>2. \A d \in Callers : At(d, "answered")' => At(d, "answered") /\ caller'[d] = caller[d]
    BY <1>1 DEF At
  <2>3. \A d \in Callers : ~At(d, "ended")'
    BY <1>1 DEF Whole, GoOn, At
  <2>. QED BY <2>1, <2>2, <2>3 DEF Whole, Answered, GoOn, Callers
<1>. QED BY <1>1, <1>4, <1>5, <1>6, <1>7 DEF Whole, Started, Absent

(* A caller at its analysis: it is the only one, and the imports are done. *)
LEMMA AnalysisFrame ==
  ASSUME TablesOK, Whole, NEW c \in Callers, InAnalysis(c), NEW p, InAnalysis(c) /\ p \notin {"ended", "importing"},
         \A d \in Callers \ {c} : caller'[d] = caller[d], caller'[c].at = p,
         p \in {"analyzing", "documenting"} \/ _analyzed',
         p \in {"analyzing", "documenting", "answered"},
         p = "answered" \/ ~_analyzed',
         UNCHANGED <<imports, _initialized>>
  PROVE  /\ c \in Checkers /\ _initialized /\ ~_analyzed
         /\ \A d \in Callers \ {c} : ~InAnalysis(d)
         /\ \A d \in Callers : ~SuiteLoaded(d)'
         /\ OneAnalysis' /\ GoOn'
<1>1. c \in Checkers /\ _initialized /\ ~_analyzed /\ Asking(c)
  BY DEF Whole, OneAnalysis, InAnalysis, Asking
<1>2. \A d \in Callers \ {c} : ~InAnalysis(d)
  BY <1>1 DEF Whole, OneAnalysis, InAnalysis, Asking
<1>3. \A d \in Callers : ~At(d, "importing")
  BY <1>1 DEF TablesOK, LevelsOK
<1>4. \A d \in Callers : ~SuiteLoaded(d)'
  BY <1>3 DEF SuiteLoaded, At
<1>5. \A d \in Checkers : Asking(d)' => Asking(d)
  BY <1>1 DEF Asking, Callers
<1>6. \A d \in Callers : InAnalysis(d)' => d = c /\ ~_analyzed'
  BY <1>2 DEF InAnalysis
<1>7. OneAnalysis'
  BY <1>1, <1>5, <1>6 DEF Whole, OneAnalysis
<1>8. GoOn'
  BY DEF Whole, GoOn, At
<1>. QED BY <1>1, <1>2, <1>4, <1>7, <1>8

LEMMA WholeAnalysis ==
  ASSUME TablesOK, TablesOK', Whole, NEW c \in Callers, start_analysis(c) \/ analyzed_tree(c) \/ end_analysis(c)
  PROVE  Whole'
<1>1. /\ InAnalysis(c) /\ caller[c] \in Progress /\ caller \in [Callers -> Progress]
      /\ _diagnostics \in Seq(Reports) /\ UNCHANGED <<imports, _initialized>>
  BY DEF start_analysis, analyzed_tree, end_analysis, At, InAnalysis, TablesOK, nsTypeOK
<1>2. _initialized /\ ~_analyzed
  BY <1>1 DEF Whole, OneAnalysis
<1>3. \A parts : Complete(parts)' <=> Complete(parts)
  BY <1>1 DEF Complete, Absent
<1>4. Absent(Suite) \subseteq Content(_diagnostics) /\ Absent(Suite)' = Absent(Suite)
  BY <1>1, <1>2 DEF Whole, Started, Absent
<1>5. {Finding} \in Reports /\ {Error} \in Reports /\ Finding # Error
  BY ReportsAreReports
<1>6. CASE start_analysis(c)
  <2>1. /\ caller'[c].at = "analyzing" /\ \A d \in Callers \ {c} : caller'[d] = caller[d]
        /\ caller[c].at = "before analysis" /\ UNCHANGED <<_diagnostics, _analyzed>>
    BY <1>1, <1>6 DEF start_analysis, Moves, Progress, At
  <2>2. OneAnalysis' /\ GoOn' /\ \A d \in Callers : ~SuiteLoaded(d)'
    BY <1>1, <1>2, <2>1, AnalysisFrame
  <2>3. Analysis'
    <3>1. \A d \in Callers : At(d, "documenting")' <=> At(d, "documenting")
      BY <2>1 DEF At
    <3>. QED BY <2>1, <3>1 DEF Whole, Analysis
  <2>4. Answered'
    <3>1. \A d \in Callers : At(d, "answered")' => At(d, "answered") /\ caller'[d] = caller[d]
      BY <2>1 DEF At
    <3>. QED BY <3>1, <1>3 DEF Whole, Answered, Callers
  <2>. QED BY <1>1, <1>2, <1>4, <2>1, <2>2, <2>3, <2>4 DEF Whole, Unstarted, ToBeReported, Started
<1>7. CASE analyzed_tree(c)
  <2>1. /\ caller'[c].at = "documenting" /\ \A d \in Callers \ {c} : caller'[d] = caller[d]
        /\ caller[c].at = "analyzing" /\ UNCHANGED _analyzed /\ _diagnostics' = Append(_diagnostics, {Finding})
    BY <1>1, <1>7 DEF analyzed_tree, Moves, Progress, At
  <2>2. OneAnalysis' /\ GoOn' /\ \A d \in Callers : ~SuiteLoaded(d)'
    BY <1>1, <1>2, <2>1, AnalysisFrame
  <2>3. \A d \in Callers \ {c} : ~InAnalysis(d)
    BY <1>1, <1>2, <2>1, AnalysisFrame
  <2>4. Finding \notin Content(_diagnostics)
    BY <1>2, <2>1, <2>3 DEF Whole, Analysis, InAnalysis, At
  <2>5. Content(_diagnostics') = Content(_diagnostics) \union {Finding} /\ Disjoint(_diagnostics')
    BY <1>1, <1>5, <2>1, <2>4, ContentGrows DEF Whole
  <2>6. Analysis'
    <3>1. At(c, "documenting")' /\ Error \notin Content(_diagnostics)
      BY <1>2, <2>1 DEF At, Whole, Analysis
    <3>. QED BY <1>2, <1>5, <2>1, <2>5, <3>1 DEF Analysis
  <2>7. Answered'
    <3>1. \A d \in Callers : At(d, "answered")' => At(d, "answered") /\ caller'[d] = caller[d]
      BY <2>1 DEF At
    <3>. QED BY <3>1, <1>3 DEF Whole, Answered, Callers
  <2>. QED BY <1>1, <1>2, <1>4, <2>2, <2>5, <2>6, <2>7 DEF Whole, Unstarted, ToBeReported, Started
<1>8. CASE end_analysis(c)
  <2>1. /\ caller'[c].at = "answered" /\ caller'[c].answer = _diagnostics'
        /\ \A d \in Callers \ {c} : caller'[d] = caller[d]
        /\ caller[c].at = "documenting" /\ _analyzed' /\ _diagnostics' = Append(_diagnostics, {Error})
    BY <1>1, <1>8 DEF end_analysis, Progress, At
  <2>2. OneAnalysis' /\ GoOn' /\ \A d \in Callers : ~SuiteLoaded(d)'
    BY <1>1, <1>2, <2>1, AnalysisFrame
  <2>3. \A d \in Callers \ {c} : ~InAnalysis(d)
    BY <1>1, <1>2, <2>1, AnalysisFrame
  <2>4. Error \notin Content(_diagnostics) /\ Finding \in Content(_diagnostics)
    BY <1>2, <2>1 DEF Whole, Analysis, At
  <2>5. Content(_diagnostics') = Content(_diagnostics) \union {Error} /\ Disjoint(_diagnostics')
    BY <1>1, <1>5, <2>1, <2>4, ContentGrows DEF Whole
  <2>6. \A d \in Callers : ~At(d, "documenting")'
    BY <2>1, <2>3 DEF At, InAnalysis
  <2>7. Analysis'
    BY <2>1, <2>4, <2>5, <2>6 DEF Analysis
  <2>8. Complete(caller'[c].answer)
    BY <1>4, <2>1, <2>4, <2>5 DEF Complete
  <2>9. \A d \in Callers \ {c} : At(d, "answered")' => At(d, "answered") /\ caller'[d] = caller[d]
    BY <2>1 DEF At
  <2>10. Answered'
    BY <1>3, <2>8, <2>9 DEF Whole, Answered, Callers
  <2>. QED BY <1>1, <1>2, <1>4, <2>2, <2>5, <2>7, <2>10 DEF Whole, Unstarted, ToBeReported, Started
<1>. QED BY <1>6, <1>7, <1>8

LEMMA WholeStep ==
  ASSUME TablesOK, WholeUnlessCancelled, [nsNext]_nsVars
  PROVE  WholeUnlessCancelled'
<1>1. TablesOK'
  BY TablesStep
<1>2. SUFFICES ASSUME cancelled' = {} PROVE Whole'
  BY DEF WholeUnlessCancelled
<1>3. CASE UNCHANGED nsVars
  BY <1>2, <1>3 DEF nsVars, WholeUnlessCancelled, Whole, Unstarted, ToBeReported, Started, Analysis, OneAnalysis,
     Answered, GoOn, Complete, InAnalysis, Asking, SuiteLoaded, At, Absent
<1>4. CASE nsNext
  <2>1. PICK c \in Callers : asks(c) \/ cancel(c) \/ Proceeds(c)
    BY <1>4 DEF nsNext
  <2>2. cancelled = {} /\ ~cancel(c) /\ ~interrupted(c)
    BY <1>2, <2>1 DEF asks, cancel, Proceeds, ensure_initialized, load_imports, add_resource, add_again,
       level_done, start_analysis, analyzed_tree, end_analysis, interrupted
  <2>3. Whole
    BY <2>2 DEF WholeUnlessCancelled
  <2>. QED BY <1>1, <2>1, <2>2, <2>3, WholeAsks, WholeEnsure, WholeLoad, WholeAdd, WholeAgain, WholeDone,
              WholeAnalysis DEF Proceeds
<1>. QED BY <1>3, <1>4

(* DiagnosticsAreWhole: an answer has what was found, what the documentation shows *)
(* and every import that is missing, and nothing twice, as long as no caller is    *)
(* cancelled.                                                                      *)
THEOREM AnswersAreWhole == nsSpec => []DiagnosticsAreWhole
<1>1. nsInit => TablesOK /\ WholeUnlessCancelled
  <2>. SUFFICES ASSUME nsInit PROVE WholeUnlessCancelled
    BY TablesInit
  <2>1. /\ \A c \in Callers : caller[c].at = "start"
        /\ _diagnostics = <<>> /\ ~_initialized /\ ~_analyzed
    BY DEF nsInit
  <2>2. Content(_diagnostics) = {} /\ Disjoint(_diagnostics)
    BY <2>1 DEF Content, Disjoint, Range
  <2>. QED BY <2>1, <2>2 DEF WholeUnlessCancelled, Whole, Unstarted, ToBeReported, Started, Analysis, OneAnalysis,
     Answered, GoOn, InAnalysis, Asking, SuiteLoaded, At, Callers
<1>2. TablesOK /\ WholeUnlessCancelled /\ [nsNext]_nsVars => (TablesOK /\ WholeUnlessCancelled)'
  BY TablesStep, WholeStep
<1>3. WholeUnlessCancelled => DiagnosticsAreWhole
  BY DEF WholeUnlessCancelled, Whole, Answered, At, Complete, Content, Disjoint, DiagnosticsAreWhole
<1>. QED BY <1>1, <1>2, <1>3, PTL DEF nsSpec

-----------------------------------------------------------------------------
(* The files that are entered while no caller has ended: their history is a *)
(* set that grows with every new resource.                                 *)
LEMMA SuiteReachable ==
  Suite \in Reachable
BY NamespaceAssumption DEF Reachable, Closed

LEMMA ImportReachable ==
  ASSUME NEW g \in Reachable, NEW k \in DOMAIN imports[g], imports[g][k].file \in Files
  PROVE  /\ imports[g][k].file \in Reachable /\ imports[g][k].file \in ImportsOf(g)
         /\ imports[g][k].name \in NamesOf(imports[g][k].file)
<1>1. imports[g][k] \in Range(imports[g]) /\ imports[g][k].file # Missing
  BY NamespaceAssumption DEF Range
<1>2. imports[g][k].file \in ImportsOf(g)
  BY <1>1 DEF ImportsOf
<1>3. imports[g][k].file \in Reachable
  BY <1>2 DEF Reachable, Closed
<1>4. imports[g][k].name \in NamesOf(imports[g][k].file)
  BY <1>1 DEF NamesOf
<1>. QED BY <1>2, <1>3, <1>4

LEMMA ReachableIsLeast ==
  ASSUME NEW fs \in SUBSET Files, Closed(fs)
  PROVE  Reachable \subseteq fs
BY DEF Reachable

LEMMA SamePaths ==
  ASSUME imports' = imports
  PROVE  /\ Reachable' = Reachable
         /\ \A f : ImportsOf(f)' = ImportsOf(f)
         /\ \A f : NamesOf(f)' = NamesOf(f)
         /\ \A f : Shares(f)' <=> Shares(f)
         /\ \A fs : Closed(fs)' <=> Closed(fs)
<1>1. \A f : ImportsOf(f)' = ImportsOf(f)
  BY DEF ImportsOf, Range
<1>2. \A fs : Closed(fs)' <=> Closed(fs)
  BY <1>1 DEF Closed
<1>3. Reachable' = Reachable
  BY <1>2 DEF Reachable
<1>4. \A f : NamesOf(f)' = NamesOf(f)
  BY <1>3 DEF NamesOf, Range
<1>5. \A f : Shares(f)' <=> Shares(f)
  BY <1>3, <1>4 DEF Shares
<1>. QED BY <1>1, <1>2, <1>3, <1>4, <1>5

(* A resource that is entered, again or for the first time: one that it replaces *)
(* shares its name.                                                              *)
LEMMA EnteringOne ==
  ASSUME TablesOK, NEW c \in Callers, NextEntry(c), NEW fs \in SUBSET Files,
         fs \subseteq Reachable, Named(fs), Present(fs), level(c).of \in fs,
         _resources' = WithResource(entry(c)), imports' = imports,
         NEW gs, gs = fs \union {entry(c).file}
  PROVE  gs \subseteq Reachable /\ Named(gs)' /\ Present(gs)'
<1>. DEFINE e == entry(c)
<1>1. /\ e \in [name : STRING, file : Files]
      /\ e = imports[level(c).of][place(c)] /\ place(c) \in DOMAIN imports[level(c).of]
  BY EntryInProgress
<1>2. level(c).of \in Reachable
  OBVIOUS
<1>3. e.file \in Reachable /\ e.name \in NamesOf(e.file)
  BY <1>1, <1>2, ImportReachable
<1>4. /\ DOMAIN _resources' = DOMAIN _resources \union {e.name}
      /\ \A n \in DOMAIN _resources' : _resources'[n] = IF n = e.name THEN e.file ELSE _resources[n]
  BY <1>1, ResourceAdded DEF TablesOK
<1>. HIDE DEF e
<1>5. \A f : NamesOf(f)' = NamesOf(f)
  BY SamePaths
<1>6. \A f : Shares(f)' <=> Shares(f)
  BY SamePaths
<1>7. gs = fs \union {e.file}
  BY DEF e
<1>8. Named(gs)'
  <2>1. SUFFICES ASSUME NEW n \in DOMAIN _resources'
                 PROVE  _resources'[n] \in gs /\ n \in NamesOf(_resources'[n])
    BY <1>5 DEF Named
  <2>2. CASE n = e.name
    BY <2>2, <1>3, <1>4, <1>7
  <2>3. CASE n # e.name
    BY <2>3, <1>4, <1>7 DEF Named
  <2>. QED BY <2>2, <2>3
<1>9. Present(gs)'
  <2>1. SUFFICES ASSUME NEW f \in gs \ {Suite}, ~Shares(f)
                 PROVE  Imported(f)'
    BY <1>6 DEF Present
  <2>2. CASE f = e.file
    BY <2>2, <1>4 DEF Imported
  <2>3. CASE f # e.file
    <3>1. Imported(f)
      BY <2>1, <2>3, <1>7 DEF Present
    <3>2. PICK n \in DOMAIN _resources : _resources[n] = f
      BY <3>1 DEF Imported
    <3>3. n \in NamesOf(f)
      BY <3>2 DEF Named
    <3>4. n # e.name
      BY <2>1, <2>3, <3>3, <1>3 DEF Shares
    <3>. QED BY <3>2, <3>4, <1>4 DEF Imported
  <2>. QED BY <2>2, <2>3
<1>. QED BY <1>3, <1>7, <1>8, <1>9

LEMMA ImportEntered ==
  ASSUME TablesOK, NEW c \in Callers, At(c, "importing"), Same(c),
         UNCHANGED <<imports, _initialized>>,
         NEW gs, gs \subseteq Reachable, Named(gs)', Present(gs)', Pending(c, gs)'
  PROVE  Entered(gs)'
<1>1. ~_initialized /\ \A d \in Callers : At(d, "importing") => d = c
  BY DEF TablesOK, LevelsOK
<1>2. At(c, "importing")' /\ \A d \in Callers : At(d, "importing")' => d = c
  BY <1>1 DEF Same, At
<1>3. Reachable' = Reachable
  BY SamePaths
<1>. QED BY <1>1, <1>2, <1>3 DEF Entered

LEMMA EnteredLoad ==
  ASSUME TablesOK, NEW fs \in SUBSET Files, Entered(fs), NEW c \in Callers, load_imports(c)
  PROVE  Entered(fs)'
<1>. DEFINE s == caller[c].levels
            t == caller'[c].levels
<1>1. At(c, "importing") /\ UNCHANGED <<imports, _resources, _initialized>>
  BY DEF load_imports, Importing
<1>2. Same(c)
  BY LoadStep
<1>3. Topped(s, Loaded(c), t)
  BY LoadStep
<1>4. /\ level(c) = s[Len(s)] /\ level(c) \in Calls /\ Len(s) \in Nat /\ Len(s) > 0
      /\ DOMAIN s = 1 .. Len(s)
  BY <1>1, CallInProgress
<1>5. Pending(c, fs)
  BY <1>1 DEF Entered
<1>6. Named(fs) /\ Present(fs) /\ fs \subseteq Reachable
  BY DEF Entered
<1>7. \A f : ImportsOf(f)' = ImportsOf(f)
  BY <1>1, SamePaths
<1>8. \A f : NamesOf(f)' = NamesOf(f)
  BY <1>1, SamePaths
<1>9. \A f : Shares(f)' <=> Shares(f)
  BY <1>1, SamePaths
<1>10. Named(fs)' /\ Present(fs)'
  BY <1>1, <1>6, <1>8, <1>9 DEF Named, Present, Imported
<1>11. Loaded(c).of = level(c).of /\ Loaded(c).todo = Entries(level(c).of)
  BY <1>4 DEF Loaded, Calls
<1>. HIDE DEF s, t
<1>12. DOMAIN t = DOMAIN s /\ t[Len(s)] = Loaded(c) /\ \A i \in 1 .. Len(s) - 1 : t[i] = s[i]
  BY <1>3 DEF Topped
<1>13. ASSUME NEW i \in DOMAIN t PROVE i = Len(s) \/ t[i] = s[i]
  <2>1. i \in 1 .. Len(s)
    BY <1>4, <1>12, <1>13
  <2>2. i = Len(s) \/ i \in 1 .. Len(s) - 1
    BY <2>1, <1>4
  <2>. QED BY <2>2, <1>12
<1>14. \A i \in DOMAIN t : t[i].of \in fs
  BY <1>4, <1>5, <1>11, <1>12, <1>13 DEF Pending, s
<1>15. ASSUME NEW f \in fs PROVE ImportsOf(f) \subseteq fs \/ \E i \in DOMAIN t : Left(t[i], f, fs)
  <2>1. CASE ImportsOf(f) \subseteq fs
    BY <2>1
  <2>2. CASE \E i \in DOMAIN s : Left(s[i], f, fs)
    <3>1. PICK i \in DOMAIN s : Left(s[i], f, fs)
      BY <2>2
    <3>2. CASE t[i] = s[i]
      BY <3>1, <3>2, <1>12
    <3>3. CASE i = Len(s)
      <4>1. level(c).of = f
        BY <3>1, <3>3, <1>4 DEF Left
      <4>2. \A k \in DOMAIN imports[f] : imports[f][k].file \in fs \union {Missing} \/ k \in Entries(f)
        BY <1>6 DEF Entries, Imported, Named
      <4>3. Left(Loaded(c), f, fs)
        BY <4>1, <4>2, <1>11 DEF Left
      <4>. QED BY <4>3, <3>1, <3>3, <1>12
    <3>. QED BY <3>1, <3>2, <3>3, <1>12, <1>13
  <2>. QED BY <2>1, <2>2, <1>5 DEF Pending, StillToDo, s
<1>16. Pending(c, fs)'
  BY <1>1, <1>5, <1>7, <1>14, <1>15 DEF Pending, StillToDo, Left, t
<1>. QED BY <1>1, <1>2, <1>6, <1>10, <1>16, ImportEntered

LEMMA EnteredAdd ==
  ASSUME TablesOK, NEW fs \in SUBSET Files, Entered(fs), NEW c \in Callers, add_resource(c)
  PROVE  \E gs \in SUBSET Files : Entered(gs)'
<1>. DEFINE s == caller[c].levels
            u == caller'[c].levels
            e == entry(c)
<1>1. At(c, "importing") /\ NextEntry(c) /\ UNCHANGED <<imports, _initialized>>
      /\ _resources' = WithResource(e)
  BY DEF add_resource, NextEntry, Importing
<1>2. Same(c)
  BY AddStep
<1>3. Entering(s, Dropped(c), e.file, u)
  BY AddStep
<1>4. level(c) = s[Len(s)]
  BY <1>1, CallInProgress
<1>5. /\ Dropped(c).of = level(c).of /\ Dropped(c).todo = level(c).todo \ {place(c)} /\ level(c).loaded
      /\ e = imports[level(c).of][place(c)] /\ e.file \in Files
  BY <1>1, EntryInProgress
<1>6. Pending(c, fs)
  BY <1>1 DEF Entered
<1>. HIDE DEF s, u
<1>7. /\ Len(s) \in Nat /\ Len(s) > 0 /\ DOMAIN s = 1 .. Len(s) /\ DOMAIN u = 1 .. Len(s) + 1
      /\ u[Len(s) + 1] = Level(e.file) /\ u[Len(s)] = Dropped(c)
      /\ \A i \in 1 .. Len(s) - 1 : u[i] = s[i]
  BY <1>3 DEF Entering
<1>8. level(c).of \in fs
  BY <1>4, <1>6, <1>7 DEF Pending, s
<1>gs. PICK gs \in SUBSET Files : gs = fs \union {e.file}
  BY <1>5
<1>9. gs \subseteq Reachable /\ Named(gs)' /\ Present(gs)'
  <2>1. fs \subseteq Reachable /\ Named(fs) /\ Present(fs)
    BY DEF Entered
  <2>. QED BY <1>1, <1>8, <1>gs, <2>1, EnteringOne
<1>. HIDE DEF e
<1>10. ASSUME NEW i \in DOMAIN u
       PROVE  \/ i = Len(s) + 1 /\ u[i] = Level(e.file)
              \/ i = Len(s) /\ i \in DOMAIN s /\ u[i] = Dropped(c)
              \/ i \in DOMAIN s /\ u[i] = s[i]
  <2>1. i \in 1 .. Len(s) + 1
    BY <1>7, <1>10
  <2>2. i = Len(s) + 1 \/ i = Len(s) \/ i \in 1 .. Len(s) - 1
    BY <2>1, <1>7
  <2>3. Len(s) \in DOMAIN s /\ \A j \in 1 .. Len(s) - 1 : j \in DOMAIN s
    BY <1>7
  <2>. QED BY <2>2, <2>3, <1>7
<1>11. Level(e.file).of = e.file /\ ~Level(e.file).loaded
  BY DEF Level
<1>12. \A i \in DOMAIN u : u[i].of \in gs
  BY <1>4, <1>5, <1>6, <1>10, <1>11, <1>gs DEF Pending, s
<1>13. ASSUME NEW f \in gs PROVE ImportsOf(f) \subseteq gs \/ \E i \in DOMAIN u : Left(u[i], f, gs)
  <2>1. CASE f = e.file
    <3>1. Len(s) + 1 \in DOMAIN u
      BY <1>7
    <3>. QED BY <2>1, <3>1, <1>7, <1>11 DEF Left
  <2>2. CASE f \in fs /\ ImportsOf(f) \subseteq fs
    BY <2>2, <1>gs
  <2>3. CASE f \in fs /\ \E i \in DOMAIN s : Left(s[i], f, fs)
    <3>1. PICK i \in DOMAIN s : Left(s[i], f, fs)
      BY <2>3
    <3>2. i \in DOMAIN u /\ (i = Len(s) \/ u[i] = s[i])
      <4>1. i \in 1 .. Len(s)
        BY <1>7, <3>1
      <4>2. i \in 1 .. Len(s) + 1 /\ (i = Len(s) \/ i \in 1 .. Len(s) - 1)
        BY <4>1, <1>7
      <4>. QED BY <4>2, <1>7
    <3>3. CASE u[i] = s[i]
      BY <3>1, <3>2, <3>3, <1>gs DEF Left
    <3>4. CASE i = Len(s)
      <4>1. Left(level(c), f, fs)
        BY <3>1, <3>4, <1>4
      <4>2. Left(Dropped(c), f, gs)
        BY <4>1, <1>5, <1>gs DEF Left
      <4>. QED BY <4>2, <3>2, <3>4, <1>7
    <3>. QED BY <3>2, <3>3, <3>4
  <2>. QED BY <2>1, <2>2, <2>3, <1>6, <1>gs DEF Pending, StillToDo, s
<1>14. \A f : ImportsOf(f)' = ImportsOf(f)
  BY <1>1, SamePaths
<1>15. Pending(c, gs)'
  BY <1>1, <1>6, <1>12, <1>13, <1>14, <1>gs DEF Pending, StillToDo, Left, u
<1>16. Entered(gs)'
  BY <1>1, <1>2, <1>9, <1>15, ImportEntered
<1>. QED BY <1>16

LEMMA EnteredAgain ==
  ASSUME TablesOK, NEW fs \in SUBSET Files, Entered(fs), NEW c \in Callers, add_again(c)
  PROVE  Entered(fs)'
<1>. DEFINE s == caller[c].levels
            t == caller'[c].levels
            e == entry(c)
<1>1. At(c, "importing") /\ NextEntry(c) /\ UNCHANGED <<imports, _initialized, _initialize_lock>>
      /\ caller' = SetLevel(c, Dropped(c))
      /\ (_resources' = _resources \/ _resources' = WithResource(e))
      /\ (Imported(e.file) \/ e.file = Suite)
  BY DEF add_again, NextEntry, Importing
<1>2. Same(c)
  BY <1>1, DropStep
<1>3. Topped(s, Dropped(c), t)
  BY <1>1, DropStep
<1>4. level(c) = s[Len(s)] /\ Len(s) \in Nat /\ Len(s) > 0 /\ DOMAIN s = 1 .. Len(s)
  BY <1>1, CallInProgress
<1>5. /\ Dropped(c).of = level(c).of /\ Dropped(c).todo = level(c).todo \ {place(c)} /\ level(c).loaded
      /\ e = imports[level(c).of][place(c)]
  BY <1>1, EntryInProgress
<1>6. Pending(c, fs) /\ Named(fs) /\ Present(fs) /\ fs \subseteq Reachable
  BY <1>1 DEF Entered
<1>7. e.file \in fs
  BY <1>1, <1>6 DEF Named, Imported, Pending
<1>. HIDE DEF s, t
<1>8. level(c).of \in fs
  BY <1>4, <1>6 DEF Pending, s
<1>9. Named(fs)' /\ Present(fs)'
  <2>1. CASE _resources' = _resources
    <3>1. \A f : NamesOf(f)' = NamesOf(f)
      BY <1>1, SamePaths
    <3>2. \A f : Shares(f)' <=> Shares(f)
      BY <1>1, SamePaths
    <3>. QED BY <2>1, <3>1, <3>2, <1>6 DEF Named, Present, Imported
  <2>2. CASE _resources' = WithResource(e)
    <3>1. fs = fs \union {e.file}
      BY <1>7
    <3>. QED BY <2>2, <3>1, <1>1, <1>6, <1>8, EnteringOne
  <2>. QED BY <1>1, <2>1, <2>2
<1>. HIDE DEF e
<1>10. DOMAIN t = DOMAIN s /\ t[Len(s)] = Dropped(c) /\ \A i \in 1 .. Len(s) - 1 : t[i] = s[i]
  BY <1>3 DEF Topped
<1>11. ASSUME NEW i \in DOMAIN t PROVE i = Len(s) \/ t[i] = s[i]
  <2>1. i \in 1 .. Len(s)
    BY <1>4, <1>10, <1>11
  <2>2. i = Len(s) \/ i \in 1 .. Len(s) - 1
    BY <2>1, <1>4
  <2>. QED BY <2>2, <1>10
<1>12. \A i \in DOMAIN t : t[i].of \in fs
  BY <1>4, <1>5, <1>6, <1>10, <1>11 DEF Pending, s
<1>13. ASSUME NEW f \in fs PROVE ImportsOf(f) \subseteq fs \/ \E i \in DOMAIN t : Left(t[i], f, fs)
  <2>1. CASE ImportsOf(f) \subseteq fs
    BY <2>1
  <2>2. CASE \E i \in DOMAIN s : Left(s[i], f, fs)
    <3>1. PICK i \in DOMAIN s : Left(s[i], f, fs)
      BY <2>2
    <3>2. CASE t[i] = s[i]
      BY <3>1, <3>2, <1>10
    <3>3. CASE i = Len(s)
      <4>1. Left(level(c), f, fs)
        BY <3>1, <3>3, <1>4
      <4>2. Left(Dropped(c), f, fs)
        BY <4>1, <1>5, <1>7 DEF Left
      <4>. QED BY <4>2, <3>1, <3>3, <1>10
    <3>. QED BY <3>1, <3>2, <3>3, <1>10, <1>11
  <2>. QED BY <2>1, <2>2, <1>6 DEF Pending, StillToDo, s
<1>14. \A f : ImportsOf(f)' = ImportsOf(f)
  BY <1>1, SamePaths
<1>15. Pending(c, fs)'
  BY <1>1, <1>6, <1>12, <1>13, <1>14 DEF Pending, StillToDo, Left, t
<1>. QED BY <1>1, <1>2, <1>6, <1>9, <1>15, ImportEntered

(* Steps of a caller that does not import and enters nothing. *)
LEMMA EnteredFrame ==
  ASSUME TablesOK, NEW fs, Entered(fs), UNCHANGED <<imports, _resources, _initialized>>,
         \A d \in Callers : At(d, "importing") => At(d, "importing")',
         \A d \in Callers : At(d, "importing")' => At(d, "importing") /\ caller'[d].levels = caller[d].levels
  PROVE  Entered(fs)'
<1>1. Reachable' = Reachable
  BY SamePaths
<1>2. \A f : NamesOf(f)' = NamesOf(f)
  BY SamePaths
<1>3. \A f : Shares(f)' <=> Shares(f)
  BY SamePaths
<1>4. \A f : ImportsOf(f)' = ImportsOf(f)
  BY SamePaths
<1>5. Closed(fs)' <=> Closed(fs)
  BY SamePaths
<1>6. Named(fs)' /\ Present(fs)'
  BY <1>2, <1>3 DEF Entered, Named, Present, Imported
<1>7. \A d \in Callers : At(d, "importing")' => Pending(d, fs)'
  BY <1>4 DEF Entered, Pending, StillToDo, Left
<1>. QED BY <1>1, <1>5, <1>6, <1>7 DEF Entered

LEMMA EnteredDone ==
  ASSUME TablesOK, NEW fs \in SUBSET Files, Entered(fs), NEW c \in Callers, level_done(c)
  PROVE  Entered(fs)'
<1>. DEFINE s == caller[c].levels
<1>1. At(c, "importing") /\ UNCHANGED <<imports, _resources>> /\ level(c).loaded /\ level(c).todo = {}
  BY DEF level_done, Importing
<1>2. level(c) = s[Len(s)] /\ Len(s) \in Nat /\ Len(s) > 0 /\ DOMAIN s = 1 .. Len(s)
  BY <1>1, CallInProgress
<1>3. Pending(c, fs) /\ Named(fs) /\ Present(fs) /\ fs \subseteq Reachable
  BY <1>1 DEF Entered
<1>. HIDE DEF s
<1>4. ASSUME NEW f, Left(level(c), f, fs) PROVE ImportsOf(f) \subseteq fs
  BY <1>1, <1>4 DEF Left, ImportsOf, Range
<1>5. \A f \in fs : ImportsOf(f) \subseteq fs \/ \E i \in DOMAIN s : Left(s[i], f, fs)
  BY <1>3 DEF Pending, StillToDo, s
<1>6. Reachable' = Reachable
  BY <1>1, SamePaths
<1>7. \A f : NamesOf(f)' = NamesOf(f)
  BY <1>1, SamePaths
<1>8. \A f : Shares(f)' <=> Shares(f)
  BY <1>1, SamePaths
<1>9. \A f : ImportsOf(f)' = ImportsOf(f)
  BY <1>1, SamePaths
<1>10. Named(fs)' /\ Present(fs)'
  BY <1>1, <1>3, <1>7, <1>8 DEF Named, Present, Imported
<1>11. CASE top_level(c)
  <2>1. Len(s) = 1
    BY <1>11 DEF top_level, s
  <2>2. \A i \in DOMAIN s : s[i] = level(c)
    BY <2>1, <1>2
  <2>3. Closed(fs)
    BY <2>2, <1>3, <1>4, <1>5 DEF Closed, Pending
  <2>4. Closed(fs)'
    BY <2>3, <1>1, SamePaths
  <2>5. caller' = [caller EXCEPT ![c] = Initialized(c)] /\ _initialized'
    BY <1>11 DEF level_done
  <2>6. \A d \in Callers : ~At(d, "importing")'
    <3>1. Initialized(c).at # "importing"
      BY InitializedIs
    <3>2. caller'[c].at # "importing" /\ \A d \in Callers \ {c} : caller'[d] = caller[d]
      BY <2>5, <3>1 DEF TablesOK, nsTypeOK
    <3>3. \A d \in Callers : At(d, "importing") => d = c
      BY <1>1 DEF TablesOK, LevelsOK
    <3>. QED BY <3>2, <3>3 DEF At
  <2>. QED BY <2>4, <2>5, <2>6, <1>3, <1>6, <1>10 DEF Entered
<1>12. CASE ~top_level(c)
  <2>. DEFINE u == Front(s)
  <2>1. Stacked(u) /\ DOMAIN u = 1 .. Len(s) - 1
    BY <1>1, <1>12, PopStep DEF s
  <2>2. \A i \in 1 .. Len(s) - 1 : u[i] = s[i]
    BY <1>1, <1>12, PopStep DEF s
  <2>3. caller' = [caller EXCEPT ![c].levels = u]
        /\ UNCHANGED <<imports, _initialized, _initialize_lock>>
    BY <1>12 DEF level_done, s
  <2>. HIDE DEF u
  <2>4. Same(c) /\ caller'[c].levels = u
    BY <1>1, <2>1, <2>3, StackStep
  <2>5. \A i \in DOMAIN u : i \in DOMAIN s /\ u[i] = s[i]
    BY <2>1, <2>2, <1>2
  <2>6. ASSUME NEW i \in DOMAIN s PROVE s[i] = level(c) \/ (i \in DOMAIN u /\ u[i] = s[i])
    <3>1. i = Len(s) \/ i \in 1 .. Len(s) - 1
      BY <2>6, <1>2
    <3>. QED BY <3>1, <2>1, <2>2, <1>2
  <2>7. \A i \in DOMAIN u : u[i].of \in fs
    BY <2>5, <1>3 DEF Pending, s
  <2>8. \A f \in fs : ImportsOf(f) \subseteq fs \/ \E i \in DOMAIN u : Left(u[i], f, fs)
    BY <2>6, <1>4, <1>5
  <2>9. Pending(c, fs)'
    BY <2>3, <2>4, <2>7, <2>8, <1>3, <1>9 DEF Pending, StillToDo, Left
  <2>. QED BY <2>3, <2>4, <2>9, <1>1, <1>3, <1>10, ImportEntered
<1>. QED BY <1>11, <1>12

LEMMA EnteredEnsure ==
  ASSUME TablesOK, NEW fs \in SUBSET Files, Entered(fs), NEW c \in Callers, ensure_initialized(c)
  PROVE  \E gs \in SUBSET Files : Entered(gs)'
<1>1. /\ caller[c].at = "called" /\ UNCHANGED <<imports, _resources, _initialized>>
      /\ caller \in [Callers -> Progress]
  BY DEF ensure_initialized, At, TablesOK, nsTypeOK
<1>2. CASE _initialized
  <2>1. caller' = [caller EXCEPT ![c] = Initialized(c)] /\ Initialized(c).at # "importing"
    BY <1>2, InitializedIs DEF ensure_initialized
  <2>2. caller'[c].at # "importing" /\ \A d \in Callers \ {c} : caller'[d] = caller[d]
    BY <1>1, <2>1
  <2>3. Entered(fs)'
    <3>1. \A d \in Callers : At(d, "importing") => At(d, "importing")'
      BY <1>1, <2>2 DEF At
    <3>2. \A d \in Callers : At(d, "importing")' => At(d, "importing") /\ caller'[d].levels = caller[d].levels
      BY <2>2 DEF At
    <3>. QED BY <1>1, <3>1, <3>2, EnteredFrame
  <2>. QED BY <2>3
<1>3. CASE ~_initialized
  <2>1. caller' = [caller EXCEPT ![c].at = "importing", ![c].levels = <<Level(Suite)>>]
    BY <1>3 DEF ensure_initialized
  <2>2. /\ caller'[c].at = "importing" /\ caller'[c].levels = <<Level(Suite)>>
        /\ \A d \in Callers \ {c} : caller'[d] = caller[d]
    BY <1>1, <2>1 DEF Progress
  <2>3. \A d \in Callers : ~At(d, "importing")
    BY NamespaceAssumption DEF ensure_initialized, TablesOK, LevelsOK
  <2>4. \A d \in Callers : At(d, "importing")' <=> d = c
    BY <2>2, <2>3 DEF At
  <2>5. DOMAIN _resources = {}
    BY <1>3, <2>3 DEF Entered, Named
  <2>6. PICK gs \in SUBSET Files : gs = {Suite}
    BY NamespaceAssumption
  <2>7. gs \subseteq Reachable'
    BY <2>6, <1>1, SuiteReachable, SamePaths
  <2>8. Named(gs)' /\ Present(gs)'
    BY <1>1, <2>5, <2>6 DEF Named, Present
  <2>9. Pending(c, gs)'
    <3>. DEFINE q == <<Level(Suite)>>
    <3>1. DOMAIN q = {1} /\ q[1].of = Suite /\ ~q[1].loaded
      BY DEF Level
    <3>2. caller'[c].levels = q
      BY <2>2
    <3>. HIDE DEF q
    <3>3. Left(q[1], Suite, gs)'
      BY <3>1 DEF Left
    <3>. QED BY <3>1, <3>2, <3>3, <2>6 DEF Pending, StillToDo, Left
  <2>10. Entered(gs)'
    BY <1>1, <1>3, <2>4, <2>7, <2>8, <2>9 DEF Entered
  <2>. QED BY <2>10
<1>. QED BY <1>2, <1>3 DEF TablesOK, nsTypeOK

LEMMA EnteredElse ==
  ASSUME TablesOK, NEW fs \in SUBSET Files, Entered(fs), NEW c \in Callers,
         asks(c) \/ cancel(c) \/ start_analysis(c) \/ analyzed_tree(c) \/ end_analysis(c)
  PROVE  Entered(fs)'
<1>1. UNCHANGED <<imports, _resources, _initialized>> /\ caller \in [Callers -> Progress]
  BY DEF asks, cancel, start_analysis, analyzed_tree, end_analysis, TablesOK, nsTypeOK
<1>2. \/ UNCHANGED caller
      \/ /\ caller[c].at # "importing" /\ caller'[c].at # "importing"
         /\ \A d \in Callers \ {c} : caller'[d] = caller[d]
  BY <1>1 DEF asks, cancel, start_analysis, analyzed_tree, end_analysis, At, Moves, Progress
<1>3. \A d \in Callers : At(d, "importing") => At(d, "importing")'
  BY <1>2 DEF At
<1>4. \A d \in Callers : At(d, "importing")' => At(d, "importing") /\ caller'[d].levels = caller[d].levels
  BY <1>2 DEF At
<1>. QED BY <1>1, <1>3, <1>4, EnteredFrame

(* One that has ended stays where it is. *)
LEMMA EndedStays ==
  ASSUME TablesOK, [nsNext]_nsVars, NoneEnded'
  PROVE  NoneEnded
<1>1. SUFFICES ASSUME NEW d \in cancelled, caller[d].at = "ended"
               PROVE  FALSE
  BY DEF NoneEnded
<1>2. d \in Callers
  BY DEF TablesOK, nsTypeOK
<1>3. d \in cancelled' /\ caller'[d] = caller[d]
  <2>1. CASE UNCHANGED nsVars
    BY <2>1 DEF nsVars
  <2>2. CASE nsNext
    <3>1. PICK c \in Callers : asks(c) \/ cancel(c) \/ Proceeds(c)
      BY <2>2 DEF nsNext
    <3>2. d \in cancelled'
      BY <3>1 DEF asks, cancel, Proceeds, ensure_initialized, load_imports, add_resource, add_again,
         level_done, start_analysis, analyzed_tree, end_analysis, interrupted
    <3>3. UNCHANGED caller \/ (caller[c].at # "ended" /\ \E p : caller' = [caller EXCEPT ![c] = p])
      BY <3>1 DEF asks, cancel, Proceeds, ensure_initialized, load_imports, add_resource, add_again,
         level_done, start_analysis, analyzed_tree, end_analysis, interrupted, At, Moves, SetLevel, Waits,
         NextEntry, Importing
    <3>4. caller \in [Callers -> Progress]
      BY DEF TablesOK, nsTypeOK
    <3>. QED BY <1>1, <1>2, <3>2, <3>3, <3>4
  <2>. QED BY <2>1, <2>2
<1>. QED BY <1>1, <1>3 DEF NoneEnded

LEMMA EnteredStep ==
  ASSUME TablesOK, SomeEntered, [nsNext]_nsVars
  PROVE  SomeEntered'
<1>1. SUFFICES ASSUME NoneEnded'
               PROVE  \E gs \in SUBSET Files : Entered(gs)'
  BY DEF SomeEntered
<1>2. PICK fs \in SUBSET Files : Entered(fs)
  BY <1>1, EndedStays DEF SomeEntered
<1>3. CASE UNCHANGED nsVars
  <2>1. UNCHANGED <<imports, _resources, _initialized, caller>>
    BY <1>3 DEF nsVars
  <2>2. \A d \in Callers : At(d, "importing")' <=> At(d, "importing")
    BY <2>1 DEF At
  <2>3. Entered(fs)'
    BY <1>2, <2>1, <2>2, EnteredFrame
  <2>. QED BY <2>3
<1>4. CASE nsNext
  <2>1. PICK c \in Callers : asks(c) \/ cancel(c) \/ Proceeds(c)
    BY <1>4 DEF nsNext
  <2>2. CASE interrupted(c)
    <3>1. c \in cancelled' /\ caller' = [caller EXCEPT ![c].at = "ended", ![c].levels = <<>>]
      BY <2>2 DEF interrupted
    <3>2. caller'[c].at = "ended"
      BY <3>1 DEF TablesOK, nsTypeOK, Progress
    <3>. QED BY <1>1, <3>1, <3>2 DEF NoneEnded
  <2>3. CASE asks(c) \/ cancel(c) \/ start_analysis(c) \/ analyzed_tree(c) \/ end_analysis(c)
    BY <1>2, <2>3, EnteredElse
  <2>4. CASE load_imports(c) \/ add_again(c) \/ level_done(c)
    BY <1>2, <2>4, EnteredLoad, EnteredAgain, EnteredDone
  <2>. QED BY <1>2, <2>1, <2>2, <2>3, <2>4, EnteredEnsure, EnteredAdd DEF Proceeds
<1>. QED BY <1>3, <1>4

(* NothingIsLeftOut: once the namespace is initialised every file that a chain of   *)
(* imports leads to is in it, unless another one has its name or a caller was ended *)
(* by its cancellation.                                                             *)
THEOREM EveryFileComesIn == nsSpec => []NothingIsLeftOut
<1>1. nsInit => TablesOK /\ SomeEntered
  <2>. SUFFICES ASSUME nsInit PROVE \E fs \in SUBSET Files : Entered(fs)
    BY TablesInit DEF SomeEntered
  <2>1. \A c \in Callers : ~At(c, "importing")
    BY DEF nsInit, At
  <2>2. Entered({})
    BY <2>1 DEF nsInit, Entered, Named, Present
  <2>. QED BY <2>2
<1>2. TablesOK /\ SomeEntered /\ [nsNext]_nsVars => (TablesOK /\ SomeEntered)'
  BY TablesStep, EnteredStep
<1>3. TablesOK /\ SomeEntered => NothingIsLeftOut
  <2>. SUFFICES ASSUME TablesOK, SomeEntered, _initialized, NEW f \in Reachable \ {Suite}, NoneEnded
                PROVE  Imported(f) \/ Shares(f)
    BY DEF NothingIsLeftOut, NoneEnded, Shares
  <2>1. PICK fs \in SUBSET Files : Entered(fs)
    BY DEF SomeEntered
  <2>2. f \in fs
    BY <2>1, ReachableIsLeast DEF Entered
  <2>. QED BY <2>1, <2>2 DEF Entered, Present
<1>. QED BY <1>1, <1>2, <1>3, PTL DEF nsSpec
-----------------------------------------------------------------------------
(* KeywordSearch.                                                          *)

(* What the tables of imports have for a file. *)
Importable(names) == [name : names, keywords : SUBSET KeywordNames]

ksTypeOK ==
  /\ own \subseteq KeywordNames
  /\ resources \in Seq(Importable(ResourceNames))
  /\ libraries \in Seq(Importable(LibraryNames))

LEMMA ksTypesKept == ksTypeOK /\ [ksNext]_ksVars => ksTypeOK'
<1>. SUFFICES ASSUME ksTypeOK, [ksNext]_ksVars
              PROVE  ksTypeOK'
  OBVIOUS
<1>1. CASE define_keyword
  BY <1>1 DEF define_keyword, ksTypeOK
<1>2. CASE import_library
  <2>1. PICK n \in LibraryNames, ks \in SUBSET KeywordNames :
          libraries' = Append(libraries, [name |-> n, keywords |-> ks])
    BY <1>2 DEF import_library
  <2>2. [name |-> n, keywords |-> ks] \in Importable(LibraryNames)
    BY DEF Importable
  <2>3. libraries' \in Seq(Importable(LibraryNames))
    BY <2>1, <2>2, AppendProperties DEF ksTypeOK
  <2>. QED BY <1>2, <2>3 DEF import_library, ksTypeOK
<1>3. CASE import_resource
  <2>1. PICK n \in ResourceNames, ks \in SUBSET KeywordNames :
          resources' = Append(resources, [name |-> n, keywords |-> ks])
    BY <1>3 DEF import_resource
  <2>2. [name |-> n, keywords |-> ks] \in Importable(ResourceNames)
    BY DEF Importable
  <2>3. resources' \in Seq(Importable(ResourceNames))
    BY <2>1, <2>2, AppendProperties DEF ksTypeOK
  <2>. QED BY <1>3, <2>3 DEF import_resource, ksTypeOK
<1>4. CASE UNCHANGED ksVars
  BY <1>4 DEF ksVars, ksTypeOK
<1>. QED BY <1>1, <1>2, <1>3, <1>4 DEF ksNext

(* A name that is not the keyword's own is matched by embedded arguments. *)
LEMMA MatchedOtherwise ==
  ASSUME NEW k \in KeywordNames, NEW n, Matches(k, n), k # n
  PROVE  is_embedded_keyword(k)
BY DEF Matches, is_embedded_keyword

LEMMA OneMatches ==
  ASSUME NEW S \in SUBSET KeywordNames, NEW n
  PROVE  /\ IsFiniteSet(Matching(S, n))
         /\ \A k \in S : Matches(k, n) => Has(S, n) /\ k \in Matching(S, n)
         /\ Has(S, n) /\ ~Ambiguous(S, n) => \E k \in S : Matching(S, n) = {k} /\ Matches(k, n)
         /\ \A k : Matching(S, n) = {k} => ~Ambiguous(S, n)
<1>1. IsFiniteSet(KeywordNames)
  <2>. DEFINE a == <<"Do It">>  b == <<"Lib", "Do It">>  c == <<"Do ${x}">>  d == <<"${x} It">>
  <2>1. KeywordNames = (({a} \union {b}) \union {c}) \union {d}
    BY DEF KeywordNames
  <2>. HIDE DEF a, b, c, d
  <2>2. IsFiniteSet({a} \union {b})
    BY FS_Singleton, FS_AddElement, Zenon
  <2>3. IsFiniteSet(({a} \union {b}) \union {c})
    BY <2>2, FS_AddElement, Zenon
  <2>. QED BY <2>1, <2>3, FS_AddElement, Zenon
<1>2. Matching(S, n) \subseteq S /\ IsFiniteSet(Matching(S, n))
  <2>1. Matching(S, n) \in SUBSET S
    BY DEF Matching
  <2>2. IsFiniteSet(S)
    BY <1>1, FS_Subset
  <2>. QED BY <2>1, <2>2, FS_Subset
<1>3. \A k \in S : Matches(k, n) => Has(S, n) /\ k \in Matching(S, n)
  BY DEF Matching, Has
<1>4. ASSUME Has(S, n), ~Ambiguous(S, n)
      PROVE  \E k \in S : Matching(S, n) = {k} /\ Matches(k, n)
  <2>1. Cardinality(Matching(S, n)) \in Nat /\ Cardinality(Matching(S, n)) # 0
    BY <1>2, <1>4, FS_CardinalityType, FS_EmptySet DEF Has
  <2>2. Cardinality(Matching(S, n)) = 1
    BY <2>1, <1>4 DEF Ambiguous
  <2>3. PICK k : Matching(S, n) = {k}
    BY <2>2, <1>2, FS_Singleton
  <2>. QED BY <2>3 DEF Matching
<1>5. \A k : Matching(S, n) = {k} => ~Ambiguous(S, n)
  BY FS_Singleton DEF Ambiguous
<1>. QED BY <1>2, <1>3, <1>4, <1>5

(* One of the tables. *)
TableOf(kind) == IF kind = "library" THEN libraries ELSE resources

LEMMA TableTyped ==
  ASSUME ksTypeOK, NEW kind \in {"library", "resource"}
  PROVE  /\ \E N : TableOf(kind) \in Seq(Importable(N))
         /\ \A i \in DOMAIN TableOf(kind) :
              /\ TableOf(kind)[i].keywords \subseteq KeywordNames
              /\ TableOf(kind)[i].name \in LibraryNames \union ResourceNames
<1>1. \E N \in {LibraryNames, ResourceNames} : TableOf(kind) \in Seq(Importable(N))
  BY DEF ksTypeOK, TableOf
<1>2. PICK N \in {LibraryNames, ResourceNames} : TableOf(kind) \in Seq(Importable(N))
  BY <1>1
<1>3. \A i \in DOMAIN TableOf(kind) : TableOf(kind)[i] \in Importable(N)
  BY <1>2
<1>. QED BY <1>2, <1>3 DEF Importable

(* DocsOf has one keyword of each entry that has one of that name. *)
LEMMA DocsAre ==
  ASSUME ksTypeOK, NEW kind \in {"library", "resource"}, NEW n
  PROVE  /\ IsFiniteSet(DocsOf(kind, TableOf(kind), n))
         /\ \A d \in DocsOf(kind, TableOf(kind), n) :
              /\ d.of = kind /\ d.at \in DOMAIN TableOf(kind) /\ d = Doc(kind, d.at, d.name)
              /\ d.name \in TableOf(kind)[d.at].keywords /\ d.name \in KeywordNames
              /\ Matches(d.name, n) /\ Has(TableOf(kind)[d.at].keywords, n)
         /\ \A i \in DOMAIN TableOf(kind) : \A k \in TableOf(kind)[i].keywords :
              Matches(k, n) => \E d \in DocsOf(kind, TableOf(kind), n) : d.at = i
         /\ \A i \in DOMAIN TableOf(kind) : \A k :
              Matching(TableOf(kind)[i].keywords, n) = {k} => Doc(kind, i, k) \in DocsOf(kind, TableOf(kind), n)
<1>. DEFINE entries == TableOf(kind)
            D == DocsOf(kind, entries, n)
            choice(i) == CHOOSE k \in Matching(entries[i].keywords, n) : TRUE
<1>1. D = {Doc(kind, i, choice(i)) : i \in {j \in DOMAIN entries : Has(entries[j].keywords, n)}}
  BY DEF DocsOf
<1>2. \A i \in DOMAIN entries : entries[i].keywords \subseteq KeywordNames
  BY TableTyped
<1>3. \A i \in DOMAIN entries : Has(entries[i].keywords, n) => choice(i) \in Matching(entries[i].keywords, n)
  BY DEF Has
<1>0. DOMAIN entries = 1 .. Len(entries) /\ Len(entries) \in Nat
  BY TableTyped
<1>. HIDE DEF D, choice, entries
<1>4. \A i, k : Doc(kind, i, k).of = kind /\ Doc(kind, i, k).at = i /\ Doc(kind, i, k).name = k
  BY DEF Doc
<1>5. \A d \in D : /\ d.at \in DOMAIN entries /\ Has(entries[d.at].keywords, n)
                   /\ d = Doc(kind, d.at, choice(d.at)) /\ d.name = choice(d.at) /\ d.of = kind
  BY <1>1, <1>4
<1>6. \A i \in DOMAIN entries : Has(entries[i].keywords, n) => Doc(kind, i, choice(i)) \in D
  BY <1>1
<1>7. IsFiniteSet(D)
  <2>2. IsFiniteSet(DOMAIN entries)
    BY <1>0, FS_Interval
  <2>. DEFINE f == [d \in D |-> d.at]
  <2>3. f \in Injection(D, DOMAIN entries)
    BY <1>5 DEF Injection, IsInjective
  <2>. HIDE DEF f
  <2>. QED BY <2>2, <2>3, FS_Injection
<1>8. \A d \in D :
          /\ d.name \in entries[d.at].keywords /\ d.name \in KeywordNames /\ Matches(d.name, n)
  BY <1>2, <1>3, <1>5 DEF Matching
<1>9. \A i \in DOMAIN entries : \A k : k \in entries[i].keywords /\ Matches(k, n) => \E d \in D : d.at = i
  BY <1>4, <1>6 DEF Has, Matching
<1>10. ASSUME NEW i \in DOMAIN entries, NEW k, Matching(entries[i].keywords, n) = {k}
       PROVE  Doc(kind, i, k) \in D
  <2>1. Has(entries[i].keywords, n)
    BY <1>10 DEF Has
  <2>2. choice(i) = k
    BY <1>3, <1>10, <2>1
  <2>. QED BY <2>1, <2>2, <1>6
<1>. QED BY <1>5, <1>7, <1>8, <1>9, <1>10 DEF D, entries

(* How the search among the resources or the libraries ends. *)
LEMMA FromFilesEnds ==
  ASSUME ksTypeOK, NEW kind \in {"library", "resource"}, NEW n
  PROVE  LET docs == DocsOf(kind, TableOf(kind), n)
             r == FromFiles(kind, TableOf(kind), n)
             clear == \A d \in docs : ~Ambiguous(TableOf(kind)[d.at].keywords, n)
         IN  \/ docs = {} /\ r = NoKeyword
             \/ docs # {} /\ r = KeywordError
             \/ docs # {} /\ clear /\ \E used \in SUBSET docs : r = Multiple(used, TRUE)
             \/ docs # {} /\ clear /\ \E d \in docs :
                  r.end = "found" /\ r.doc = d /\ (~r.warned => docs = {d})
<1>. DEFINE docs == DocsOf(kind, TableOf(kind), n)
            used == IF kind = "library" /\ Cardinality(docs) = 2 THEN _filter_stdlib_runner(docs) ELSE docs
            r == FromFiles(kind, TableOf(kind), n)
            clear == \A d \in docs : ~Ambiguous(TableOf(kind)[d.at].keywords, n)
<1>1. r = IF docs = {} THEN NoKeyword
          ELSE IF \E d \in docs : Ambiguous(TableOf(kind)[d.at].keywords, n) THEN KeywordError
          ELSE IF Cardinality(used) = 1
          THEN [Found(CHOOSE d \in used : TRUE) EXCEPT !.warned = used # docs]
          ELSE Multiple(used, TRUE)
  BY DEF FromFiles
<1>2. IsFiniteSet(docs)
  BY DocsAre
<1>3. used \subseteq docs
  BY DEF _filter_stdlib_runner
<1>4. IsFiniteSet(used)
  BY <1>2, <1>3, FS_Subset
<1>. HIDE DEF docs, used, r
<1>5. ASSUME docs # {}, clear, Cardinality(used) = 1
      PROVE  \E d \in docs : r.end = "found" /\ r.doc = d /\ (~r.warned => docs = {d})
  <2>1. PICK d : used = {d}
    BY <1>4, <1>5, FS_Singleton
  <2>2. (CHOOSE x \in used : TRUE) = d
    BY <2>1
  <2>3. r = [Found(d) EXCEPT !.warned = used # docs]
    BY <1>1, <1>5, <2>2
  <2>4. r.end = "found" /\ r.doc = d /\ r.warned = (used # docs)
    BY <2>3 DEF Found
  <2>. QED BY <1>3, <2>1, <2>4
<1>6. \/ docs = {} /\ r = NoKeyword
      \/ docs # {} /\ r = KeywordError
      \/ docs # {} /\ clear /\ \E u \in SUBSET docs : r = Multiple(u, TRUE)
      \/ docs # {} /\ clear /\ Cardinality(used) = 1
  BY <1>1, <1>3
<1>. QED BY <1>5, <1>6 DEF docs, r

(* What a name with an owner may stand for: a split and a keyword. *)
Owned(n) == UNION {{<<s, d>> : d \in find_keywords(s[1], s[2])} : s \in Splits(n)}

LEMMA OwnedAre ==
  ASSUME ksTypeOK, NEW n
  PROVE  /\ \A f \in Owned(n) : \E s \in Splits(n) : \E d \in find_keywords(s[1], s[2]) : f = <<s, d>>
         /\ \A s \in Splits(n) : \A d \in find_keywords(s[1], s[2]) : <<s, d>> \in Owned(n)
<1>1. \A f \in Owned(n) : \E s \in Splits(n) : f \in {<<s, d>> : d \in find_keywords(s[1], s[2])}
  BY Zenon DEF Owned
<1>2. \A s \in Splits(n) : \A f \in {<<s, d>> : d \in find_keywords(s[1], s[2])} : f \in Owned(n)
  BY Zenon DEF Owned
<1>. QED BY <1>1, <1>2

LEMMA FoundByOwner ==
  ASSUME ksTypeOK, NEW owner, NEW n
  PROVE  /\ \A d \in find_keywords(owner, n) :
              /\ d.of \in {"library", "resource"} /\ Owner(d) = owner
              /\ d \in DocsOf(d.of, TableOf(d.of), n)
         /\ \A kind \in {"library", "resource"} : \A d \in DocsOf(kind, TableOf(kind), n) :
              Owner(d) = owner => d \in find_keywords(owner, n)
<1>1. find_keywords(owner, n) =
        {d \in DocsOf("library", TableOf("library"), n) \union DocsOf("resource", TableOf("resource"), n) :
           Owner(d) = owner}
  BY DEF find_keywords, TableOf
<1>2. \A kind \in {"library", "resource"} : \A d \in DocsOf(kind, TableOf(kind), n) : d.of = kind
  BY DocsAre
<1>. QED BY <1>1, <1>2

(* How the search for a name with an owner ends. *)
LEMMA ExplicitEnds ==
  ASSUME ksTypeOK, NEW n
  PROVE  LET r == _get_explicit_keyword(n)
             ambiguous == \E f \in Owned(n) : Ambiguous(TableOf(f[2].of)[f[2].at].keywords, f[1][2])
         IN  \/ ambiguous /\ r = KeywordError
             \/ r = NoKeyword /\ Owned(n) = {}
             \/ ~ambiguous /\ Cardinality(Owned(n)) > 1 /\ \E D : r = Multiple(D, FALSE)
             \/ ~ambiguous /\ \E f \in Owned(n) : r = Found(f[2])
<1>. DEFINE keywords(d) == IF d.of = "library" THEN libraries[d.at].keywords ELSE resources[d.at].keywords
            r == _get_explicit_keyword(n)
<1>1. r = IF \E f \in Owned(n) : Ambiguous(keywords(f[2]), f[1][2]) THEN KeywordError
          ELSE IF Cardinality(Owned(n)) > 1 THEN Multiple({f[2] : f \in Owned(n)}, FALSE)
          ELSE IF Owned(n) = {} THEN NoKeyword
          ELSE Found((CHOOSE f \in Owned(n) : TRUE)[2])
  BY DEF _get_explicit_keyword, Owned
<1>2. \A d : keywords(d) = TableOf(d.of)[d.at].keywords
  BY DEF TableOf
<1>. HIDE DEF keywords, r
<1>3. Owned(n) # {} => \E f \in Owned(n) : f = CHOOSE x \in Owned(n) : TRUE
  OBVIOUS
<1>. QED BY <1>1, <1>2, <1>3 DEF r

(* How the whole search ends for a name without a prefix. *)
LEMMA PlainEnds ==
  ASSUME ksTypeOK, NEW n
  PROVE  /\ Has(own, n) =>
              \/ FindPlain(n) = KeywordError
              \/ \E k \in own : Matches(k, n) /\ FindPlain(n) = Found(Doc("own", 0, k))
         /\ ~Has(own, n) /\ Owned(n) # {} => FindPlain(n) = _get_explicit_keyword(n)
         /\ ~Has(own, n) /\ Owned(n) = {} => FindPlain(n) = _get_implicit_keyword(n)
<1>1. NoKeyword # KeywordError /\ \A d : Found(d) # NoKeyword
  <2>1. NoKeyword.end = "none" /\ KeywordError.end = "raised" /\ \A d : Found(d).end = "found"
    BY DEF NoKeyword, KeywordError, Found
  <2>. QED BY <2>1
<1>2. \A D, b : Multiple(D, b) # NoKeyword
  <2>1. NoKeyword.end = "none" /\ \A D, b : Multiple(D, b).end = "multiple"
    BY DEF NoKeyword, Multiple
  <2>. QED BY <2>1
<1>3. _get_keyword_from_self(n) =
        IF Ambiguous(own, n) THEN KeywordError
        ELSE IF Has(own, n) THEN Found(Doc("own", 0, CHOOSE k \in Matching(own, n) : TRUE))
        ELSE NoKeyword
  BY DEF _get_keyword_from_self
<1>4. FindPlain(n) = IF _get_keyword_from_self(n) # NoKeyword THEN _get_keyword_from_self(n)
                     ELSE IF _get_explicit_keyword(n) # NoKeyword THEN _get_explicit_keyword(n)
                     ELSE _get_implicit_keyword(n)
  BY DEF FindPlain
<1>5. ASSUME Has(own, n)
      PROVE  \/ FindPlain(n) = KeywordError
             \/ \E k \in own : Matches(k, n) /\ FindPlain(n) = Found(Doc("own", 0, k))
  <2>1. (CHOOSE k \in Matching(own, n) : TRUE) \in Matching(own, n)
    BY <1>5 DEF Has
  <2>2. \E k \in own : Matches(k, n) /\ k = CHOOSE x \in Matching(own, n) : TRUE
    BY <2>1 DEF Matching
  <2>. QED BY <1>1, <1>3, <1>4, <1>5, <2>2
<1>6. ~Has(own, n) => _get_keyword_from_self(n) = NoKeyword
  <2>1. ~Has(own, n) => Matching(own, n) = {}
    BY DEF Has
  <2>2. ~Has(own, n) => ~Ambiguous(own, n)
    BY <2>1, FS_EmptySet DEF Ambiguous
  <2>. QED BY <1>3, <2>2
<1>7. Owned(n) # {} => _get_explicit_keyword(n) # NoKeyword
  BY <1>1, <1>2, ExplicitEnds
<1>8. Owned(n) = {} => _get_explicit_keyword(n) = NoKeyword
  <2>1. ~(Cardinality({}) > 1)
    BY FS_EmptySet
  <2>. QED BY <2>1, ExplicitEnds
<1>. QED BY <1>4, <1>5, <1>6, <1>7, <1>8

-----------------------------------------------------------------------------
(* CompletionAgrees.                                                       *)

(* What names are made of. *)
Words == {"Do It", "Lib", "Do ${x}", "${x} It", "Collections", "common"}

LEMMA SplitsAre ==
  ASSUME NEW n \in Seq(Words), NEW s \in Splits(n)
  PROVE  s[1] \in Seq(Words) /\ s[2] \in Seq(Words) /\ s[1] \o s[2] = n
<1>1. PICK i \in 1 .. Len(n) - 1 : s = <<SubSeq(n, 1, i), SubSeq(n, i + 1, Len(n))>>
  BY DEF Splits
<1>2. i \in 1 .. Len(n) /\ Len(n) \in Nat
  BY <1>1
<1>3. SubSeq(n, 1, i) \o SubSeq(n, i + 1, Len(n)) = SubSeq(n, 1, Len(n))
  BY <1>1, <1>2
<1>4. SubSeq(n, 1, Len(n)) = n
  OBVIOUS
<1>. QED BY <1>1, <1>2, <1>3, <1>4

LEMMA NamesAreNames ==
  /\ KeywordNames \union LibraryNames \union ResourceNames \subseteq Seq(Words)
  /\ \A k \in KeywordNames \union LibraryNames \union ResourceNames : k # <<>> /\ k[1] # "Given " /\ Len(k) > 0
<1>. DEFINE Name(k) == k \in Seq(Words) /\ k # <<>> /\ k[1] \in Words /\ Len(k) > 0
<1>1. \A w \in Words : Name(<<w>>)
  <2>1. ASSUME NEW S, NEW a \in S
        PROVE  <<a>> \in Seq(S) /\ Len(<<a>>) = 1 /\ <<a>>[1] = a /\ <<a>> # <<>>
    OBVIOUS
  <2>2. \A a \in Words : <<a>> \in Seq(Words) /\ Len(<<a>>) = 1 /\ <<a>>[1] = a /\ <<a>> # <<>>
    BY <2>1
  <2>. QED BY <2>2
<1>2. \A v, w \in Words : Name(<<v, w>>)
  <2>1. ASSUME NEW S, NEW a \in S, NEW b \in S
        PROVE  <<a, b>> \in Seq(S) /\ Len(<<a, b>>) = 2 /\ <<a, b>>[1] = a /\ <<a, b>> # <<>>
    OBVIOUS
  <2>2. \A a, b \in Words :
          <<a, b>> \in Seq(Words) /\ Len(<<a, b>>) = 2 /\ <<a, b>>[1] = a /\ <<a, b>> # <<>>
    BY <2>1
  <2>. QED BY <2>2
<1>. HIDE DEF Name
<1>3. /\ "Do It" \in Words /\ "Lib" \in Words /\ "Do ${x}" \in Words /\ "${x} It" \in Words
      /\ "Collections" \in Words /\ "common" \in Words
  BY DEF Words
<1>4. \A k \in KeywordNames : Name(k)
  BY <1>1, <1>2, <1>3, Zenon DEF KeywordNames
<1>5. \A k \in LibraryNames : Name(k)
  BY <1>1, <1>2, <1>3, Zenon DEF LibraryNames
<1>6. \A k \in ResourceNames : Name(k)
  BY <1>1, <1>3, Zenon DEF ResourceNames
<1>7. "Given " \notin Words
  BY DEF Words
<1>. QED BY <1>4, <1>5, <1>6, <1>7 DEF Name

(* The keywords there are. *)
LEMMA AllDocsAre ==
  ASSUME ksTypeOK
  PROVE  /\ \A d \in AllDocs :
              /\ d.of \in {"own", "library", "resource"} /\ d = Doc(d.of, d.at, d.name)
              /\ d.name \in KeywordNames
              /\ d.of = "own" => d.name \in own /\ d.at = 0
              /\ d.of # "own" => d.at \in DOMAIN TableOf(d.of) /\ d.name \in TableOf(d.of)[d.at].keywords
         /\ \A k \in own : Doc("own", 0, k) \in AllDocs
         /\ \A kind \in {"library", "resource"} : \A i \in DOMAIN TableOf(kind) :
              \A k \in TableOf(kind)[i].keywords : Doc(kind, i, k) \in AllDocs
<1>1. \A kind, i, k : Doc(kind, i, k).of = kind /\ Doc(kind, i, k).at = i /\ Doc(kind, i, k).name = k
  BY DEF Doc
<1>2. AllDocs = {Doc("own", 0, k) : k \in own} \union KeywordsOf("resource", TableOf("resource"))
                \union KeywordsOf("library", TableOf("library"))
  BY DEF AllDocs, TableOf
<1>3. \A kind \in {"library", "resource"} :
        /\ \A d \in KeywordsOf(kind, TableOf(kind)) :
             /\ d = Doc(kind, d.at, d.name) /\ d.of = kind /\ d.name \in KeywordNames
             /\ d.at \in DOMAIN TableOf(kind) /\ d.name \in TableOf(kind)[d.at].keywords
        /\ \A i \in DOMAIN TableOf(kind) : \A k \in TableOf(kind)[i].keywords :
             Doc(kind, i, k) \in KeywordsOf(kind, TableOf(kind))
  <2>1. SUFFICES ASSUME NEW kind \in {"library", "resource"}
                 PROVE  /\ \A d \in KeywordsOf(kind, TableOf(kind)) :
                             /\ d = Doc(kind, d.at, d.name) /\ d.of = kind /\ d.name \in KeywordNames
                             /\ d.at \in DOMAIN TableOf(kind) /\ d.name \in TableOf(kind)[d.at].keywords
                        /\ \A i \in DOMAIN TableOf(kind) : \A k \in TableOf(kind)[i].keywords :
                             Doc(kind, i, k) \in KeywordsOf(kind, TableOf(kind))
    OBVIOUS
  <2>. HIDE DEF TableOf
  <2>2. KeywordsOf(kind, TableOf(kind)) =
          {Doc(kind, p[1], p[2]) : p \in {q \in (DOMAIN TableOf(kind)) \X KeywordNames :
                                            q[2] \in TableOf(kind)[q[1]].keywords}}
    BY DEF KeywordsOf
  <2>3. ASSUME NEW i \in DOMAIN TableOf(kind), NEW k \in TableOf(kind)[i].keywords
        PROVE  Doc(kind, i, k) \in KeywordsOf(kind, TableOf(kind))
    <3>1. k \in KeywordNames
      BY TableTyped
    <3>2. <<i, k>> \in (DOMAIN TableOf(kind)) \X KeywordNames /\ <<i, k>>[1] = i /\ <<i, k>>[2] = k
      BY <3>1
    <3>. HIDE DEF TableOf
    <3>. QED BY <2>2, <3>2
  <2>4. ASSUME NEW d \in KeywordsOf(kind, TableOf(kind))
        PROVE  /\ d = Doc(kind, d.at, d.name) /\ d.of = kind /\ d.name \in KeywordNames
               /\ d.at \in DOMAIN TableOf(kind) /\ d.name \in TableOf(kind)[d.at].keywords
    <3>1. PICK p \in (DOMAIN TableOf(kind)) \X KeywordNames :
            p[2] \in TableOf(kind)[p[1]].keywords /\ d = Doc(kind, p[1], p[2])
      BY <2>2
    <3>2. p[1] \in DOMAIN TableOf(kind) /\ p[2] \in KeywordNames
      BY <3>1
    <3>3. d.of = kind /\ d.at = p[1] /\ d.name = p[2]
      BY <1>1, <3>1
    <3>. QED BY <3>1, <3>2, <3>3
  <2>. QED BY <2>3, <2>4
<1>4. \A d : d.of \in {"library", "resource"} => d.of # "own"
  OBVIOUS
<1>5. \A d \in {Doc("own", 0, k) : k \in own} :
        d.of = "own" /\ d = Doc(d.of, d.at, d.name) /\ d.name \in own /\ d.at = 0
  BY <1>1
<1>. HIDE DEF TableOf
<1>. QED BY <1>2, <1>3, <1>5 DEF ksTypeOK

(* What CompletionAgrees says of one keyword and the result of the search. *)
Agrees(d, r) ==
  \/ r.end = "found" /\ r.doc = d
  \/ r.end \in {"multiple", "raised"}
  \/ r.end = "found" /\ r.warned
  \/ r.end = "found" /\ is_embedded_keyword(r.doc.name)
  \/ r.end = "found" /\ r.doc.of # "own" /\ Owner(r.doc) \o r.doc.name = d.name

(* The keyword that an unambiguous search finds is the one of that name, unless a *)
(* pattern matched.                                                               *)
LEMMA AgreesPlain ==
  ASSUME ksTypeOK, NEW d \in get_keywords
  PROVE  Agrees(d, FindPlain(d.name))
<1>. DEFINE n == d.name
            r == FindPlain(n)
<1>1. d \in AllDocs /\ \A e \in AllDocs : e.name = n => Before(d, e)
  BY DEF get_keywords
<1>2. /\ d.of \in {"own", "library", "resource"} /\ d = Doc(d.of, d.at, n) /\ n \in KeywordNames
      /\ d.of = "own" => n \in own /\ d.at = 0
      /\ d.of # "own" => d.at \in DOMAIN TableOf(d.of) /\ n \in TableOf(d.of)[d.at].keywords
  BY <1>1, AllDocsAre
<1>3. Matches(n, n)
  BY DEF Matches
<1>4. /\ KeywordError.end = "raised"
      /\ \A e : Found(e).end = "found" /\ Found(e).doc = e
      /\ \A D : Multiple(D, FALSE).end = "multiple" /\ Multiple(D, TRUE).end = "multiple"
  BY DEF Found, KeywordError, Multiple
<1>5. \A of, at, k : Doc(of, at, k).of = of /\ Doc(of, at, k).at = at /\ Doc(of, at, k).name = k
  BY DEF Doc
<1>. HIDE DEF n, r
<1>6. CASE Has(own, n)
  <2>1. CASE r = KeywordError
    BY <2>1, <1>4 DEF Agrees, r, n
  <2>2. CASE \E k \in own : Matches(k, n) /\ r = Found(Doc("own", 0, k))
    <3>1. PICK k \in own : Matches(k, n) /\ r = Found(Doc("own", 0, k))
      BY <2>2
    <3>2. CASE k # n
      <4>1. is_embedded_keyword(k)
        BY <3>1, <3>2, MatchedOtherwise DEF ksTypeOK
      <4>2. r.end = "found" /\ r.doc.name = k
        BY <3>1, <1>4, <1>5
      <4>. QED BY <4>1, <4>2 DEF Agrees, r, n
    <3>3. CASE k = n
      <4>1. Doc("own", 0, n) \in AllDocs
        BY <3>1, <3>3, AllDocsAre
      <4>2. Before(d, Doc("own", 0, n))
        BY <4>1, <1>1, <1>5
      <4>3. d.of = "own"
        BY <4>2, <1>5 DEF Before
      <4>4. d = Doc("own", 0, k)
        BY <3>3, <4>3, <1>2
      <4>5. r.end = "found" /\ r.doc = d
        BY <3>1, <4>4, <1>4
      <4>. QED BY <4>5 DEF Agrees, r, n
    <3>. QED BY <3>2, <3>3
  <2>. QED BY <1>6, <2>1, <2>2, PlainEnds DEF r
<1>7. CASE ~Has(own, n) /\ Owned(n) # {}
  <2>1. r = _get_explicit_keyword(n)
    BY <1>7, PlainEnds DEF r
  <2>2. \/ r = KeywordError
        \/ \E D : r = Multiple(D, FALSE)
        \/ \E f \in Owned(n) : r = Found(f[2])
    BY <1>7, <2>1, ExplicitEnds
  <2>3. ASSUME NEW f \in Owned(n), r = Found(f[2])
        PROVE  /\ r.end = "found"
               /\ \/ is_embedded_keyword(r.doc.name)
                  \/ r.doc.of # "own" /\ Owner(r.doc) \o r.doc.name = n
    <3>0. PICK s \in Splits(n) : \E e \in find_keywords(s[1], s[2]) : f = <<s, e>>
      BY OwnedAre
    <3>1. PICK e \in find_keywords(s[1], s[2]) : f = <<s, e>>
      BY <3>0
    <3>2. r.end = "found" /\ r.doc = e
      BY <2>3, <3>1, <1>4
    <3>3. /\ e.of \in {"library", "resource"} /\ Owner(e) = s[1]
          /\ e \in DocsOf(e.of, TableOf(e.of), s[2])
      BY FoundByOwner
    <3>4. e.name \in KeywordNames /\ Matches(e.name, s[2])
      BY <3>3, DocsAre
    <3>5. s[1] \o s[2] = n
      BY <1>2, SplitsAre, NamesAreNames
    <3>6. e.name = s[2] \/ is_embedded_keyword(e.name)
      BY <3>4, MatchedOtherwise
    <3>. QED BY <3>2, <3>3, <3>5, <3>6
  <2>4. r.end = "raised" \/ r.end = "multiple" \/ \E f \in Owned(n) : r = Found(f[2])
    BY <2>2, <1>4
  <2>. QED BY <2>3, <2>4 DEF Agrees, r, n
<1>8. CASE ~Has(own, n) /\ Owned(n) = {}
  <2>. DEFINE docs(kind) == DocsOf(kind, TableOf(kind), n)
              file(kind) == FromFiles(kind, TableOf(kind), n)
  <2>1. r = IF file("resource") # NoKeyword THEN file("resource") ELSE file("library")
    BY <1>8, PlainEnds DEF r, _get_implicit_keyword, TableOf
  <2>2. d.of # "own"
    BY <1>2, <1>3, <1>8, OneMatches DEF ksTypeOK
  <2>3. \A kind \in {"library", "resource"} :
          \/ docs(kind) = {} /\ file(kind) = NoKeyword
          \/ docs(kind) # {} /\ file(kind) = KeywordError
          \/ docs(kind) # {} /\ \E used : file(kind) = Multiple(used, TRUE)
          \/ docs(kind) # {} /\ \E e \in docs(kind) :
               file(kind).end = "found" /\ file(kind).doc = e /\ (~file(kind).warned => docs(kind) = {e})
    BY FromFilesEnds
  <2>4. \E e \in docs(d.of) : e.at = d.at
    BY <1>2, <1>3, <2>2, DocsAre
  <2>5. \A kind \in {"library", "resource"} : \A e \in docs(kind) :
          e.of = kind /\ e = Doc(kind, e.at, e.name) /\ e \in AllDocs
          /\ (e.name = n \/ is_embedded_keyword(e.name))
    <3>1. SUFFICES ASSUME NEW kind \in {"library", "resource"}, NEW e \in docs(kind)
                   PROVE  e.of = kind /\ e = Doc(kind, e.at, e.name) /\ e \in AllDocs
                          /\ (e.name = n \/ is_embedded_keyword(e.name))
      OBVIOUS
    <3>2. /\ e.of = kind /\ e = Doc(kind, e.at, e.name) /\ e.at \in DOMAIN TableOf(kind)
          /\ e.name \in TableOf(kind)[e.at].keywords /\ Matches(e.name, n)
      BY DocsAre
    <3>3. e.name \in KeywordNames
      BY <3>2, TableTyped
    <3>4. e \in AllDocs
      BY <3>2, AllDocsAre
    <3>. QED BY <3>2, <3>3, <3>4, MatchedOtherwise
  <2>. HIDE DEF docs, file
  <2>6. NoKeyword # KeywordError /\ \A D : Multiple(D, TRUE) # NoKeyword
    <3>1. NoKeyword.end = "none"
      BY DEF NoKeyword
    <3>. QED BY <3>1, <1>4
  <2>7. ASSUME NEW kind \in {"library", "resource"}, r = file(kind), docs(kind) # {},
               kind = "library" => docs("resource") = {}
        PROVE  Agrees(d, r)
    <3>0. \/ r.end \in {"raised", "multiple"}
          \/ \E e \in docs(kind) : r.end = "found" /\ r.doc = e /\ (~r.warned => docs(kind) = {e})
      <4>1. \/ file(kind) = KeywordError
            \/ \E used : file(kind) = Multiple(used, TRUE)
            \/ \E e \in docs(kind) :
                 file(kind).end = "found" /\ file(kind).doc = e /\ (~file(kind).warned => docs(kind) = {e})
        BY <2>3, <2>7
      <4>2. r.end = "raised" \/ r.end = "multiple"
            \/ \E e \in docs(kind) : r.end = "found" /\ r.doc = e /\ (~r.warned => docs(kind) = {e})
        <5>1. \/ r = KeywordError
              \/ \E used : r = Multiple(used, TRUE)
              \/ \E e \in docs(kind) : r.end = "found" /\ r.doc = e /\ (~r.warned => docs(kind) = {e})
          BY <4>1, <2>7, Zenon
        <5>. QED BY <5>1, <1>4
      <4>. QED BY <4>2
    <3>1. SUFFICES ASSUME NEW e \in docs(kind), r.end = "found", r.doc = e, docs(kind) = {e}, e.name = n
                   PROVE  e = d
      <4>1. CASE r.end \in {"raised", "multiple"}
        BY <4>1 DEF Agrees
      <4>2. ASSUME NEW e \in docs(kind), r.end = "found", r.doc = e, ~r.warned => docs(kind) = {e}
            PROVE  Agrees(d, r)
        <5>1. e.name = n \/ is_embedded_keyword(e.name)
          BY <2>5
        <5>. QED BY <3>1, <4>2, <5>1 DEF Agrees
      <4>. QED BY <3>0, <4>1, <4>2
    <3>2. Before(d, e)
      BY <3>1, <2>5, <1>1 DEF n
    <3>3. e.of = kind /\ e = Doc(kind, e.at, n)
      BY <3>1, <2>5
    <3>4. d.of = kind
      BY <3>2, <3>3, <2>2, <2>4, <2>7, <1>2 DEF Before
    <3>5. d.at = e.at
      BY <2>4, <3>1, <3>4
    <3>. QED BY <3>3, <3>4, <3>5, <1>2
  <2>8. \/ docs("resource") # {} /\ r = file("resource")
        \/ docs("resource") = {} /\ docs("library") # {} /\ r = file("library")
    <3>1. docs("resource") = {} => file("resource") = NoKeyword
      BY <2>3, <2>6
    <3>2. docs("resource") # {} => file("resource") # NoKeyword
      <4>1. \A e : e.end = "found" => e # NoKeyword
        BY DEF NoKeyword
      <4>. QED BY <2>3, <2>6, <4>1
    <3>3. docs("resource") # {} \/ docs("library") # {}
      BY <2>2, <2>4, <1>2
    <3>. QED BY <2>1, <3>1, <3>2, <3>3
  <2>. QED BY <2>7, <2>8 DEF n, r
<1>. QED BY <1>6, <1>7, <1>8 DEF n, r

LEMMA CompletionOK == ksTypeOK => CompletionAgrees
<1>. SUFFICES ASSUME ksTypeOK, NEW d \in get_keywords
              PROVE  LET r == find_keyword(d.name) IN
                     \/ Finds(d.name, d)
                     \/ r.end \in {"multiple", "raised"}
                     \/ r.end = "found" /\ r.warned
                     \/ r.end = "found" /\ is_embedded_keyword(r.doc.name)
                     \/ r.end = "found" /\ r.doc.of # "own" /\ Owner(r.doc) \o r.doc.name = d.name
  BY DEF CompletionAgrees
<1>1. d \in AllDocs
  BY DEF get_keywords
<1>2. d.name \in KeywordNames
  BY <1>1, AllDocsAre
<1>3. find_keyword(d.name) = FindPlain(d.name)
  BY <1>2, NamesAreNames DEF find_keyword
<1>. QED BY <1>3, AgreesPlain DEF Finds, Agrees

-----------------------------------------------------------------------------
(* AdviceWorks.                                                            *)

LEMMA FullNameSplits ==
  ASSUME NEW o \in LibraryNames \union ResourceNames, NEW k \in KeywordNames
  PROVE  /\ <<o, k>> \in Splits(o \o k)
         /\ o \o k # <<>> /\ (o \o k)[1] # "Given "
         /\ \A s \in Splits(o \o k) : s[1] = o => s = <<o, k>>
<1>1. o \in Seq(Words) /\ k \in Seq(Words) /\ Len(o) > 0 /\ Len(k) > 0
  BY NamesAreNames
<1>. DEFINE n == o \o k
            at(i) == <<SubSeq(n, 1, i), SubSeq(n, i + 1, Len(n))>>
<1>0. Len(o) \in Nat /\ Len(k) \in Nat /\ 1 \in 1 .. Len(o) /\ Len(o) \in 1 .. Len(o)
  <2>1. Len(o) \in Nat /\ Len(k) \in Nat
    BY <1>1
  <2>. QED BY <1>1, <2>1
<1>2. n \in Seq(Words) /\ Len(n) = Len(o) + Len(k) /\ n[1] = o[1]
  <2>1. /\ o \o k \in Seq(Words) /\ Len(o \o k) = Len(o) + Len(k)
        /\ \A i \in 1 .. Len(o) + Len(k) : (o \o k)[i] = IF i <= Len(o) THEN o[i] ELSE k[i - Len(o)]
    BY <1>1, ConcatProperties
  <2>2. 1 \in 1 .. Len(o) + Len(k) /\ 1 <= Len(o)
    BY <1>0, <1>1
  <2>. QED BY <2>1, <2>2
<1>3. Len(o) \in 1 .. Len(n) - 1
  BY <1>0, <1>1, <1>2
<1>4. SubSeq(n, 1, Len(o)) = o
  <2>1. SubSeq(n, 1, Len(o)) = SubSeq(o, 1, Len(o))
    BY <1>0, <1>1, SubSeqOfConcat1
  <2>. QED BY <1>1, <2>1, SubSeqFull
<1>5. SubSeq(n, Len(o) + 1, Len(n)) = k
  <2>1. Len(o) + 1 \in Len(o) + 1 .. Len(o) + Len(k) /\ Len(o) + Len(k) \in Len(o) + 1 .. Len(o) + Len(k)
    BY <1>0, <1>1
  <2>2. SubSeq(n, Len(o) + 1, Len(o) + Len(k)) = SubSeq(k, (Len(o) + 1) - Len(o), (Len(o) + Len(k)) - Len(o))
    BY <1>1, <2>1, SubSeqOfConcat2
  <2>3. (Len(o) + 1) - Len(o) = 1 /\ (Len(o) + Len(k)) - Len(o) = Len(k)
    BY <1>0
  <2>. QED BY <1>1, <1>2, <2>2, <2>3, SubSeqFull
<1>6. Splits(n) = {at(i) : i \in 1 .. Len(n) - 1}
  BY DEF Splits
<1>7. at(Len(o)) = <<o, k>>
  BY <1>4, <1>5
<1>8. ASSUME NEW s \in Splits(n), s[1] = o
      PROVE  s = <<o, k>>
  <2>1. PICK i \in 1 .. Len(n) - 1 : s = at(i)
    BY <1>6
  <2>2. s[1] = SubSeq(n, 1, i) /\ i \in Nat
    BY <2>1, <1>2
  <2>3. Len(SubSeq(n, 1, i)) = i
    BY <1>2, <2>1
  <2>. QED BY <1>7, <1>8, <2>1, <2>2, <2>3
<1>9. <<o, k>> \in Splits(n)
  BY <1>3, <1>6, <1>7
<1>10. n # <<>>
  <2>1. Len(n) # 0
    BY <1>0, <1>1, <1>2
  <2>. QED BY <2>1
<1>11. n[1] # "Given "
  BY <1>2, NamesAreNames
<1>. QED BY <1>8, <1>9, <1>10, <1>11

(* A keyword that alone matches some name alone matches its own: what has embedded *)
(* arguments is matched by nothing else.                                           *)
LEMMA MatchesItself ==
  ASSUME NEW S \in SUBSET KeywordNames, NEW n, NEW k \in S, Matches(k, n), ~Ambiguous(S, n)
  PROVE  Matching(S, k) = {k}
<1>1. PICK j \in S : Matching(S, n) = {j}
  BY OneMatches
<1>2. j = k
  BY <1>1, OneMatches
<1>3. k \in Matching(S, k)
  BY DEF Matching, Matches
<1>4. ASSUME NEW l \in S, Matches(l, k)
      PROVE  l = k
  <2>1. CASE is_embedded_keyword(k)
    <3>1. CASE k = <<"Do ${x}">>
      <4>1. Last(k) = "Do ${x}" /\ k # <<"Do It">>
        BY <3>1 DEF Last
      <4>. QED BY <3>1, <4>1, <1>4 DEF Matches
    <3>2. CASE k = <<"${x} It">>
      <4>1. k # <<"Do It">>
        BY <3>2
      <4>. QED BY <3>2, <4>1, <1>4 DEF Matches
    <3>. QED BY <2>1, <3>1, <3>2 DEF is_embedded_keyword
  <2>2. CASE ~is_embedded_keyword(k)
    <3>1. k = n
      BY <2>2, MatchedOtherwise
    <3>. QED BY <3>1, <1>1, <1>2, <1>4, OneMatches
  <2>. QED BY <2>1, <2>2
<1>. QED BY <1>3, <1>4 DEF Matching

(* What several keywords of one name have that the search does not decide between. *)
LEMMA ImplicitFiles ==
  ASSUME ksTypeOK, NEW n, FindPlain(n).end = "multiple", FindPlain(n).implicit
  PROVE  \E kind \in {"library", "resource"} : \A d \in FindPlain(n).docs :
           d \in DocsOf(kind, TableOf(kind), n) /\ ~Ambiguous(TableOf(kind)[d.at].keywords, n)
<1>1. /\ KeywordError.end = "raised" /\ NoKeyword.end = "none"
      /\ \A d : Found(d).end = "found"
      /\ \A D : Multiple(D, FALSE).implicit = FALSE /\ Multiple(D, TRUE).docs = D
  BY DEF KeywordError, NoKeyword, Found, Multiple
<1>2. ~Has(own, n)
  BY <1>1, PlainEnds
<1>3. Owned(n) = {}
  <2>1. SUFFICES ASSUME Owned(n) # {} PROVE FALSE
    OBVIOUS
  <2>2. FindPlain(n) = _get_explicit_keyword(n)
    BY <1>2, <2>1, PlainEnds
  <2>3. \/ FindPlain(n) = KeywordError
        \/ \E D : FindPlain(n) = Multiple(D, FALSE)
        \/ \E f \in Owned(n) : FindPlain(n) = Found(f[2])
    BY <2>1, <2>2, ExplicitEnds
  <2>. QED BY <2>3, <1>1
<1>. DEFINE file(kind) == FromFiles(kind, TableOf(kind), n)
            docs(kind) == DocsOf(kind, TableOf(kind), n)
<1>4. FindPlain(n) = file("resource") \/ FindPlain(n) = file("library")
  BY <1>2, <1>3, PlainEnds DEF _get_implicit_keyword, TableOf
<1>5. PICK kind \in {"library", "resource"} : FindPlain(n) = file(kind)
  BY <1>4
<1>6. \/ file(kind) = NoKeyword
      \/ file(kind) = KeywordError
      \/ /\ \A d \in docs(kind) : ~Ambiguous(TableOf(kind)[d.at].keywords, n)
         /\ \E used \in SUBSET docs(kind) : file(kind) = Multiple(used, TRUE)
      \/ file(kind).end = "found"
  BY FromFilesEnds
<1>. HIDE DEF docs, file
<1>7. /\ \A d \in docs(kind) : ~Ambiguous(TableOf(kind)[d.at].keywords, n)
      /\ \E used \in SUBSET docs(kind) : FindPlain(n) = Multiple(used, TRUE)
  BY <1>1, <1>5, <1>6
<1>8. FindPlain(n).docs \subseteq docs(kind)
  BY <1>1, <1>7
<1>. QED BY <1>7, <1>8 DEF docs

(* The full name of a keyword is its owner's name and its own. *)
LEMMA FullNameFinds ==
  ASSUME ksTypeOK, NEW kind \in {"library", "resource"}, NEW n, NEW d \in DocsOf(kind, TableOf(kind), n),
         ~Ambiguous(TableOf(kind)[d.at].keywords, n)
  PROVE  LET full == Owner(d) \o d.name IN
         \/ Finds(full, d)
         \/ Has(own, full)
         \/ \E e \in AllDocs \ {d} : e.of # "own"
               /\ \E s \in Splits(full) : Owner(e) = s[1] /\ Matches(e.name, s[2])
<1>. DEFINE full == Owner(d) \o d.name
            keywords == TableOf(kind)[d.at].keywords
            split == <<Owner(d), d.name>>
            other == \E e \in AllDocs \ {d} : e.of # "own"
                       /\ \E s \in Splits(full) : Owner(e) = s[1] /\ Matches(e.name, s[2])
<1>1. /\ d.of = kind /\ d.at \in DOMAIN TableOf(kind) /\ d = Doc(kind, d.at, d.name)
      /\ d.name \in keywords /\ d.name \in KeywordNames /\ Matches(d.name, n)
  BY DocsAre
<1>2. Owner(d) \in LibraryNames \union ResourceNames
  BY <1>1, TableTyped DEF Owner, TableOf
<1>3. /\ split \in Splits(full) /\ full # <<>> /\ full[1] # "Given "
      /\ \A s \in Splits(full) : s[1] = Owner(d) => s = split
  BY <1>1, <1>2, FullNameSplits
<1>4. keywords \subseteq KeywordNames
  BY <1>1, TableTyped
<1>5. Matching(keywords, d.name) = {d.name}
  BY <1>1, <1>4, MatchesItself
<1>6. d \in DocsOf(kind, TableOf(kind), d.name)
  BY <1>1, <1>5, DocsAre
<1>7. split[1] = Owner(d) /\ split[2] = d.name
  OBVIOUS
<1>. HIDE DEF split, full, keywords, other
<1>8. <<split, d>> \in Owned(full)
  BY <1>3, <1>6, <1>7, FoundByOwner, OwnedAre
<1>9. find_keyword(full) = FindPlain(full)
  BY <1>3 DEF find_keyword
<1>10. ASSUME NEW s \in Splits(full), NEW e \in find_keywords(s[1], s[2]),
              NEW k \in TableOf(e.of)[e.at].keywords, Matches(k, s[2]), Doc(e.of, e.at, k) # d
       PROVE  other
  <2>1. /\ e.of \in {"library", "resource"} /\ Owner(e) = s[1]
        /\ e \in DocsOf(e.of, TableOf(e.of), s[2])
    BY FoundByOwner
  <2>2. e.at \in DOMAIN TableOf(e.of)
    BY <2>1, DocsAre
  <2>3. Doc(e.of, e.at, k) \in AllDocs \ {d}
    BY <1>10, <2>1, <2>2, AllDocsAre
  <2>4. Doc(e.of, e.at, k).of = e.of /\ Doc(e.of, e.at, k).at = e.at /\ Doc(e.of, e.at, k).name = k
    BY DEF Doc
  <2>5. Owner(Doc(e.of, e.at, k)) = s[1] /\ Doc(e.of, e.at, k).of # "own"
    BY <2>1, <2>4 DEF Owner
  <2>. QED BY <1>10, <2>3, <2>4, <2>5 DEF other
<1>11. ASSUME ~other, NEW f \in Owned(full)
       PROVE  f = <<split, d>>
  <2>1. PICK s \in Splits(full) : \E e \in find_keywords(s[1], s[2]) : f = <<s, e>>
    BY OwnedAre
  <2>2. PICK e \in find_keywords(s[1], s[2]) : f = <<s, e>>
    BY <2>1
  <2>3. /\ e.of \in {"library", "resource"} /\ Owner(e) = s[1]
        /\ e \in DocsOf(e.of, TableOf(e.of), s[2])
    BY FoundByOwner
  <2>4. e.name \in TableOf(e.of)[e.at].keywords /\ Matches(e.name, s[2]) /\ e = Doc(e.of, e.at, e.name)
    BY <2>3, DocsAre
  <2>5. e = d
    BY <1>10, <1>11, <2>4
  <2>. QED BY <1>3, <2>2, <2>3, <2>5
<1>12. ASSUME ~other, ~Has(own, full)
       PROVE  Finds(full, d)
  <2>1. Owned(full) = {<<split, d>>}
    BY <1>8, <1>11, <1>12
  <2>2. FindPlain(full) = _get_explicit_keyword(full)
    BY <1>12, <2>1, PlainEnds
  <2>3. ~(Cardinality(Owned(full)) > 1)
    <3>1. Cardinality({<<split, d>>}) = 1
      BY FS_Singleton
    <3>. QED BY <2>1, <3>1
  <2>4. ~Ambiguous(TableOf(d.of)[d.at].keywords, d.name)
    BY <1>1, <1>4, <1>5, OneMatches DEF keywords
  <2>5. ~(\E f \in Owned(full) : Ambiguous(TableOf(f[2].of)[f[2].at].keywords, f[1][2]))
    BY <2>1, <2>4, <1>7
  <2>6. \E f \in Owned(full) : FindPlain(full) = Found(f[2])
    BY <2>1, <2>2, <2>3, <2>5, ExplicitEnds
  <2>7. FindPlain(full) = Found(d)
    BY <2>1, <2>6
  <2>8. Found(d).end = "found" /\ Found(d).doc = d
    BY DEF Found
  <2>. QED BY <1>9, <2>7, <2>8 DEF Finds
<1>. QED BY <1>12 DEF other, full

LEMMA AdviceOK == ksTypeOK => AdviceWorks
<1>. SUFFICES ASSUME ksTypeOK, NEW n \in WrittenNames, find_keyword(n).end = "multiple", find_keyword(n).implicit,
                     NEW d \in find_keyword(n).docs
              PROVE  LET full == Owner(d) \o d.name IN
                     \/ Finds(full, d)
                     \/ Has(own, full)
                     \/ \E e \in AllDocs \ {d} : e.of # "own"
                           /\ \E s \in Splits(full) : Owner(e) = s[1] /\ Matches(e.name, s[2])
  BY DEF AdviceWorks
<1>1. EmptyName.end # "multiple"
  BY DEF EmptyName
<1>2. \E m : find_keyword(n) = FindPlain(m)
  BY <1>1 DEF find_keyword
<1>3. PICK m : find_keyword(n) = FindPlain(m)
  BY <1>2
<1>4. PICK kind \in {"library", "resource"} :
        d \in DocsOf(kind, TableOf(kind), m) /\ ~Ambiguous(TableOf(kind)[d.at].keywords, m)
  BY <1>3, ImplicitFiles
<1>. QED BY <1>4, FullNameFinds

(* CompletionAgrees: whatever keywords the files have, the one that completion offers *)
(* for a name is the one the name stands for, or the search says why it is not.       *)
THEOREM OffersAgree == ksSpec => []CompletionAgrees
<1>1. ksInit => ksTypeOK
  BY DEF ksInit, ksTypeOK
<1>. QED BY <1>1, ksTypesKept, CompletionOK, PTL DEF ksSpec

(* AdviceWorks: the full name finds the keyword that one is told to name in full, but *)
(* for the two exceptions.                                                            *)
THEOREM AdviceHelps == ksSpec => []AdviceWorks
<1>1. ksInit => ksTypeOK
  BY DEF ksInit, ksTypeOK
<1>. QED BY <1>1, ksTypesKept, AdviceOK, PTL DEF ksSpec

-----------------------------------------------------------------------------
(* RunKeywords.                                                            *)

(* From the end of a line to its beginning: what holds at a place when it holds at *)
(* all later ones holds everywhere.                                                *)
LEMMA FromTheEnd ==
  ASSUME NEW n \in Nat, NEW T,
         \A a \in 1 .. n + 1 : (\A b \in a + 1 .. n + 1 : b \in T) => a \in T
  PROVE  \A a \in 1 .. n + 1 : a \in T
<1>. DEFINE Behind == {k \in Nat : \E a \in (1 .. n + 1) \ T : k = n + 1 - a}
<1>1. SUFFICES ASSUME NEW a \in 1 .. n + 1, a \notin T PROVE FALSE
  OBVIOUS
<1>2. n + 1 - a \in Behind
  <2>1. n + 1 - a \in Nat
    OBVIOUS
  <2>. QED BY <1>1, <2>1
<1>3. Behind # {} /\ Behind \subseteq Nat
  BY <1>2
<1>. HIDE DEF Behind
<1>4. Min(Behind) \in Behind /\ \A k \in Behind : Min(Behind) =< k
  BY <1>3, MinIsLeast
<1>5. PICK b \in (1 .. n + 1) \ T : Min(Behind) = n + 1 - b
  BY <1>4 DEF Behind
<1>6. PICK c \in b + 1 .. n + 1 : c \notin T
  BY <1>5
<1>7. n + 1 - c \in Behind
  BY <1>6 DEF Behind
<1>. QED BY <1>4, <1>5, <1>6, <1>7

LEMMA SkipArgsIn ==
  ASSUME NEW l \in Seq(Tokens), NEW a \in 1 .. Len(l) + 1
  PROVE  skip_args(l, a) \in a .. Len(l) + 1
<1>. DEFINE at == {p \in a .. Len(l) : l[p] \in {"ELSE", "ELSE IF"}}
<1>1. Len(l) \in Nat /\ a .. Len(l) \subseteq Nat
  OBVIOUS
<1>2. skip_args(l, a) = IF at = {} THEN Len(l) + 1 ELSE Min(at)
  BY DEF skip_args, NoArguments
<1>3. at \subseteq a .. Len(l)
  OBVIOUS
<1>. HIDE DEF at
<1>4. CASE at = {}
  BY <1>1, <1>2, <1>4
<1>5. CASE at # {}
  <2>1. at \subseteq Nat
    BY <1>1, <1>3
  <2>2. Min(at) \in at
    BY <1>5, <2>1, MinIsLeast
  <2>3. Min(at) \in a .. Len(l)
    BY <1>3, <2>2
  <2>. QED BY <1>1, <1>2, <1>5, <2>3
<1>. QED BY <1>4, <1>5

(* What a walk says of one end of a line, from what it says of the later ones. *)
Analyzed(l, later, p, a) ==
  IF p = Branches THEN AnalyzeBranches(l, later, a) ELSE AnalyzeRun(l, later, p, a)
FoundAt(l, q, later, p, a) ==
  IF p = Branches THEN FindBranches(l, q, later, a) ELSE FindRun(l, q, later, p, a)

(* The ends of a line with what is checked there and what is left. *)
ChecksAt(l, r, a) == r.checks \subseteq a .. Len(l) /\ r.rest \in a .. Len(l) + 1
ChecksAfter(l, later, a) ==
  \A b \in a + 1 .. Len(l) + 1 : \A p \in 0 .. Len(l) : ChecksAt(l, later[b][p], b)
SameAfter(l, f, g, a) == \A b \in a + 1 .. Len(l) + 1 : f[b] = g[b]

LEMMA CallChecks ==
  ASSUME NEW l \in Seq(Tokens), NEW a \in 1 .. Len(l) + 1, NEW f, NEW g,
         ChecksAfter(l, f, a), SameAfter(l, f, g, a),
         NEW p \in a .. Len(l), NEW b \in a + 1 .. Len(l) + 1
  PROVE  /\ AnalyzeCall(l, f, p, b) = AnalyzeCall(l, g, p, b)
         /\ AnalyzeCall(l, f, p, b) \subseteq a .. Len(l)
<1>1. Len(l) \in Nat /\ p \in 0 .. Len(l)
  OBVIOUS
<1>2. f[b] = g[b] /\ ChecksAt(l, f[b][p], b)
  BY <1>1 DEF ChecksAfter, SameAfter
<1>3. f[b][p].checks \subseteq a .. Len(l)
  BY <1>1, <1>2 DEF ChecksAt
<1>. QED BY <1>1, <1>2, <1>3 DEF AnalyzeCall

LEMMA BranchChecks ==
  ASSUME NEW l \in Seq(Tokens), NEW a \in 1 .. Len(l) + 1, NEW f, NEW g,
         ChecksAfter(l, f, a), SameAfter(l, f, g, a),
         NEW n \in {2, 3}, AtLeast(l, a, n)
  PROVE  /\ AnalyzeBranch(l, f, a, n) = AnalyzeBranch(l, g, a, n)
         /\ AnalyzeBranch(l, f, a, n).checks \subseteq a .. Len(l)
         /\ AnalyzeBranch(l, f, a, n).rest \in a + n .. Len(l) + 1
<1>. DEFINE kw == a + n - 1
            Run(h) == IF is_any_run_keyword(l[kw]) THEN h[a + n][kw] ELSE [checks |-> {}, rest |-> a + n]
<1>1. Len(l) \in Nat /\ kw \in a .. Len(l) /\ kw \in 0 .. Len(l) /\ a + n \in a + 1 .. Len(l) + 1
  BY DEF AtLeast, NoArguments
<1>2. f[a + n] = g[a + n] /\ ChecksAt(l, f[a + n][kw], a + n)
  BY <1>1 DEF ChecksAfter, SameAfter
<1>3. Run(f) = Run(g) /\ ChecksAt(l, Run(f), a + n)
  BY <1>1, <1>2 DEF ChecksAt
<1>4. Run(f).rest \in 1 .. Len(l) + 1 /\ Run(f).rest >= a + n /\ Run(f).checks \subseteq a .. Len(l)
  BY <1>1, <1>3 DEF ChecksAt
<1>. HIDE DEF Run
<1>5. skip_args(l, Run(f).rest) \in a + n .. Len(l) + 1
  BY <1>1, <1>4, SkipArgsIn
<1>6. \A h : AnalyzeBranch(l, h, a, n) = [checks |-> {kw} \union Run(h).checks, rest |-> skip_args(l, Run(h).rest)]
  BY DEF AnalyzeBranch, Run
<1>7. AnalyzeBranch(l, f, a, n).checks = {kw} \union Run(f).checks
  BY <1>6
<1>8. AnalyzeBranch(l, f, a, n).rest = skip_args(l, Run(f).rest)
  BY <1>6
<1>. QED BY <1>1, <1>3, <1>4, <1>5, <1>6, <1>7, <1>8

LEMMA FromChecks ==
  ASSUME NEW l \in Seq(Tokens), NEW a \in 1 .. Len(l) + 1, NEW f, NEW g,
         ChecksAfter(l, f, a), SameAfter(l, f, g, a),
         NEW n \in {2, 3}, AtLeast(l, a, n)
  PROVE  /\ AnalyzeFrom(l, f, a, n) = AnalyzeFrom(l, g, a, n)
         /\ ChecksAt(l, AnalyzeFrom(l, f, a, n), a)
<1>. DEFINE b == AnalyzeBranch(l, f, a, n)
            more == f[b.rest][Branches]
<1>1. Len(l) \in Nat /\ 0 \in 0 .. Len(l)
  OBVIOUS
<1>2. /\ b = AnalyzeBranch(l, g, a, n) /\ b.checks \subseteq a .. Len(l)
      /\ b.rest \in a + n .. Len(l) + 1
  BY BranchChecks
<1>. HIDE DEF b
<1>3. b.rest \in a + 1 .. Len(l) + 1
  BY <1>1, <1>2
<1>4. f[b.rest] = g[b.rest] /\ ChecksAt(l, more, b.rest)
  BY <1>1, <1>3 DEF ChecksAfter, SameAfter, Branches
<1>5. more.checks \subseteq a .. Len(l) /\ more.rest \in a .. Len(l) + 1
  BY <1>1, <1>3, <1>4 DEF ChecksAt
<1>6. AnalyzeFrom(l, f, a, n) = [checks |-> b.checks \union more.checks, rest |-> more.rest]
  BY DEF AnalyzeFrom, b
<1>7. AnalyzeFrom(l, g, a, n) = [checks |-> b.checks \union more.checks, rest |-> more.rest]
  BY <1>2, <1>4 DEF AnalyzeFrom
<1>. HIDE DEF more
<1>8. AnalyzeFrom(l, f, a, n).checks = b.checks \union more.checks /\ AnalyzeFrom(l, f, a, n).rest = more.rest
  BY <1>6
<1>. QED BY <1>2, <1>5, <1>6, <1>7, <1>8 DEF ChecksAt

LEMMA AnalyzedStep ==
  ASSUME NEW l \in Seq(Tokens), NEW a \in 1 .. Len(l) + 1, NEW f, NEW g,
         ChecksAfter(l, f, a), SameAfter(l, f, g, a), NEW p \in 0 .. Len(l)
  PROVE  Analyzed(l, f, p, a) = Analyzed(l, g, p, a) /\ ChecksAt(l, Analyzed(l, f, p, a), a)
<1>1. Len(l) \in Nat /\ a \in a .. Len(l) + 1
  OBVIOUS
<1>2. ChecksAt(l, [checks |-> {}, rest |-> a], a)
  BY <1>1 DEF ChecksAt
<1>3. /\ AnalyzeBranches(l, f, a) = AnalyzeBranches(l, g, a)
      /\ ChecksAt(l, AnalyzeBranches(l, f, a), a)
  <2>1. CASE AtLeast(l, a, 2) /\ l[a] = "ELSE"
    <3>1. AnalyzeBranches(l, f, a) = AnalyzeBranch(l, f, a, 2) /\ AnalyzeBranches(l, g, a) = AnalyzeBranch(l, g, a, 2)
      BY <2>1 DEF AnalyzeBranches
    <3>2. /\ AnalyzeBranch(l, f, a, 2) = AnalyzeBranch(l, g, a, 2)
          /\ AnalyzeBranch(l, f, a, 2).checks \subseteq a .. Len(l)
          /\ AnalyzeBranch(l, f, a, 2).rest \in a + 2 .. Len(l) + 1
      BY <2>1, BranchChecks
    <3>. QED BY <1>1, <3>1, <3>2 DEF ChecksAt
  <2>2. CASE ~(AtLeast(l, a, 2) /\ l[a] = "ELSE") /\ AtLeast(l, a, 3) /\ l[a] = "ELSE IF"
    <3>1. AnalyzeBranches(l, f, a) = AnalyzeFrom(l, f, a, 3) /\ AnalyzeBranches(l, g, a) = AnalyzeFrom(l, g, a, 3)
      BY <2>2 DEF AnalyzeBranches
    <3>. QED BY <2>2, <3>1, FromChecks
  <2>3. CASE ~(AtLeast(l, a, 2) /\ l[a] = "ELSE") /\ ~(AtLeast(l, a, 3) /\ l[a] = "ELSE IF")
    BY <1>2, <2>3 DEF AnalyzeBranches
  <2>. QED BY <2>1, <2>2, <2>3
<1>4. ASSUME p # 0
      PROVE  AnalyzeRun(l, f, p, a) = AnalyzeRun(l, g, p, a) /\ ChecksAt(l, AnalyzeRun(l, f, p, a), a)
  <2>. DEFINE One == is_run_keyword(l[p]) /\ Names(l, a, 1)
              Two == is_run_keyword_with_condition(l[p]) /\ Names(l, a, 2)
              Many == is_run_keywords(l[p])
              Cond == is_run_keyword_if(l[p]) /\ Names(l, a, 2)
              named == {k \in a .. Len(l) : is_non_variable_token(l[k])}
              Checked(h) == UNION {AnalyzeCall(l, h, k, NoArguments(l)) : k \in named}
  <2>1. CASE One
    <3>1. a + 1 \in a + 1 .. Len(l) + 1 /\ a \in a .. Len(l) /\ a + 1 \in a .. Len(l) + 1
      BY <2>1 DEF Names, AtLeast, NoArguments
    <3>2. AnalyzeCall(l, f, a, a + 1) = AnalyzeCall(l, g, a, a + 1) /\ AnalyzeCall(l, f, a, a + 1) \subseteq a .. Len(l)
      BY <3>1, CallChecks
    <3>3. \A h : AnalyzeRun(l, h, p, a) = [checks |-> AnalyzeCall(l, h, a, a + 1), rest |-> a + 1]
      BY <2>1 DEF AnalyzeRun
    <3>4. AnalyzeRun(l, f, p, a).checks = AnalyzeCall(l, f, a, a + 1) /\ AnalyzeRun(l, f, p, a).rest = a + 1
      BY <3>3
    <3>. QED BY <3>1, <3>2, <3>3, <3>4 DEF ChecksAt
  <2>2. CASE ~One /\ Two
    <3>1. a + 2 \in a + 1 .. Len(l) + 1 /\ a + 1 \in a .. Len(l) /\ a + 2 \in a .. Len(l) + 1
      BY <2>2 DEF Names, AtLeast, NoArguments
    <3>2. /\ AnalyzeCall(l, f, a + 1, a + 2) = AnalyzeCall(l, g, a + 1, a + 2)
          /\ AnalyzeCall(l, f, a + 1, a + 2) \subseteq a .. Len(l)
      BY <3>1, CallChecks
    <3>3. \A h : AnalyzeRun(l, h, p, a) = [checks |-> AnalyzeCall(l, h, a + 1, a + 2), rest |-> a + 2]
      BY <2>2 DEF AnalyzeRun
    <3>4. AnalyzeRun(l, f, p, a).checks = AnalyzeCall(l, f, a + 1, a + 2) /\ AnalyzeRun(l, f, p, a).rest = a + 2
      BY <3>3
    <3>. QED BY <3>1, <3>2, <3>3, <3>4 DEF ChecksAt
  <2>3. CASE ~One /\ ~Two /\ Many
    <3>1. ASSUME NEW k \in named
          PROVE  /\ AnalyzeCall(l, f, k, NoArguments(l)) = AnalyzeCall(l, g, k, NoArguments(l))
                 /\ AnalyzeCall(l, f, k, NoArguments(l)) \subseteq a .. Len(l)
      <4>1. NoArguments(l) \in a + 1 .. Len(l) + 1 /\ k \in a .. Len(l)
        BY <1>1 DEF NoArguments
      <4>. QED BY <4>1, CallChecks
    <3>2. Checked(f) = Checked(g) /\ Checked(f) \subseteq a .. Len(l)
      BY <3>1
    <3>3. \A h : AnalyzeRun(l, h, p, a) = [checks |-> Checked(h), rest |-> Len(l) + 1]
      BY <2>3 DEF AnalyzeRun, NoArguments
    <3>. HIDE DEF Checked
    <3>4. AnalyzeRun(l, f, p, a).checks = Checked(f) /\ AnalyzeRun(l, f, p, a).rest = Len(l) + 1
      BY <3>3
    <3>. QED BY <1>1, <3>2, <3>3, <3>4 DEF ChecksAt
  <2>4. CASE ~One /\ ~Two /\ ~Many /\ Cond
    <3>1. \A h : AnalyzeRun(l, h, p, a) = AnalyzeFrom(l, h, a, 2)
      BY <2>4 DEF AnalyzeRun
    <3>2. AtLeast(l, a, 2)
      BY <2>4 DEF Names
    <3>. QED BY <3>1, <3>2, FromChecks
  <2>5. CASE ~One /\ ~Two /\ ~Many /\ ~Cond
    <3>1. \A h : AnalyzeRun(l, h, p, a) = [checks |-> {}, rest |-> a]
      BY <2>5 DEF AnalyzeRun
    <3>. QED BY <1>2, <3>1
  <2>. HIDE DEF One, Two, Many, Cond
  <2>. QED BY <2>1, <2>2, <2>3, <2>4, <2>5
<1>. QED BY <1>3, <1>4 DEF Analyzed, Branches

(* The ends of a line with what is found there. *)
FindsAt(l, q, r, a) ==
  /\ r.found \in {Nothing, Raised, q} /\ r.rest \in a .. Len(l) + 1
  /\ r.found = q => IsKeyword(l[q])
FindsAfter(l, q, later, a) ==
  \A b \in a + 1 .. Len(l) + 1 : \A p \in 0 .. Len(l) : FindsAt(l, q, later[b][p], b)

LEMMA CallFinds ==
  ASSUME NEW l \in Seq(Tokens), NEW q \in 1 .. Len(l), NEW a \in 1 .. Len(l) + 1, NEW f, NEW g,
         FindsAfter(l, q, f, a), SameAfter(l, f, g, a),
         NEW p \in a .. Len(l), NEW b \in a + 1 .. Len(l) + 1, NEW rest \in a .. Len(l) + 1
  PROVE  /\ FindCall(l, q, f, p, b) = FindCall(l, q, g, p, b)
         /\ FindsAt(l, q, [found |-> FindCall(l, q, f, p, b), rest |-> rest], a)
<1>1. Len(l) \in Nat /\ p \in 0 .. Len(l)
  OBVIOUS
<1>2. f[b] = g[b] /\ FindsAt(l, q, f[b][p], b)
  BY <1>1 DEF FindsAfter, SameAfter
<1>3. FindCall(l, q, f, p, b) = FindCall(l, q, g, p, b)
  BY <1>2 DEF FindCall
<1>4. /\ FindCall(l, q, f, p, b) \in {Nothing, Raised, q}
      /\ FindCall(l, q, f, p, b) = q => IsKeyword(l[q])
  BY <1>2 DEF FindCall, FindsAt, Nothing
<1>. QED BY <1>3, <1>4 DEF FindsAt

LEMMA BranchFinds ==
  ASSUME NEW l \in Seq(Tokens), NEW q \in 1 .. Len(l), NEW a \in 1 .. Len(l) + 1, NEW f, NEW g,
         FindsAfter(l, q, f, a), SameAfter(l, f, g, a),
         NEW n \in {2, 3}, AtLeast(l, a, n)
  PROVE  /\ FindBranch(l, q, f, a, n) = FindBranch(l, q, g, a, n)
         /\ FindsAt(l, q, FindBranch(l, q, f, a, n), a)
         /\ FindBranch(l, q, f, a, n).rest \in a + n .. Len(l) + 1
<1>. DEFINE kw == a + n - 1
            run == f[a + n][kw]
<1>1. Len(l) \in Nat /\ kw \in 0 .. Len(l) /\ a + n \in a + 1 .. Len(l) + 1
  BY DEF AtLeast, NoArguments
<1>2. f[a + n] = g[a + n] /\ FindsAt(l, q, run, a + n)
  BY <1>1 DEF FindsAfter, SameAfter
<1>3. run.rest \in 1 .. Len(l) + 1 /\ run.rest >= a + n
  BY <1>1, <1>2 DEF FindsAt
<1>4. skip_args(l, run.rest) \in a + n .. Len(l) + 1
  <2>. HIDE DEF run
  <2>1. skip_args(l, run.rest) \in run.rest .. Len(l) + 1
    BY <1>3, SkipArgsIn
  <2>. QED BY <1>1, <1>3, <2>1
<1>5. FindBranch(l, q, f, a, n) = FindBranch(l, q, g, a, n)
  BY <1>2 DEF FindBranch
<1>6. FindsAt(l, q, FindBranch(l, q, f, a, n), a + n)
  <2>. DEFINE found == FindBranch(l, q, f, a, n)
  <2>1. CASE IsError(l[kw])
    <3>1. found = [found |-> Raised, rest |-> a + n]
      BY <2>1 DEF FindBranch
    <3>. QED BY <1>1, <3>1 DEF FindsAt, Raised
  <2>2. CASE ~IsError(l[kw]) /\ kw = q
    <3>1. found = [found |-> IF IsKeyword(l[kw]) THEN q ELSE Raised, rest |-> a + n]
      BY <2>2 DEF FindBranch
    <3>. QED BY <1>1, <2>2, <3>1 DEF FindsAt, Raised
  <2>3. CASE ~IsError(l[kw]) /\ kw # q /\ run.found # Nothing
    BY <1>2, <2>3 DEF FindBranch
  <2>4. CASE ~IsError(l[kw]) /\ kw # q /\ run.found = Nothing
    <3>1. found = [found |-> Nothing, rest |-> skip_args(l, run.rest)]
      BY <2>4 DEF FindBranch
    <3>. QED BY <1>4, <3>1 DEF FindsAt, Nothing
  <2>. QED BY <2>1, <2>2, <2>3, <2>4
<1>. QED BY <1>1, <1>5, <1>6 DEF FindsAt

LEMMA FromFinds ==
  ASSUME NEW l \in Seq(Tokens), NEW q \in 1 .. Len(l), NEW a \in 1 .. Len(l) + 1, NEW f, NEW g,
         FindsAfter(l, q, f, a), SameAfter(l, f, g, a),
         NEW n \in {2, 3}, AtLeast(l, a, n)
  PROVE  /\ FindFrom(l, q, f, a, n) = FindFrom(l, q, g, a, n)
         /\ FindsAt(l, q, FindFrom(l, q, f, a, n), a)
<1>. DEFINE b == FindBranch(l, q, f, a, n)
            more == f[b.rest][Branches]
<1>1. Len(l) \in Nat /\ 0 \in 0 .. Len(l)
  OBVIOUS
<1>2. b = FindBranch(l, q, g, a, n) /\ FindsAt(l, q, b, a) /\ b.rest \in a + n .. Len(l) + 1
  BY BranchFinds
<1>3. FindFrom(l, q, f, a, n) = IF b.found # Nothing THEN b ELSE more
  BY DEF FindFrom
<1>4. FindFrom(l, q, g, a, n) = IF b.found # Nothing THEN b ELSE g[b.rest][Branches]
  BY <1>2 DEF FindFrom
<1>. HIDE DEF b
<1>5. b.rest \in a + 1 .. Len(l) + 1
  BY <1>1, <1>2
<1>6. f[b.rest] = g[b.rest] /\ FindsAt(l, q, more, b.rest)
  BY <1>1, <1>5 DEF FindsAfter, SameAfter, Branches
<1>7. FindsAt(l, q, more, a)
  BY <1>1, <1>5, <1>6 DEF FindsAt
<1>. QED BY <1>2, <1>3, <1>4, <1>6, <1>7

LEMMA FoundStep ==
  ASSUME NEW l \in Seq(Tokens), NEW q \in 1 .. Len(l), NEW a \in 1 .. Len(l) + 1, NEW f, NEW g,
         FindsAfter(l, q, f, a), SameAfter(l, f, g, a), NEW p \in 0 .. Len(l)
  PROVE  FoundAt(l, q, f, p, a) = FoundAt(l, q, g, p, a) /\ FindsAt(l, q, FoundAt(l, q, f, p, a), a)
<1>1. Len(l) \in Nat /\ a \in a .. Len(l) + 1 /\ Nothing # q
  BY DEF Nothing
<1>2. \A rest \in a .. Len(l) + 1 : FindsAt(l, q, [found |-> Nothing, rest |-> rest], a)
  BY <1>1 DEF FindsAt
<1>3. /\ FindBranches(l, q, f, a) = FindBranches(l, q, g, a)
      /\ FindsAt(l, q, FindBranches(l, q, f, a), a)
  <2>1. CASE AtLeast(l, a, 2) /\ l[a] = "ELSE"
    <3>1. \A h : FindBranches(l, q, h, a) = FindBranch(l, q, h, a, 2)
      BY <2>1 DEF FindBranches
    <3>. QED BY <2>1, <3>1, BranchFinds
  <2>2. CASE ~(AtLeast(l, a, 2) /\ l[a] = "ELSE") /\ AtLeast(l, a, 3) /\ l[a] = "ELSE IF"
    <3>1. \A h : FindBranches(l, q, h, a) = FindFrom(l, q, h, a, 3)
      BY <2>2 DEF FindBranches
    <3>. QED BY <2>2, <3>1, FromFinds
  <2>3. CASE ~(AtLeast(l, a, 2) /\ l[a] = "ELSE") /\ ~(AtLeast(l, a, 3) /\ l[a] = "ELSE IF")
    BY <1>1, <1>2, <2>3 DEF FindBranches
  <2>. QED BY <2>1, <2>2, <2>3
<1>4. ASSUME p # 0
      PROVE  FindRun(l, q, f, p, a) = FindRun(l, q, g, p, a) /\ FindsAt(l, q, FindRun(l, q, f, p, a), a)
  <2>. DEFINE One == is_run_keyword(l[p]) /\ Names(l, a, 1)
              Two == is_run_keyword_with_condition(l[p]) /\ Names(l, a, 2)
              Many == is_run_keywords(l[p])
              Cond == is_run_keyword_if(l[p]) /\ Names(l, a, 2)
  <2>1. CASE One
    <3>1. a + 1 \in a + 1 .. Len(l) + 1 /\ a \in a .. Len(l) /\ a + 1 \in a .. Len(l) + 1
      BY <2>1 DEF Names, AtLeast, NoArguments
    <3>2. \A h : FindRun(l, q, h, p, a) = [found |-> FindCall(l, q, h, a, a + 1), rest |-> a + 1]
      BY <2>1 DEF FindRun
    <3>. QED BY <3>1, <3>2, CallFinds
  <2>2. CASE ~One /\ Two
    <3>1. a + 2 \in a + 1 .. Len(l) + 1 /\ a + 1 \in a .. Len(l) /\ a + 2 \in a .. Len(l) + 1
      BY <2>2 DEF Names, AtLeast, NoArguments
    <3>2. \A h : FindRun(l, q, h, p, a) = [found |-> FindCall(l, q, h, a + 1, a + 2), rest |-> a + 2]
      BY <2>2 DEF FindRun
    <3>. QED BY <3>1, <3>2, CallFinds
  <2>3. CASE ~One /\ ~Two /\ Many /\ q \in a .. Len(l) /\ is_non_variable_token(l[q])
    <3>1. NoArguments(l) \in a + 1 .. Len(l) + 1 /\ q + 1 \in a .. Len(l) + 1
      BY <2>3 DEF NoArguments
    <3>2. \A h : FindRun(l, q, h, p, a) = [found |-> FindCall(l, q, h, q, NoArguments(l)), rest |-> q + 1]
      BY <2>3 DEF FindRun
    <3>. QED BY <2>3, <3>1, <3>2, CallFinds
  <2>4. CASE ~One /\ ~Two /\ Many /\ ~(q \in a .. Len(l) /\ is_non_variable_token(l[q]))
    <3>1. \A h : FindRun(l, q, h, p, a) = [found |-> Nothing, rest |-> Len(l) + 1]
      BY <2>4 DEF FindRun, NoArguments
    <3>2. Len(l) + 1 \in a .. Len(l) + 1
      BY <1>1
    <3>. QED BY <1>2, <3>1, <3>2
  <2>5. CASE ~One /\ ~Two /\ ~Many /\ Cond
    <3>1. \A h : FindRun(l, q, h, p, a) = FindFrom(l, q, h, a, 2)
      BY <2>5 DEF FindRun
    <3>2. AtLeast(l, a, 2)
      BY <2>5 DEF Names
    <3>. QED BY <3>1, <3>2, FromFinds
  <2>6. CASE ~One /\ ~Two /\ ~Many /\ ~Cond
    <3>1. \A h : FindRun(l, q, h, p, a) = [found |-> Nothing, rest |-> a]
      BY <2>6 DEF FindRun
    <3>. QED BY <1>1, <1>2, <3>1
  <2>. HIDE DEF One, Two, Many, Cond
  <2>. QED BY <2>1, <2>2, <2>3, <2>4, <2>5, <2>6
<1>. QED BY <1>3, <1>4 DEF FoundAt, Branches

-----------------------------------------------------------------------------
(* The two walks have the tables that define them. *)
Walks == {"analysis", "search"}
Walked(w, l, q, later, p, a) ==
  IF w = "analysis" THEN Analyzed(l, later, p, a) ELSE FoundAt(l, q, later, p, a)
ResultAt(w, l, q, r, a) == IF w = "analysis" THEN ChecksAt(l, r, a) ELSE FindsAt(l, q, r, a)
ResultsFrom(w, l, q, later, a) ==
  \A b \in a .. Len(l) + 1 : \A p \in 0 .. Len(l) : ResultAt(w, l, q, later[b][p], b)

Row(w, l, q, later, a) == [p \in 0 .. Len(l) |-> Walked(w, l, q, later, p, a)]
RowsFrom(w, l, q, later, a) == \A b \in a .. Len(l) + 1 : later[b] = Row(w, l, q, later, b)

LEMMA WalkedStep ==
  ASSUME NEW w \in Walks, NEW l \in Seq(Tokens), NEW q \in 1 .. Len(l), NEW a \in 1 .. Len(l) + 1, NEW f, NEW g,
         ResultsFrom(w, l, q, f, a + 1), SameAfter(l, f, g, a)
  PROVE  /\ Row(w, l, q, f, a) = Row(w, l, q, g, a)
         /\ \A p \in 0 .. Len(l) : ResultAt(w, l, q, Row(w, l, q, f, a)[p], a)
<1>1. ASSUME NEW p \in 0 .. Len(l)
      PROVE  /\ Walked(w, l, q, f, p, a) = Walked(w, l, q, g, p, a)
             /\ ResultAt(w, l, q, Walked(w, l, q, f, p, a), a)
  <2>1. CASE w = "analysis"
    <3>1. ChecksAfter(l, f, a)
      BY <2>1 DEF ResultsFrom, ResultAt, ChecksAfter
    <3>. QED BY <2>1, <3>1, AnalyzedStep DEF Walked, ResultAt
  <2>2. CASE w # "analysis"
    <3>1. FindsAfter(l, q, f, a)
      BY <2>2 DEF ResultsFrom, ResultAt, FindsAfter
    <3>. QED BY <2>2, <3>1, FoundStep DEF Walked, ResultAt
  <2>. QED BY <2>1, <2>2
<1>. QED BY <1>1 DEF Row

LEMMA TableExists ==
  ASSUME NEW w \in Walks, NEW l \in Seq(Tokens), NEW q \in 1 .. Len(l)
  PROVE  \E f : f = [a \in 1 .. Len(l) + 1 |-> Row(w, l, q, f, a)]
<1>. DEFINE Holds(f, a) == RowsFrom(w, l, q, f, a) /\ ResultsFrom(w, l, q, f, a)
            T == {a \in 1 .. Len(l) + 1 : \E f : Holds(f, a)}
<1>1. Len(l) \in Nat
  OBVIOUS
<1>2. ASSUME NEW a \in 1 .. Len(l) + 1, \A b \in a + 1 .. Len(l) + 1 : b \in T
      PROVE  \E f : Holds(f, a)
  <2>1. PICK f : Holds(f, a + 1)
    <3>1. CASE a + 1 \in a + 1 .. Len(l) + 1
      BY <1>2, <3>1
    <3>2. CASE a + 1 \notin a + 1 .. Len(l) + 1
      <4>1. a + 1 .. Len(l) + 1 = {}
        BY <1>1, <3>2
      <4>. QED BY <4>1 DEF RowsFrom, ResultsFrom
    <3>. QED BY <3>1, <3>2
  <2>. DEFINE g == [b \in 1 .. Len(l) + 1 |-> IF b = a THEN Row(w, l, q, f, a) ELSE f[b]]
  <2>2. g[a] = Row(w, l, q, f, a) /\ \A b \in a + 1 .. Len(l) + 1 : g[b] = f[b]
    BY <1>1
  <2>. HIDE DEF g
  <2>3. ASSUME NEW b \in a .. Len(l) + 1
        PROVE  /\ g[b] = Row(w, l, q, g, b) /\ \A p \in 0 .. Len(l) : ResultAt(w, l, q, g[b][p], b)
    <3>1. SameAfter(l, f, g, b) /\ b \in 1 .. Len(l) + 1
      BY <1>1, <2>2 DEF SameAfter
    <3>2. ResultsFrom(w, l, q, f, b + 1)
      BY <1>1, <2>1 DEF ResultsFrom
    <3>3. /\ Row(w, l, q, f, b) = Row(w, l, q, g, b)
          /\ \A p \in 0 .. Len(l) : ResultAt(w, l, q, Row(w, l, q, f, b)[p], b)
      BY <3>1, <3>2, WalkedStep
    <3>4. g[b] = Row(w, l, q, f, b)
      <4>1. CASE b = a
        BY <2>2, <4>1
      <4>2. CASE b # a
        <5>1. b \in a + 1 .. Len(l) + 1
          BY <1>1, <4>2
        <5>. QED BY <2>1, <2>2, <5>1 DEF RowsFrom
      <4>. QED BY <4>1, <4>2
    <3>. QED BY <3>3, <3>4
  <2>4. Holds(g, a)
    BY <2>3 DEF RowsFrom, ResultsFrom
  <2>. QED BY <2>4
<1>. HIDE DEF Holds
<1>3. \A a \in 1 .. Len(l) + 1 : (\A b \in a + 1 .. Len(l) + 1 : b \in T) => a \in T
  BY <1>2
<1>. HIDE DEF T
<1>4. 1 \in T
  <2>1. \A a \in 1 .. Len(l) + 1 : a \in T
    BY <1>1, <1>3, FromTheEnd
  <2>. QED BY <1>1, <2>1
<1>5. PICK f : Holds(f, 1)
  BY <1>4 DEF T
<1>. DEFINE g == [a \in 1 .. Len(l) + 1 |-> f[a]]
<1>6. \A a \in 1 .. Len(l) + 1 : SameAfter(l, f, g, a) /\ ResultsFrom(w, l, q, f, a + 1)
  BY <1>1, <1>5 DEF SameAfter, ResultsFrom, Holds
<1>7. \A a \in 1 .. Len(l) + 1 : Row(w, l, q, f, a) = Row(w, l, q, g, a)
  <2>. HIDE DEF g
  <2>. QED BY <1>6, WalkedStep
<1>8. \A a \in 1 .. Len(l) + 1 : f[a] = Row(w, l, q, f, a)
  BY <1>5 DEF RowsFrom, Holds
<1>9. g = [a \in 1 .. Len(l) + 1 |-> Row(w, l, q, g, a)]
  BY <1>7, <1>8
<1>. QED BY <1>9

LEMMA TableIs ==
  ASSUME NEW w \in Walks, NEW l \in Seq(Tokens), NEW q \in 1 .. Len(l),
         NEW f, f = [a \in 1 .. Len(l) + 1 |-> Row(w, l, q, f, a)]
  PROVE  RowsFrom(w, l, q, f, 1) /\ ResultsFrom(w, l, q, f, 1)
<1>. DEFINE T == {a \in 1 .. Len(l) + 1 : ResultsFrom(w, l, q, f, a)}
<1>1. Len(l) \in Nat
  OBVIOUS
<1>2. \A a \in 1 .. Len(l) + 1 : f[a] = Row(w, l, q, f, a)
  OBVIOUS
<1>3. ASSUME NEW a \in 1 .. Len(l) + 1, \A b \in a + 1 .. Len(l) + 1 : b \in T
      PROVE  ResultsFrom(w, l, q, f, a)
  <2>1. ResultsFrom(w, l, q, f, a + 1)
    <3>1. \A b \in a + 1 .. Len(l) + 1 : b \in b .. Len(l) + 1
      BY <1>1
    <3>. QED BY <1>3, <3>1 DEF ResultsFrom
  <2>2. SameAfter(l, f, f, a)
    BY DEF SameAfter
  <2>3. \A p \in 0 .. Len(l) : ResultAt(w, l, q, f[a][p], a)
    BY <1>2, <2>1, <2>2, WalkedStep
  <2>4. \A b \in a .. Len(l) + 1 : b = a \/ b \in a + 1 .. Len(l) + 1
    BY <1>1
  <2>. QED BY <2>1, <2>3, <2>4 DEF ResultsFrom
<1>4. \A a \in 1 .. Len(l) + 1 : (\A b \in a + 1 .. Len(l) + 1 : b \in T) => a \in T
  BY <1>3
<1>. HIDE DEF T
<1>5. 1 \in T
  <2>1. \A a \in 1 .. Len(l) + 1 : a \in T
    BY <1>1, <1>4, FromTheEnd
  <2>. QED BY <1>1, <2>1
<1>. QED BY <1>2, <1>5 DEF T, RowsFrom

LEMMA CheckingIs ==
  ASSUME NEW l \in Seq(Tokens), NEW q \in 1 .. Len(l)
  PROVE  RowsFrom("analysis", l, q, Checking(l), 1) /\ ResultsFrom("analysis", l, q, Checking(l), 1)
<1>. DEFINE Is(f) == f = [a \in 1 .. Len(l) + 1 |->
                          [p \in 0 .. Len(l) |-> IF p = Branches THEN AnalyzeBranches(l, f, a)
                                                 ELSE AnalyzeRun(l, f, p, a)]]
            table == CHOOSE f : Is(f)
<1>1. \A f : Is(f) <=> f = [a \in 1 .. Len(l) + 1 |-> Row("analysis", l, q, f, a)]
  BY DEF Row, Walked, Analyzed
<1>2. \E f : Is(f)
  BY <1>1, TableExists DEF Walks
<1>3. Is(table)
  BY <1>2
<1>4. Checking(l) = table
  BY DEF Checking, NoArguments
<1>. HIDE DEF Is, table
<1>. QED BY <1>1, <1>3, <1>4, TableIs DEF Walks

LEMMA SearchIs ==
  ASSUME NEW l \in Seq(Tokens), NEW q \in 1 .. Len(l)
  PROVE  RowsFrom("search", l, q, Search(l, q), 1) /\ ResultsFrom("search", l, q, Search(l, q), 1)
<1>. DEFINE Is(f) == f = [a \in 1 .. Len(l) + 1 |->
                          [p \in 0 .. Len(l) |-> IF p = Branches THEN FindBranches(l, q, f, a)
                                                 ELSE FindRun(l, q, f, p, a)]]
            table == CHOOSE f : Is(f)
<1>1. \A f : Is(f) <=> f = [a \in 1 .. Len(l) + 1 |-> Row("search", l, q, f, a)]
  BY DEF Row, Walked, FoundAt
<1>2. \E f : Is(f)
  BY <1>1, TableExists DEF Walks
<1>3. Is(table)
  BY <1>2
<1>4. Search(l, q) = table
  BY DEF Search, NoArguments
<1>. HIDE DEF Is, table
<1>. QED BY <1>1, <1>3, <1>4, TableIs DEF Walks

-----------------------------------------------------------------------------
(* Both walks of one line. *)
Tables(l, q, A, F) ==
  /\ \A a \in 1 .. Len(l) + 1 : \A p \in 0 .. Len(l) :
       /\ A[a][p] = Analyzed(l, A, p, a) /\ ChecksAt(l, A[a][p], a)
       /\ F[a][p] = FoundAt(l, q, F, p, a) /\ FindsAt(l, q, F[a][p], a)

LEMMA BothWalks ==
  ASSUME NEW l \in Seq(Tokens), NEW q \in 1 .. Len(l)
  PROVE  Tables(l, q, Checking(l), Search(l, q))
<1>1. Len(l) \in Nat
  OBVIOUS
<1>2. RowsFrom("analysis", l, q, Checking(l), 1) /\ ResultsFrom("analysis", l, q, Checking(l), 1)
  BY CheckingIs
<1>3. RowsFrom("search", l, q, Search(l, q), 1) /\ ResultsFrom("search", l, q, Search(l, q), 1)
  BY SearchIs
<1>. QED BY <1>1, <1>2, <1>3 DEF Tables, RowsFrom, ResultsFrom, ResultAt, Row, Walked

NoneTwice(l, q) == \A p \in 1 .. q - 1 : l[p] # "Twice"

(* The walk of the analysis, with the result c, and that of the search, with the result f, agree. *)
Agree(l, q, c, f) ==
  /\ f.found = q => q \in c.checks
  /\ q \in c.checks /\ NoneTwice(l, q) => f.found = q
  /\ f.found = Nothing => f.rest = c.rest
  /\ f.found = Raised => \E p \in 1 .. Len(l) : p < c.rest /\ l[p] = "Twice"
AgreeAfter(l, q, A, F, a) ==
  \A b \in a + 1 .. Len(l) + 1 : \A p \in 0 .. Len(l) : Agree(l, q, A[b][p], F[b][p])

LEMMA NoneAmong ==
  ASSUME NEW l \in Seq(Tokens), NEW q \in 1 .. Len(l), NoneTwice(l, q),
         NEW p \in 1 .. Len(l), l[p] = "Twice"
  PROVE  q <= p
<1>1. Len(l) \in Nat
  OBVIOUS
<1>2. p \notin 1 .. q - 1
  BY DEF NoneTwice
<1>. QED BY <1>1, <1>2

LEMMA KeywordFound ==
  ASSUME NEW l \in Seq(Tokens), NEW q \in 1 .. Len(l), IsKeyword(l[q])
  PROVE  l[q] # "Twice" /\ is_non_variable_token(l[q]) /\ q # Nothing /\ q # Raised /\ Nothing # Raised
<1>1. q \in Nat /\ q > 0
  OBVIOUS
<1>2. l[q] # "Twice" /\ l[q] # "${x}"
  BY DEF IsKeyword, is_any_run_keyword
<1>3. Nothing # Raised
  BY DEF Nothing, Raised
<1>4. q # Nothing /\ q # Raised
  BY <1>1 DEF Nothing, Raised
<1>5. is_non_variable_token(l[q])
  BY <1>2 DEF is_non_variable_token
<1>. QED BY <1>2, <1>3, <1>4, <1>5

(* A keyword that runs no others leaves its arguments. *)
Quiet(c, f, b) == c = [checks |-> {}, rest |-> b] /\ f = [found |-> Nothing, rest |-> b]

LEMMA RunsNothing ==
  ASSUME NEW l \in Seq(Tokens), NEW q \in 1 .. Len(l), NEW A, NEW F, Tables(l, q, A, F),
         NEW b \in 1 .. Len(l) + 1, NEW p \in 1 .. Len(l), ~is_any_run_keyword(l[p])
  PROVE  Quiet(A[b][p], F[b][p], b)
<1>1. p \in 0 .. Len(l) /\ p # 0
  OBVIOUS
<1>2. A[b][p] = AnalyzeRun(l, A, p, b) /\ F[b][p] = FindRun(l, q, F, p, b)
  BY <1>1 DEF Tables, Analyzed, FoundAt, Branches
<1>3. ~is_run_keyword(l[p]) /\ ~is_run_keyword_with_condition(l[p]) /\ ~is_run_keywords(l[p]) /\ ~is_run_keyword_if(l[p])
  BY DEF is_any_run_keyword, is_run_keyword, is_run_keyword_with_condition, is_run_keywords, is_run_keyword_if
<1>4. A[b][p] = [checks |-> {}, rest |-> b]
  BY <1>2, <1>3 DEF AnalyzeRun
<1>5. F[b][p] = [found |-> Nothing, rest |-> b]
  BY <1>2, <1>3 DEF FindRun
<1>. QED BY <1>4, <1>5 DEF Quiet

LEMMA CallsAgree ==
  ASSUME NEW l \in Seq(Tokens), NEW q \in 1 .. Len(l), IsKeyword(l[q]), NEW A, NEW F, Tables(l, q, A, F),
         NEW p \in 1 .. Len(l), NEW b \in 1 .. Len(l) + 1, Agree(l, q, A[b][p], F[b][p])
  PROVE  /\ FindCall(l, q, F, p, b) = q => q \in AnalyzeCall(l, A, p, b)
         /\ q \in AnalyzeCall(l, A, p, b) /\ NoneTwice(l, q) => FindCall(l, q, F, p, b) = q
         /\ FindCall(l, q, F, p, b) # Raised
<1>1. q # Nothing /\ q # Raised /\ Nothing # Raised
  BY KeywordFound
<1>2. CASE is_any_run_keyword(l[p])
  <2>1. IsKeyword(l[p])
    BY <1>2 DEF IsKeyword
  <2>. QED BY <1>1, <1>2, <2>1 DEF AnalyzeCall, FindCall, Agree
<1>3. CASE ~is_any_run_keyword(l[p])
  <2>1. F[b][p].found = Nothing
    <3>1. Quiet(A[b][p], F[b][p], b)
      BY <1>3, RunsNothing
    <3>. QED BY <3>1 DEF Quiet
  <2>2. AnalyzeCall(l, A, p, b) = {p}
    BY <1>3 DEF AnalyzeCall
  <2>. QED BY <1>1, <2>1, <2>2 DEF FindCall
<1>. QED BY <1>2, <1>3

LEMMA BranchesAgree ==
  ASSUME NEW l \in Seq(Tokens), NEW q \in 1 .. Len(l), IsKeyword(l[q]), NEW A, NEW F, Tables(l, q, A, F),
         NEW a \in 1 .. Len(l) + 1, AgreeAfter(l, q, A, F, a), NEW n \in {2, 3}, AtLeast(l, a, n)
  PROVE  Agree(l, q, AnalyzeBranch(l, A, a, n), FindBranch(l, q, F, a, n))
<1>. DEFINE kw == a + n - 1
            c == A[a + n][kw]
            run == F[a + n][kw]
            left == skip_args(l, c.rest)
<1>1. Len(l) \in Nat /\ kw \in 1 .. Len(l) /\ kw \in 0 .. Len(l) /\ a + n \in 1 .. Len(l) + 1 /\ a + n \in a + 1 .. Len(l) + 1
  BY DEF AtLeast, NoArguments
<1>2. Agree(l, q, c, run) /\ ChecksAt(l, c, a + n)
  BY <1>1 DEF AgreeAfter, Tables
<1>3. AnalyzeBranch(l, A, a, n) = [checks |-> {kw} \union c.checks, rest |-> left]
  <2>1. CASE is_any_run_keyword(l[kw])
    BY <2>1 DEF AnalyzeBranch
  <2>2. CASE ~is_any_run_keyword(l[kw])
    <3>1. c = [checks |-> {}, rest |-> a + n]
      <4>1. Quiet(c, run, a + n)
        BY <1>1, <2>2, RunsNothing
      <4>. QED BY <4>1 DEF Quiet
    <3>. QED BY <2>2, <3>1 DEF AnalyzeBranch
  <2>. QED BY <2>1, <2>2
<1>4. c.rest \in 1 .. Len(l) + 1 /\ c.rest >= a + n /\ c.checks \subseteq a + n .. Len(l)
  BY <1>1, <1>2 DEF ChecksAt
<1>5. left \in c.rest .. Len(l) + 1
  BY <1>4, SkipArgsIn
<1>6. q # Nothing /\ q # Raised /\ Nothing # Raised /\ l[q] # "Twice"
  BY KeywordFound
<1>7. CASE IsError(l[kw])
  <2>1. FindBranch(l, q, F, a, n) = [found |-> Raised, rest |-> a + n]
    BY <1>7 DEF FindBranch
  <2>2. l[kw] = "Twice" /\ kw < left
    <3>. HIDE DEF c, left
    <3>. QED BY <1>1, <1>4, <1>5, <1>7 DEF IsError
  <2>3. NoneTwice(l, q) => q \notin {kw} \union c.checks
    <3>1. SUFFICES ASSUME NoneTwice(l, q) PROVE q \notin {kw} \union c.checks
      OBVIOUS
    <3>2. q <= kw /\ q # kw
      BY <1>1, <1>6, <2>2, <3>1, NoneAmong
    <3>. HIDE DEF c
    <3>. QED BY <1>1, <1>4, <3>2
  <2>. HIDE DEF c, left
  <2>. QED BY <1>1, <1>3, <1>6, <2>1, <2>2, <2>3 DEF Agree
<1>8. CASE ~IsError(l[kw]) /\ kw = q
  <2>1. FindBranch(l, q, F, a, n) = [found |-> q, rest |-> a + n]
    BY <1>8 DEF FindBranch
  <2>. HIDE DEF c, left
  <2>. QED BY <1>3, <1>6, <1>8, <2>1 DEF Agree
<1>9. CASE ~IsError(l[kw]) /\ kw # q /\ run.found # Nothing
  <2>1. FindBranch(l, q, F, a, n) = run
    BY <1>9 DEF FindBranch
  <2>2. run.found = Raised => \E p \in 1 .. Len(l) : p < left /\ l[p] = "Twice"
    <3>. HIDE DEF c, run, left
    <3>. QED BY <1>1, <1>2, <1>4, <1>5 DEF Agree
  <2>. HIDE DEF c, run, left
  <2>. QED BY <1>2, <1>3, <1>9, <2>1, <2>2 DEF Agree
<1>10. CASE ~IsError(l[kw]) /\ kw # q /\ run.found = Nothing
  <2>1. FindBranch(l, q, F, a, n) = [found |-> Nothing, rest |-> skip_args(l, run.rest)]
    BY <1>10 DEF FindBranch
  <2>2. run.rest = c.rest
    BY <1>2, <1>10 DEF Agree
  <2>3. FindBranch(l, q, F, a, n) = [found |-> Nothing, rest |-> left]
    BY <2>1, <2>2
  <2>. HIDE DEF c, run, left
  <2>. QED BY <1>2, <1>3, <1>6, <1>10, <2>3 DEF Agree
<1>. QED BY <1>7, <1>8, <1>9, <1>10

LEMMA FromAgree ==
  ASSUME NEW l \in Seq(Tokens), NEW q \in 1 .. Len(l), IsKeyword(l[q]), NEW A, NEW F, Tables(l, q, A, F),
         NEW a \in 1 .. Len(l) + 1, AgreeAfter(l, q, A, F, a), NEW n \in {2, 3}, AtLeast(l, a, n)
  PROVE  Agree(l, q, AnalyzeFrom(l, A, a, n), FindFrom(l, q, F, a, n))
<1>. DEFINE c == AnalyzeBranch(l, A, a, n)
            b == FindBranch(l, q, F, a, n)
            more == A[c.rest][Branches]
            found == F[c.rest][Branches]
<1>1. Len(l) \in Nat /\ 0 \in 0 .. Len(l)
  OBVIOUS
<1>2. Agree(l, q, c, b)
  BY BranchesAgree
<1>3. c.rest \in a + n .. Len(l) + 1
  <2>1. ChecksAfter(l, A, a) /\ SameAfter(l, A, A, a)
    BY <1>1 DEF Tables, ChecksAfter, SameAfter
  <2>. QED BY <2>1, BranchChecks
<1>4. AnalyzeFrom(l, A, a, n) = [checks |-> c.checks \union more.checks, rest |-> more.rest]
  BY DEF AnalyzeFrom
<1>5. FindFrom(l, q, F, a, n) = IF b.found # Nothing THEN b ELSE F[b.rest][Branches]
  BY DEF FindFrom
<1>. HIDE DEF c, b
<1>6. c.rest \in a + 1 .. Len(l) + 1 /\ c.rest \in 1 .. Len(l) + 1
  BY <1>1, <1>3
<1>7. Agree(l, q, more, found) /\ ChecksAt(l, more, c.rest)
  BY <1>1, <1>6 DEF AgreeAfter, Tables, Branches
<1>8. more.checks \subseteq c.rest .. Len(l) /\ more.rest \in c.rest .. Len(l) + 1
  BY <1>7 DEF ChecksAt
<1>9. q # Nothing /\ q # Raised /\ Nothing # Raised
  BY KeywordFound
<1>. HIDE DEF more, found
<1>10. CASE b.found # Nothing
  <2>1. b.found = Raised => \E p \in 1 .. Len(l) : p < more.rest /\ l[p] = "Twice"
    BY <1>1, <1>2, <1>6, <1>8 DEF Agree
  <2>2. q \in more.checks /\ NoneTwice(l, q) => b.found # Raised
    <3>1. SUFFICES ASSUME q \in more.checks, NoneTwice(l, q), NEW p \in 1 .. Len(l), p < c.rest, l[p] = "Twice" PROVE FALSE
      BY <1>2 DEF Agree
    <3>2. q <= p /\ q >= c.rest
      BY <1>6, <1>8, <3>1, NoneAmong
    <3>. QED BY <1>1, <1>6, <3>1, <3>2
  <2>3. b.found \in {Nothing, Raised, q}
    <3>1. FindsAfter(l, q, F, a) /\ SameAfter(l, F, F, a)
      BY <1>1 DEF Tables, FindsAfter, SameAfter
    <3>2. FindsAt(l, q, b, a)
      BY <3>1, BranchFinds DEF b
    <3>. QED BY <3>2 DEF FindsAt
  <2>. QED BY <1>2, <1>4, <1>5, <1>9, <1>10, <2>1, <2>2, <2>3 DEF Agree
<1>11. CASE b.found = Nothing
  <2>1. FindFrom(l, q, F, a, n) = found
    BY <1>2, <1>5, <1>11 DEF Agree, found
  <2>. QED BY <1>2, <1>4, <1>7, <1>9, <1>11, <2>1 DEF Agree
<1>. QED BY <1>10, <1>11

LEMMA AgreeStep ==
  ASSUME NEW l \in Seq(Tokens), NEW q \in 1 .. Len(l), IsKeyword(l[q]), NEW A, NEW F, Tables(l, q, A, F),
         NEW a \in 1 .. Len(l) + 1, AgreeAfter(l, q, A, F, a), NEW p \in 0 .. Len(l)
  PROVE  Agree(l, q, A[a][p], F[a][p])
<1>1. Len(l) \in Nat
  OBVIOUS
<1>2. q # Nothing /\ q # Raised /\ Nothing # Raised /\ is_non_variable_token(l[q])
  BY KeywordFound
<1>3. A[a][p] = Analyzed(l, A, p, a) /\ F[a][p] = FoundAt(l, q, F, p, a)
  BY DEF Tables
<1>4. \A rest : Agree(l, q, [checks |-> {}, rest |-> rest], [found |-> Nothing, rest |-> rest])
  BY <1>2 DEF Agree
<1>5. Agree(l, q, AnalyzeBranches(l, A, a), FindBranches(l, q, F, a))
  <2>1. CASE AtLeast(l, a, 2) /\ l[a] = "ELSE"
    BY <2>1, BranchesAgree DEF AnalyzeBranches, FindBranches
  <2>2. CASE ~(AtLeast(l, a, 2) /\ l[a] = "ELSE") /\ AtLeast(l, a, 3) /\ l[a] = "ELSE IF"
    BY <2>2, FromAgree DEF AnalyzeBranches, FindBranches
  <2>3. CASE ~(AtLeast(l, a, 2) /\ l[a] = "ELSE") /\ ~(AtLeast(l, a, 3) /\ l[a] = "ELSE IF")
    BY <1>4, <2>3 DEF AnalyzeBranches, FindBranches
  <2>. QED BY <2>1, <2>2, <2>3
<1>6. ASSUME p # 0
      PROVE  Agree(l, q, AnalyzeRun(l, A, p, a), FindRun(l, q, F, p, a))
  <2>. DEFINE One == is_run_keyword(l[p]) /\ Names(l, a, 1)
              Two == is_run_keyword_with_condition(l[p]) /\ Names(l, a, 2)
              Many == is_run_keywords(l[p])
              Cond == is_run_keyword_if(l[p]) /\ Names(l, a, 2)
  <2>1. ASSUME NEW k \in a .. Len(l), NEW b \in a + 1 .. Len(l) + 1, NEW rest
        PROVE  Agree(l, q, [checks |-> AnalyzeCall(l, A, k, b), rest |-> rest],
                           [found |-> FindCall(l, q, F, k, b), rest |-> rest])
    <3>1. k \in 0 .. Len(l) /\ k \in 1 .. Len(l) /\ b \in 1 .. Len(l) + 1
      BY <1>1
    <3>2. Agree(l, q, A[b][k], F[b][k])
      BY <3>1 DEF AgreeAfter
    <3>. QED BY <3>1, <3>2, CallsAgree DEF Agree
  <2>2. CASE One
    <3>1. a + 1 \in a + 1 .. Len(l) + 1 /\ a \in a .. Len(l)
      BY <2>2 DEF Names, AtLeast, NoArguments
    <3>2. AnalyzeRun(l, A, p, a) = [checks |-> AnalyzeCall(l, A, a, a + 1), rest |-> a + 1]
      BY <2>2 DEF AnalyzeRun
    <3>3. FindRun(l, q, F, p, a) = [found |-> FindCall(l, q, F, a, a + 1), rest |-> a + 1]
      BY <2>2 DEF FindRun
    <3>. QED BY <2>1, <3>1, <3>2, <3>3
  <2>3. CASE ~One /\ Two
    <3>1. a + 2 \in a + 1 .. Len(l) + 1 /\ a + 1 \in a .. Len(l)
      BY <2>3 DEF Names, AtLeast, NoArguments
    <3>2. AnalyzeRun(l, A, p, a) = [checks |-> AnalyzeCall(l, A, a + 1, a + 2), rest |-> a + 2]
      BY <2>3 DEF AnalyzeRun
    <3>3. FindRun(l, q, F, p, a) = [found |-> FindCall(l, q, F, a + 1, a + 2), rest |-> a + 2]
      BY <2>3 DEF FindRun
    <3>. QED BY <2>1, <3>1, <3>2, <3>3
  <2>4. CASE ~One /\ ~Two /\ Many
    <3>. DEFINE named == {k \in a .. Len(l) : is_non_variable_token(l[k])}
                checks == UNION {AnalyzeCall(l, A, k, NoArguments(l)) : k \in named}
    <3>1. checks = named
      <4>1. ASSUME NEW k \in named PROVE AnalyzeCall(l, A, k, NoArguments(l)) = {k}
        <5>1. k \in 0 .. Len(l) /\ NoArguments(l) \in 1 .. Len(l) + 1
          BY <1>1 DEF NoArguments
        <5>2. ChecksAt(l, A[NoArguments(l)][k], NoArguments(l))
          BY <5>1 DEF Tables
        <5>3. A[NoArguments(l)][k].checks = {}
          BY <1>1, <5>2 DEF ChecksAt, NoArguments
        <5>. QED BY <5>3 DEF AnalyzeCall
      <4>. HIDE DEF named
      <4>. QED BY <4>1
    <3>2. AnalyzeRun(l, A, p, a) = [checks |-> named, rest |-> NoArguments(l)]
      <4>1. AnalyzeRun(l, A, p, a) = [checks |-> checks, rest |-> NoArguments(l)]
        BY <2>4 DEF AnalyzeRun
      <4>. QED BY <3>1, <4>1
    <3>3. CASE q \in a .. Len(l)
      <4>1. FindRun(l, q, F, p, a) = [found |-> FindCall(l, q, F, q, NoArguments(l)), rest |-> q + 1]
        BY <1>2, <2>4, <3>3 DEF FindRun
      <4>2. FindCall(l, q, F, q, NoArguments(l)) = q
        BY DEF FindCall
      <4>3. q \in named
        BY <1>2, <3>3
      <4>. HIDE DEF named
      <4>. QED BY <1>2, <3>2, <4>1, <4>2, <4>3 DEF Agree
    <3>4. CASE q \notin a .. Len(l)
      <4>1. FindRun(l, q, F, p, a) = [found |-> Nothing, rest |-> NoArguments(l)]
        BY <2>4, <3>4 DEF FindRun
      <4>2. q \notin named
        BY <3>4
      <4>. HIDE DEF named
      <4>. QED BY <1>2, <3>2, <4>1, <4>2 DEF Agree
    <3>. QED BY <3>3, <3>4
  <2>5. CASE ~One /\ ~Two /\ ~Many /\ Cond
    <3>1. AnalyzeRun(l, A, p, a) = AnalyzeFrom(l, A, a, 2)
      BY <2>5 DEF AnalyzeRun
    <3>2. FindRun(l, q, F, p, a) = FindFrom(l, q, F, a, 2)
      BY <2>5 DEF FindRun
    <3>3. AtLeast(l, a, 2)
      BY <2>5 DEF Names
    <3>. QED BY <3>1, <3>2, <3>3, FromAgree
  <2>6. CASE ~One /\ ~Two /\ ~Many /\ ~Cond
    <3>1. AnalyzeRun(l, A, p, a) = [checks |-> {}, rest |-> a]
      BY <2>6 DEF AnalyzeRun
    <3>2. FindRun(l, q, F, p, a) = [found |-> Nothing, rest |-> a]
      BY <2>6 DEF FindRun
    <3>. QED BY <1>4, <3>1, <3>2
  <2>. HIDE DEF One, Two, Many, Cond
  <2>. QED BY <2>2, <2>3, <2>4, <2>5, <2>6
<1>. QED BY <1>3, <1>5, <1>6 DEF Analyzed, FoundAt, Branches

LEMMA WalksAgree ==
  ASSUME NEW l \in Seq(Tokens), NEW q \in 1 .. Len(l), IsKeyword(l[q]), NEW A, NEW F, Tables(l, q, A, F)
  PROVE  \A a \in 1 .. Len(l) + 1 : \A p \in 0 .. Len(l) : Agree(l, q, A[a][p], F[a][p])
<1>. DEFINE T == {a \in 1 .. Len(l) + 1 : \A p \in 0 .. Len(l) : Agree(l, q, A[a][p], F[a][p])}
<1>1. Len(l) \in Nat
  OBVIOUS
<1>2. ASSUME NEW a \in 1 .. Len(l) + 1, \A b \in a + 1 .. Len(l) + 1 : b \in T
      PROVE  a \in T
  <2>1. AgreeAfter(l, q, A, F, a)
    BY <1>2 DEF AgreeAfter
  <2>. QED BY <2>1, AgreeStep
<1>. HIDE DEF T
<1>3. \A a \in 1 .. Len(l) + 1 : a \in T
  BY <1>1, <1>2, FromTheEnd
<1>. QED BY <1>3 DEF T

(* A call has been analysed as it stands. *)
rkInv == line \in Seq(Tokens) /\ checked = Analyze(line)

LEMMA HoverAgrees == rkInv => HoverAgreesWithAnalysis
<1>. SUFFICES ASSUME rkInv, NEW q \in DOMAIN line
              PROVE  /\ KeywordAt(line, q) => q \in checked /\ IsKeyword(line[q])
                     /\ (q \in checked /\ IsKeyword(line[q])) => (KeywordAt(line, q) \/ \E p \in 1 .. q - 1 : line[p] = "Twice")
  BY DEF HoverAgreesWithAnalysis
<1>. DEFINE A == Checking(line)
            F == Search(line, q)
<1>1. /\ line \in Seq(Tokens) /\ Len(line) \in Nat /\ q \in 1 .. Len(line) /\ line # <<>>
      /\ 1 \in 1 .. Len(line) /\ 1 \in 0 .. Len(line) /\ 2 \in 1 .. Len(line) + 1
  BY DEF rkInv
<1>2. checked = AnalyzeCall(line, A, 1, 2)
  BY <1>1 DEF rkInv, Analyze
<1>3. KeywordAt(line, q) <=> FindCall(line, q, F, 1, 2) = q
  BY DEF KeywordAt
<1>4. Tables(line, q, A, F)
  BY <1>1, BothWalks
<1>. HIDE DEF A, F
<1>5. KeywordAt(line, q) => IsKeyword(line[q])
  <2>1. FindsAt(line, q, F[2][1], 2)
    BY <1>1, <1>4 DEF Tables
  <2>. QED BY <1>1, <1>3, <2>1 DEF FindCall, FindsAt, Nothing
<1>6. ASSUME IsKeyword(line[q])
      PROVE  (KeywordAt(line, q) => q \in checked) /\ ((q \in checked /\ NoneTwice(line, q)) => KeywordAt(line, q))
  <2>1. Agree(line, q, A[2][1], F[2][1])
    BY <1>1, <1>4, <1>6, WalksAgree
  <2>. QED BY <1>1, <1>2, <1>3, <1>4, <1>6, <2>1, CallsAgree
<1>. QED BY <1>5, <1>6 DEF NoneTwice

(* HoverAgreesWithAnalysis: however long the call is and however deep its keywords run others, *)
(* hover and goto know the keywords that the analysis has looked up and found.                 *)
THEOREM HoverKnowsKeywords == rkSpec => []HoverAgreesWithAnalysis
<1>1. rkInit => rkInv
  BY DEF rkInit, rkInv, Analyze
<1>2. rkInv /\ [rkNext]_rkVars => rkInv'
  <2>1. ASSUME rkInv, NEW t \in Tokens, Type(t) PROVE rkInv'
    BY <2>1 DEF rkInv, Type
  <2>2. ASSUME rkInv, UNCHANGED rkVars PROVE rkInv'
    BY <2>2 DEF rkInv, rkVars
  <2>. QED BY <2>1, <2>2 DEF rkNext
<1>. QED BY <1>1, <1>2, HoverAgrees, PTL DEF rkSpec
=============================================================================
