------------------------- MODULE MCLanguageFeatures -------------------------
(* The requests about a document and what their answers rest on: a         *)
(* behaviour is one of the listeners, of the namespace, of the search for  *)
(* keywords or of a call that runs keywords.  The variables of the other   *)
(* modules keep the values they begin with.                                *)
EXTENDS LanguageFeatures, Namespace, KeywordSearch, RunKeywords
CONSTANTS r1, r2

VARIABLE part
allVars == <<part, lfVars, nsVars, ksVars, rkVars>>

\* The second request asks for what is cached.
MCFeatures == [r \in Requests |->
    IF r = r2 THEN {"semantic_tokens"}
    ELSE FeatureNames]

Import(n, f) == [name |-> n, file |-> f]
Layout(s, a, b, c) ==
    [f \in Files |-> CASE f = "s" -> s [] f = "a" -> a [] f = "b" -> b [] f = "c" -> c]

MCLayouts == {
    \* Nothing but a file that is not there.
    Layout(<<Import("x", "gone")>>, <<>>, <<>>, <<>>),
    \* A file by two names.
    Layout(<<Import("a", "a"), Import("b", "b")>>, <<Import("../b", "b")>>, <<>>, <<>>),
    \* Two files by one name.
    Layout(<<Import("a", "a"), Import("b", "b")>>, <<Import("b", "c")>>, <<>>, <<>>),
    \* A chain that comes back to its first files, and files that are not there.
    Layout(<<Import("a", "a"), Import("x", "gone"), Import("x", "gone")>>, <<Import("b", "b"), Import("y", "gone")>>,
           <<Import("c", "c"), Import("a", "a")>>, <<Import("s", "s")>>),
    \* The suite imports a file three times, and itself twice.
    Layout(<<Import("a", "a"), Import("a", "a"), Import("./a", "a"), Import("s", "s"), Import("s", "s")>>,
           <<>>, <<>>, <<>>)}

MCInit ==
    /\ part \in {"requests", "namespace", "search", "run keywords"}
    /\ lfInit /\ nsInit /\ ksInit /\ rkInit
    /\ part # "namespace" => imports = CHOOSE l \in Layouts : TRUE

Requesting == part = "requests" /\ lfNext /\ UNCHANGED <<part, nsVars, ksVars, rkVars>>
Importing_ == part = "namespace" /\ nsNext /\ UNCHANGED <<part, lfVars, ksVars, rkVars>>
Searching == part = "search" /\ ksNext /\ UNCHANGED <<part, lfVars, nsVars, rkVars>>
Walking == part = "run keywords" /\ rkNext /\ UNCHANGED <<part, lfVars, nsVars, ksVars>>

MCNext == Requesting \/ Importing_ \/ Searching \/ Walking

MCSpec == MCInit /\ [][MCNext]_allVars /\ lfFairness /\ nsFairness
=============================================================================
