---------------------------- MODULE RunKeywords ----------------------------
(***************************************************************************)
(* A keyword call whose keyword runs other keywords: Run Keyword If and    *)
(* the like take names of keywords, and their arguments, as arguments.     *)
(* The call is walked twice by separate code: the analysis checks every    *)
(* keyword in it, hover and goto look for the one at a position.  A line   *)
(* is the sequence of its tokens, a position the number of a token.        *)
(***************************************************************************)
EXTENDS Integers, Sequences, FiniteSetsExt

CONSTANTS MaxTokens     \* bound: tokens of a line

VARIABLES
    line,       \* the call: the keyword and its arguments
    checked     \* positions the analysis has looked up

rkVars == <<line, checked>>

\* One token of each sort: a keyword of each group of BuiltIn, one of another
\* library, the separators of Run Keyword If, a name that two keywords with
\* embedded arguments match, a variable.
Tokens == {"Run Keyword", "Run Keyword Unless", "Run Keywords", "Run Keyword If",
           "Log", "ELSE", "ELSE IF", "Twice", "${x}"}

is_run_keyword(t) == t = "Run Keyword"
is_run_keyword_with_condition(t) == t = "Run Keyword Unless"
is_run_keywords(t) == t = "Run Keywords"
is_run_keyword_if(t) == t = "Run Keyword If"
is_any_run_keyword(t) == t \in {"Run Keyword", "Run Keyword Unless", "Run Keywords", "Run Keyword If"}

\* What Namespace.find_keyword makes of a name: a keyword, nothing, an error.
IsKeyword(t) == t = "Log" \/ is_any_run_keyword(t)
IsError(t) == t = "Twice"
is_non_variable_token(t) == t # "${x}"

-----------------------------------------------------------------------------
(* The arguments that are left are the end of the line l: args is the      *)
(* position of the first one, and that behind the line when there are none. *)

NoArguments(l) == Len(l) + 1
AtLeast(l, args, n) == args + n <= NoArguments(l)

\* The n-th argument is there and may be a keyword.
Names(l, args, n) == AtLeast(l, args, n) /\ is_non_variable_token(l[args + n - 1])

\* The arguments from the next separator on.
skip_args(l, args) ==
    LET at == {p \in args .. Len(l) : l[p] \in {"ELSE", "ELSE IF"}} IN
    IF at = {} THEN NoArguments(l) ELSE Min(at)

-----------------------------------------------------------------------------
(* The analysis: what is checked, and the arguments that are left.         *)
(* later[args][p] is what the keyword at p runs with these arguments, and  *)
(* later[args][Branches] what the branches do that they begin with.  Every *)
(* call takes arguments, so that it needs only what is later in the line.  *)

Branches == 0

\* Analyzer._analyze_keyword_call: a keyword that is found may run others.
AnalyzeCall(l, later, p, args) ==
    {p} \union (IF is_any_run_keyword(l[p]) THEN later[args][p].checks ELSE {})

\* One branch of Run Keyword If: the keyword is the n-th argument.
AnalyzeBranch(l, later, args, n) ==
    LET kw == args + n - 1
        run == IF is_any_run_keyword(l[kw]) THEN later[args + n][kw] ELSE [checks |-> {}, rest |-> args + n]
    IN [checks |-> {kw} \union run.checks, rest |-> skip_args(l, run.rest)]

\* A branch and those that follow it.
AnalyzeFrom(l, later, args, n) ==
    LET b == AnalyzeBranch(l, later, args, n)
        more == later[b.rest][Branches]
    IN [checks |-> b.checks \union more.checks, rest |-> more.rest]

\* Mutant: the keyword after ELSE is not looked at.
AnalyzeBranchesSkippingElse(l, later, args) ==
    IF AtLeast(l, args, 3) /\ l[args] = "ELSE IF" THEN AnalyzeFrom(l, later, args, 3)
    ELSE [checks |-> {}, rest |-> args]

AnalyzeBranches(l, later, args) ==
    IF AtLeast(l, args, 2) /\ l[args] = "ELSE" THEN AnalyzeBranch(l, later, args, 2)
    ELSE IF AtLeast(l, args, 3) /\ l[args] = "ELSE IF" THEN AnalyzeFrom(l, later, args, 3)
    ELSE [checks |-> {}, rest |-> args]

\* Analyzer._analyse_run_keyword.
AnalyzeRun(l, later, p, args) ==
    IF is_run_keyword(l[p]) /\ Names(l, args, 1)
    THEN [checks |-> AnalyzeCall(l, later, args, args + 1), rest |-> args + 1]
    ELSE IF is_run_keyword_with_condition(l[p]) /\ Names(l, args, 2)
    THEN [checks |-> AnalyzeCall(l, later, args + 1, args + 2), rest |-> args + 2]
    ELSE IF is_run_keywords(l[p])
    THEN [checks |-> UNION {AnalyzeCall(l, later, a, NoArguments(l)) :
                            a \in {k \in args .. Len(l) : is_non_variable_token(l[k])}},
          rest |-> NoArguments(l)]
    ELSE IF is_run_keyword_if(l[p]) /\ Names(l, args, 2) THEN AnalyzeFrom(l, later, args, 2)
    ELSE [checks |-> {}, rest |-> args]

\* What the analysis makes of each end of the line.
Checking(l) ==
    LET later[args \in 1 .. NoArguments(l)] ==
            [p \in 0 .. Len(l) |-> IF p = Branches THEN AnalyzeBranches(l, later, args)
                                   ELSE AnalyzeRun(l, later, p, args)]
    IN later

-----------------------------------------------------------------------------
(* The keyword at position q: what is found there, and what is left        *)

Nothing == 0                \* None
Raised == -1                \* a KeywordError that goes up to the next call

\* ModelHelperMixin.get_keyworddoc_and_token_from_position.
FindCall(l, q, later, p, args) ==
    IF ~IsKeyword(l[p]) THEN Nothing
    ELSE IF p = q THEN q
    ELSE IF later[args][p].found = Raised THEN Nothing ELSE later[args][p].found

\* One branch of Run Keyword If: the keyword is looked up before the position
\* is compared.
FindBranch(l, q, later, args, n) ==
    LET kw == args + n - 1
        run == later[args + n][kw]
    IN
    IF IsError(l[kw]) THEN [found |-> Raised, rest |-> args + n]
    ELSE IF kw = q THEN [found |-> IF IsKeyword(l[kw]) THEN q ELSE Raised, rest |-> args + n]
    ELSE IF run.found # Nothing THEN run
    ELSE [found |-> Nothing, rest |-> skip_args(l, run.rest)]

\* A branch and those that follow it.
FindFrom(l, q, later, args, n) ==
    LET b == FindBranch(l, q, later, args, n) IN
    IF b.found # Nothing THEN b ELSE later[b.rest][Branches]

FindBranches(l, q, later, args) ==
    IF AtLeast(l, args, 2) /\ l[args] = "ELSE" THEN FindBranch(l, q, later, args, 2)
    ELSE IF AtLeast(l, args, 3) /\ l[args] = "ELSE IF" THEN FindFrom(l, q, later, args, 3)
    ELSE [found |-> Nothing, rest |-> args]

\* ModelHelperMixin.get_run_keyword_keyworddoc_and_token_from_position.
FindRun(l, q, later, p, args) ==
    IF is_run_keyword(l[p]) /\ Names(l, args, 1)
    THEN [found |-> FindCall(l, q, later, args, args + 1), rest |-> args + 1]
    ELSE IF is_run_keyword_with_condition(l[p]) /\ Names(l, args, 2)
    THEN [found |-> FindCall(l, q, later, args + 1, args + 2), rest |-> args + 2]
    ELSE IF is_run_keywords(l[p])
    THEN IF q \in args .. Len(l) /\ is_non_variable_token(l[q])
         THEN [found |-> FindCall(l, q, later, q, NoArguments(l)), rest |-> q + 1]
         ELSE [found |-> Nothing, rest |-> NoArguments(l)]
    ELSE IF is_run_keyword_if(l[p]) /\ Names(l, args, 2) THEN FindFrom(l, q, later, args, 2)
    ELSE [found |-> Nothing, rest |-> args]

\* What the search makes of each end of the line.
Search(l, q) ==
    LET later[args \in 1 .. NoArguments(l)] ==
            [p \in 0 .. Len(l) |-> IF p = Branches THEN FindBranches(l, q, later, args)
                                   ELSE FindRun(l, q, later, p, args)]
    IN later

-----------------------------------------------------------------------------

\* Analyzer.visit_KeywordCall, visit_Fixture: the arguments begin at 2.
Analyze(l) == IF l = <<>> THEN {} ELSE AnalyzeCall(l, Checking(l), 1, 2)

\* hover_KeywordCall, definition_KeywordCall and those of fixtures.
KeywordAt(l, q) == FindCall(l, q, Search(l, q), 1, 2) = q

rkInit == line = <<>> /\ checked = {}

\* The call gets one more token, and the document is analysed again.
Type(t) ==
    /\ Len(line) < MaxTokens
    /\ line' = Append(line, t)
    /\ checked' = Analyze(line')

rkNext == \E t \in Tokens : Type(t)

rkSpec == rkInit /\ [][rkNext]_rkVars

-----------------------------------------------------------------------------

\* Hover and goto know a keyword wherever the analysis has looked one up and
\* found it, and nowhere else; only an ambiguous keyword before it, which makes
\* the search give up where the analysis goes on, hides it.
HoverAgreesWithAnalysis ==
    \A q \in DOMAIN line :
        /\ KeywordAt(line, q) => q \in checked /\ IsKeyword(line[q])
        /\ q \in checked /\ IsKeyword(line[q]) => KeywordAt(line, q) \/ \E p \in 1 .. q - 1 : line[p] = "Twice"
=============================================================================
