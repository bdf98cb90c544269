--------------------------- MODULE KeywordSearch ---------------------------
(***************************************************************************)
(* Which keyword a name stands for: KeywordFinder, over the keywords of    *)
(* the file itself, of its resources and of its libraries, and the list of *)
(* keywords that Namespace.get_keywords offers to completion.              *)
(*                                                                         *)
(* A name is the sequence of its parts between dots; a prefix such as      *)
(* "Given " is a part of its own.  Splitting at that place too finds no    *)
(* more owners than the code does.                                         *)
(***************************************************************************)
EXTENDS Naturals, Sequences, FiniteSets, SequencesExt

CONSTANTS MaxKeywords       \* bound: keywords of all files together

VARIABLES
    own,            \* the names of the keywords of the file
    resources,      \* its resources, in the order of their import
    libraries       \* its libraries, the same

ksVars == <<own, resources, libraries>>

\* A plain keyword, one with a dot in its name, two with embedded arguments.
KeywordNames == {<<"Do It">>, <<"Lib", "Do It">>, <<"Do ${x}">>, <<"${x} It">>}
is_embedded_keyword(k) == k \in {<<"Do ${x}">>, <<"${x} It">>}

LibraryNames == {<<"Lib">>, <<"Lib", "Lib">>, <<"Collections">>}
ResourceNames == {<<"Lib">>, <<"common">>}
STDLIBS == {<<"Collections">>}

-----------------------------------------------------------------------------
(* KeywordMatcher and KeywordStore *)

\* A pattern with embedded arguments matches itself as well.
Matches(k, name) ==
    \/ name = k
    \/ k = <<"Do ${x}">> /\ name = <<"Do It">>
    \/ k = <<"${x} It">> /\ name # <<>> /\ Last(name) \in {"Do It", "${x} It"}

Matching(keywords, name) == {k \in keywords : Matches(k, name)}
Has(keywords, name) == Matching(keywords, name) # {}
Ambiguous(keywords, name) == Cardinality(Matching(keywords, name)) > 1

\* A keyword of the entry at position i of one of the lists, or of the file.
Doc(kind, i, k) == [of |-> kind, at |-> i, name |-> k]
DocsOf(kind, entries, name) ==
    {Doc(kind, i, CHOOSE k \in Matching(entries[i].keywords, name) : TRUE) :
        i \in {j \in DOMAIN entries : Has(entries[j].keywords, name)}}

-----------------------------------------------------------------------------
(* KeywordFinder: how a search ends *)

Found(doc) == [end |-> "found", doc |-> doc, warned |-> FALSE]
NoKeyword == [end |-> "none"]
Multiple(docs, implicit) == [end |-> "multiple", docs |-> docs, implicit |-> implicit]
EmptyName == [end |-> "empty"]
KeywordError == [end |-> "raised"]

Owner(doc) == IF doc.of = "library" THEN libraries[doc.at].name ELSE resources[doc.at].name

\* _get_keyword_from_self.
_get_keyword_from_self(name) ==
    IF Ambiguous(own, name) THEN KeywordError
    ELSE IF Has(own, name) THEN Found(Doc("own", 0, CHOOSE k \in Matching(own, name) : TRUE))
    ELSE NoKeyword

\* _yield_owner_and_kw_names, find_keywords: an owner and one of its keywords.
Splits(name) == {<<SubSeq(name, 1, i), SubSeq(name, i + 1, Len(name))>> : i \in 1 .. Len(name) - 1}
find_keywords(owner, name) ==
    {d \in DocsOf("library", libraries, name) \union DocsOf("resource", resources, name) : Owner(d) = owner}

\* _get_explicit_keyword.
_get_explicit_keyword(name) ==
    LET found == UNION {{<<s, d>> : d \in find_keywords(s[1], s[2])} : s \in Splits(name)}
        keywords(d) == IF d.of = "library" THEN libraries[d.at].keywords ELSE resources[d.at].keywords
    IN IF \E f \in found : Ambiguous(keywords(f[2]), f[1][2]) THEN KeywordError
       ELSE IF Cardinality(found) > 1 THEN Multiple({f[2] : f \in found}, FALSE)
       ELSE IF found = {} THEN NoKeyword
       ELSE Found((CHOOSE f \in found : TRUE)[2])

\* _filter_stdlib_runner: if both are standard, the first one is the standard
\* one and the second one is used.
_filter_stdlib_runner(found) ==
    LET standard == {d \in found : libraries[d.at].name \in STDLIBS} IN
    IF standard = {} THEN found
    ELSE found \ {CHOOSE d \in standard : \A e \in standard : d.at <= e.at}

\* _get_keyword_from_resource_files, _get_keyword_from_libraries; the search
\* order that decides between several is empty, nothing sets it.
FromFiles(kind, entries, name) ==
    LET found == DocsOf(kind, entries, name)
        used == IF kind = "library" /\ Cardinality(found) = 2
                THEN _filter_stdlib_runner(found) ELSE found
    IN IF found = {} THEN NoKeyword
       ELSE IF \E d \in found : Ambiguous(entries[d.at].keywords, name) THEN KeywordError
       ELSE IF Cardinality(used) = 1
       THEN [Found(CHOOSE d \in used : TRUE) EXCEPT !.warned = used # found]
       ELSE Multiple(used, TRUE)

\* Mutant: a keyword of a library goes before one of a resource.
ImplicitLibrariesFirst(name) ==
    LET fromLibraries == FromFiles("library", libraries, name) IN
    IF fromLibraries # NoKeyword THEN fromLibraries ELSE FromFiles("resource", resources, name)

\* _get_implicit_keyword.
_get_implicit_keyword(name) ==
    LET fromResources == FromFiles("resource", resources, name) IN
    IF fromResources # NoKeyword THEN fromResources ELSE FromFiles("library", libraries, name)

\* Mutant: names with an owner are tried last.
FindPlainFirst(name) ==
    LET own_ == _get_keyword_from_self(name)
        implicit == _get_implicit_keyword(name)
    IN IF own_ # NoKeyword THEN own_
       ELSE IF implicit # NoKeyword THEN implicit ELSE _get_explicit_keyword(name)

\* _find_keyword without its last step.
FindPlain(name) ==
    LET own_ == _get_keyword_from_self(name)
        explicit == _get_explicit_keyword(name)
    IN IF own_ # NoKeyword THEN own_
       ELSE IF explicit # NoKeyword THEN explicit ELSE _get_implicit_keyword(name)

\* find_keyword; _get_bdd_style_keyword starts again without the prefix.
find_keyword(name) ==
    IF name = <<>> THEN EmptyName
    ELSE IF FindPlain(name) # NoKeyword \/ name[1] # "Given " THEN FindPlain(name)
    ELSE IF Tail(name) = <<>> THEN EmptyName ELSE FindPlain(Tail(name))

-----------------------------------------------------------------------------

KeywordsOf(kind, entries) ==
    {Doc(kind, p[1], p[2]) : p \in {q \in (DOMAIN entries) \X KeywordNames : q[2] \in entries[q[1]].keywords}}
AllDocs == {Doc("own", 0, k) : k \in own} \union KeywordsOf("resource", resources)
           \union KeywordsOf("library", libraries)

Before(d, e) == \/ d.of = "own"
                \/ d.of = "resource" /\ e.of = "library"
                \/ d.of = e.of /\ d.at <= e.at

\* Namespace.get_keywords: of the keywords of one name the first is offered.
get_keywords == {d \in AllDocs : \A e \in AllDocs : e.name = d.name => Before(d, e)}

-----------------------------------------------------------------------------

ksInit ==
    /\ own = {} /\ resources = <<>> /\ libraries = <<>>

Size == Cardinality(AllDocs)

\* The file defines a keyword.
define_keyword ==
    /\ Size < MaxKeywords
    /\ \E k \in KeywordNames \ own : own' = own \union {k}
    /\ UNCHANGED <<resources, libraries>>

\* Namespace._import_imports: the table of the libraries has one per name.
import_library ==
    /\ \E n \in LibraryNames \ {e.name : e \in Range(libraries)}, ks \in SUBSET KeywordNames \ {{}} :
        /\ Size + Cardinality(ks) <= MaxKeywords
        /\ libraries' = Append(libraries, [name |-> n, keywords |-> ks])
    /\ UNCHANGED <<own, resources>>

import_resource ==
    /\ Len(resources) < 2
    /\ \E n \in ResourceNames, ks \in SUBSET KeywordNames \ {{}} :
        /\ Size + Cardinality(ks) <= MaxKeywords
        /\ resources' = Append(resources, [name |-> n, keywords |-> ks])
    /\ UNCHANGED <<own, libraries>>

ksNext == define_keyword \/ import_library \/ import_resource

ksSpec == ksInit /\ [][ksNext]_ksVars

-----------------------------------------------------------------------------

\* What a reader may write: a name, with an owner, with a prefix.
PlainNames == {<<"Do It">>, <<"Lib", "Do It">>, <<"Lib", "Lib", "Do It">>} \union KeywordNames
WrittenNames == PlainNames \union {<<"Given ">> \o n : n \in PlainNames \union {<<>>}}

Finds(name, doc) == find_keyword(name).end = "found" /\ find_keyword(name).doc = doc

\* The keyword that completion offers for a name is the one the name stands for,
\* or the search says so: it reports several keywords or a standard one that is
\* not used, or a pattern or a name with an owner matched before it.
CompletionAgrees ==
    \A d \in get_keywords :
        LET r == find_keyword(d.name) IN
        \/ Finds(d.name, d)
        \/ r.end \in {"multiple", "raised"}
        \/ r.end = "found" /\ r.warned
        \/ r.end = "found" /\ is_embedded_keyword(r.doc.name)
        \/ r.end = "found" /\ r.doc.of # "own" /\ Owner(r.doc) \o r.doc.name = d.name

\* Who is told to write the full name of one of several keywords, with its
\* owner, finds that keyword by it.  The exceptions: the file has a keyword that
\* the full name matches, or it is the full name of another keyword too.
AdviceWorks ==
    \A n \in WrittenNames : LET r == find_keyword(n) IN r.end = "multiple" /\ r.implicit =>
        \A d \in r.docs : LET full == Owner(d) \o d.name IN
            \/ Finds(full, d)
            \/ Has(own, full)
            \/ \E e \in AllDocs \ {d} : e.of # "own"
                  /\ \E s \in Splits(full) : Owner(e) = s[1] /\ Matches(e.name, s[2])
=============================================================================
