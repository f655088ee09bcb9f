----------------------------- MODULE MCWrappers -----------------------------
(***************************************************************************)
(* Calls of the scanner wrappers on small repositories.                    *)
(***************************************************************************)
EXTENDS ScannerWrappers

Ready == {".git", "rules", "database", "budget"}

Plain(path) == [path |-> path, kind |-> "file", refs |-> {}]

Sources == {Plain(<<"x">>), Plain(<<"y">>), [path |-> <<"l">>, kind |-> "link", refs |-> {}]}

Called(tool, entry, offline, ready, repository, planned) ==
    [tool |-> tool, entry |-> entry, offline |-> offline, ready |-> ready,
     repository |-> repository, planned |-> planned]

\* Calls for the whole tree, with and without what the tool needs.
WholeCalls ==
    {Called(t, "raw", o, Ready \ missing, {Plain(<<"x">>)}, <<>>) :
       t \in {"gitleaks", "semgrep", "kics", "php-vuln"}, o \in BOOLEAN,
       missing \in {{}, {".git"}, {"rules"}, {"budget"}}}
      \cup {Called("gitleaks", "tree", TRUE, Ready, {Plain(<<"x">>)}, <<>>)}
      \cup {Called("grype", "scan", o, r, {Plain(<<"x">>)}, <<>>) :
               o \in BOOLEAN, r \in {Ready, Ready \ {"database"}, Ready \cup {"installer"}}}
      \cup {Called("grype-image", "scan", FALSE, r, {Plain(<<"x">>)}, <<>>) :
               r \in {Ready, Ready \ {"database"}}}

\* Planned files: one, two, one that is gone, one that is a link.
PathCalls ==
    {Called(t, "paths", TRUE, Ready \cup r, Sources, p) :
       t \in {"gitleaks", "semgrep", "php-vuln"}, r \in {{}, {"linked ignore file"}},
       p \in {<<<<"x">>>>, <<<<"x">>, <<"y">>>>, <<<<"x">>, <<"z">>>>, <<<<"l">>>>}}

RefersTo(by, to) == [by |-> by, to |-> to]

\* Modules beside, above, below and outside what is planned.
LinkTargets == {<<"a">>, <<"a", "m">>, <<"a", "m", "main">>, <<"b">>, <<>>, Remote, Outside}

Modules(kind) ==
    {{[path |-> <<"a", "m", "main">>, kind |-> "file", refs |-> {RefersTo("terraform", t)}],
      [path |-> <<"a", "k">>, kind |-> "file", refs |-> {RefersTo("kustomize", k)}],
      Plain(<<"a", ".git", "x">>),
      [path |-> <<"b", "x">>, kind |-> kind, refs |-> {}]} :
       t \in LinkTargets \cup {Computed}, k \in LinkTargets}

UnitCalls ==
    {Called("kics", "units", TRUE, Ready, r, p) :
       r \in Modules("file"),
       p \in {<<<<"a">>>>, <<<<"a", "m">>>>, <<<<"a", "m">>, <<"b">>>>, <<<<"a", "k">>, <<"a", "m">>>>, <<<<>>>>}}
      \cup {Called("kics", "units", TRUE, Ready, r, p) :
               r \in Modules("link"), p \in {<<<<"a">>, <<"b">>>>, <<<<"a">>, <<"c">>>>}}

MCCalls == WholeCalls \cup PathCalls \cup UnitCalls
=============================================================================
