---------------------------- MODULE MCMaintenance ----------------------------
(***************************************************************************)
(* Small inputs for the programs of Maintenance.                           *)
(***************************************************************************)
EXTENDS Maintenance, MCLocks, MCManifests, MCWrappers, MCComments, TLC

(***************************************************************************)
(* Inventory composition: two packages, two versions, three files.         *)
(***************************************************************************)
Of(name, range, exact, marker) == [name |-> name, range |-> range, exact |-> exact, marker |-> marker]
Line(range, exact, marker) == Of("pip", range, exact, marker)
Bare == Line({1, 2}, 0, "any")
Pin(v) == Line({v}, v, "any")
AtLeast(v) == Line({v}, 0, "any")
When(v, m) == Line({v}, v, m)
Six == Of("six", {2}, 2, "any")

R(p) == [kind |-> "include", target |-> p]
C(p) == [kind |-> "constraint", target |-> p]

File(kind, lines, refs, bad) == [kind |-> kind, lines |-> lines, refs |-> refs, bad |-> bad]
Absent == File("absent", {}, <<>>, FALSE)

\* What one requirements file and the constraints it names say of one package.
ConstraintTrees ==
    {<<Absent, b, c>> :
       b \in [kind : {"constraints", "requirements"}, lines : {{Pin(2)}, {AtLeast(1), Six}, {When(1, "m")}},
              refs : {<<>>}, bad : {FALSE}],
       c \in [kind : {"requirements"},
              lines : {{}, {Bare}, {Pin(1)}, {When(2, "not-m")}, {When(1, "m"), When(2, "not-m")},
                       {When(1, "m"), When(2, "other")}, {Pin(1), Line({1, 2}, 2, "any")}, {When(1, "m"), Line({1, 2}, 2, "any")},
                       {Bare, Of("six", {1, 2}, 0, "any")}},
              refs : {<<>>, <<C(2)>>}, bad : {FALSE}]}

\* Shared includes, cycles, files an include brings in.
IncludeTrees ==
    {<<a, b, c>> :
       a \in [kind : {"text", "unlisted"}, lines : {{Bare}, {Pin(1)}},
              refs : {<<>>, <<R(2)>>, <<R(3)>>}, bad : {FALSE}],
       b \in [kind : {"text"}, lines : {{AtLeast(2)}}, refs : {<<>>, <<R(1)>>, <<C(1)>>}, bad : {FALSE}],
       c \in [kind : {"requirements"}, lines : {{}, {Pin(1)}},
              refs : {<<>>, <<R(1)>>, <<C(2)>>, <<R(1), C(2)>>}, bad : {FALSE}]}

\* Files that cannot be read, or not to the end.
RefusedTrees ==
    {<<a, File("text", {Pin(1)}, <<>>, FALSE), c>> :
       a \in [kind : {"text", "foreign", "ignored", "unreadable", "absent"}, lines : {{Pin(1)}},
              refs : {<<>>}, bad : BOOLEAN],
       c \in [kind : {"requirements"}, lines : {{Pin(1)}},
              refs : {<<>>, <<R(1)>>, <<R(2), C(1)>>, <<R(0)>>}, bad : BOOLEAN]}

MCTrees == ConstraintTrees \cup IncludeTrees \cup RefusedTrees

\* Room for every include of three files, and room for one.
MCConfigs == {[include_depth |-> 2, include_targets |-> 2], [include_depth |-> 1, include_targets |-> 1]}

(***************************************************************************)
(* License expressions of up to three terms, under every mix of entries.   *)
(***************************************************************************)
Terms == {<<"MIT">>, <<"GPL">>, <<"GPL", "WITH", "CE">>, <<"LicenseRef-X">>, <<"LicenseRef-X", "WITH", "CE">>, <<"BSD">>}
Operators == {"AND", "OR"}

Pairs == {a \o <<op>> \o b : a \in Terms, b \in Terms, op \in Operators}

Triples ==
    LET joined == {<<x, op, t>> : x \in Pairs, op \in Operators, t \in {<<"MIT">>, <<"GPL">>, <<"BSD">>}}
    IN {j[1] \o <<j[2]>> \o j[3] : j \in joined}
         \cup {<<"(">> \o j[1] \o <<")", j[2]>> \o j[3] : j \in joined}
         \cup {j[3] \o <<j[2], "(">> \o j[1] \o <<")">> : j \in joined}

\* What the list accepts and the parser does not, and one of which it takes the parentheses.
Odd == {<<"(", "MIT", ")", "WITH", "CE">>, <<"GPL", "WITH", "CE", "WITH", "CE">>,
        <<"(", "(", "MIT", ")", "WITH", "CE", ")">>, <<"GPL", "WITH", "(", "MIT", ")">>,
        <<"(", "(", "GPL", "WITH", "CE", ")", ")", "AND", "MIT">>}

Entry(license, exception, matches) ==
    [license |-> license, exception |-> exception, matches |-> matches]
MIT == Entry("MIT", "", {"MIT"})
Gpl == Entry("G*", "", {"GPL"})
Pair == Entry("GPL", "CE", {})
Ref == Entry("LicenseRef-X", "", {})
All == Entry("*", "", {"MIT", "GPL", "BSD", "LicenseRef-X"})

Policies ==
    {[allowed |-> a, denied |-> d] :
        a \in {{}, {MIT}, {MIT, Pair}, {MIT, Gpl, Ref}}, d \in {{}, {Gpl}, {Pair, Ref}, {All}}}

Case(claim, kind, stated, policy) ==
    [inventory |-> claim, evidence |-> kind, stated |-> stated, policy |-> policy]

MCCases ==
    {Case("partial", "locked", {e}, p) : e \in Terms \cup Pairs, p \in Policies}
      \cup {Case("partial", "locked", {e}, p) :
              e \in Triples, p \in {q \in Policies : {MIT, Gpl} \subseteq q.allowed \cup q.denied}}
      \cup {Case(i, k, {<<"MIT">>}, p) : i \in {"failed", "complete"}, p \in Policies,
                                         k \in {"declared", "installed"}}
      \cup {Case("partial", k, {<<"MIT">>, s}, p) : k \in {"declared", "installed"}, s \in Odd, p \in Policies}
      \cup {Case("complete", "imported", s, p) :
              s \in SUBSET {<<>>, <<"MIT">>, <<"GPL">>, <<"BSD">>}, p \in Policies}

(***************************************************************************)
(* Leaks: of one rule, of two, one secret twice, one nothing rotates.      *)
(***************************************************************************)
Leak(rule, secret) == [rule |-> rule, secret |-> secret]

MCLeakLists ==
    {<<Leak("aws-access-key-id", "k1"), Leak("aws-access-key-id", "k2")>>,
     <<Leak("aws-access-token", "k3"), Leak("aws-access-key-id", "k1")>>,
     <<Leak("aws-access-token", "k1"), Leak("aws-access-token", "k1")>>,
     <<Leak("github-pat", "t1"), Leak("gitlab-pat", "t2"), Leak("aws-secret-access-key", "k2")>>}

(***************************************************************************)
(* A plan of two tasks, the second after the first.                           *)
(***************************************************************************)
MCPlan == <<{}, {0}>>

AgentSymmetry == Permutations(Agents)
=============================================================================
