----------------------------- MODULE LicensePolicy -----------------------------
(***************************************************************************)
(* The license check of one package (sourcebastion/license_expression.py   *)
(* and license_checker.py): each stated expression is parsed, every term   *)
(* held against the policy, and the verdicts are combined, first over the  *)
(* expression, then over everything the inputs state of the package.       *)
(*                                                                         *)
(* An expression the SPDX list accepts is a sequence of tokens. A term is  *)
(* a license and an exception, or None. A policy entry has the name it is  *)
(* written with and the licenses it matches.                               *)
(***************************************************************************)
EXTENDS Integers, Sequences, FiniteSets

CONSTANTS
    Cases,       \* records: inventory, what it claims; evidence, of the package;
                 \* stated, a set of token sequences or <<>>; policy
    LicenseRefs  \* licenses whose name starts with LicenseRef-

None == ""
Open == "("
Close == ")"

\* No license begins with one of these.
Reserved == {"AND", "OR", "WITH", Close}

\* What the list accepts compiles as an expression of Python's, WITH for an operator.
IsCanonical(tokens) ==
    /\ tokens \in Seq(STRING \ {None})
    /\ \A n \in DOMAIN tokens :
         tokens[n] \in {Open, "WITH"} => n < Len(tokens) /\ tokens[n + 1] \notin Reserved

ASSUME LicenseAssumption == \A c \in Cases : \A s \in c.stated : IsCanonical(s)

Permitted == "permitted"
Denied == "denied"
Undetermined == "undetermined"

VARIABLES case, verdict, evaluations

licenseVars == <<case, verdict, evaluations>>

(***************************************************************************)
(* The parser. A node is the call that returned it: a rule and the place   *)
(* it began at. OR binds loosest, parentheses group; a call that finds one *)
(* operand returns that. Behind the place of an error nothing is read.     *)
(***************************************************************************)
Levels == {"or", "and", "term"}

Inner(rule) == IF rule = "or" THEN "and" ELSE "term"
Joiner(rule) == IF rule = "or" THEN "OR" ELSE "AND"

TokenAt(tokens, place) == IF place \in DOMAIN tokens THEN tokens[place] ELSE None

End(tokens) == Len(tokens) + 1
Error(tokens) == Len(tokens) + 2

Nodes(tokens) == Levels \X (1..End(tokens))

\* What the calls return: their operands, none for a license, and the place after.
TermRule(tokens, parse, at) ==
    IF TokenAt(tokens, at) = Open
    THEN LET inner == parse[<<"or", at + 1>>]
         IN [operands |-> <<<<"or", at + 1>>>>,
             next |-> IF TokenAt(tokens, inner.next) = Close THEN inner.next + 1 ELSE Error(tokens)]
    ELSE [operands |-> <<>>,
          next |-> IF TokenAt(tokens, at) \in Reserved \cup {None} THEN Error(tokens)
                   ELSE IF TokenAt(tokens, at + 1) # "WITH" THEN at + 1
                   ELSE IF TokenAt(tokens, at + 2) = None THEN Error(tokens)
                   ELSE at + 3]

ListRule(tokens, parse, rule, at) ==
    LET first == parse[<<Inner(rule), at>>]
        rest == parse[<<rule, first.next + 1>>]
    IN IF TokenAt(tokens, first.next) = Joiner(rule)
       THEN [operands |-> <<<<Inner(rule), at>>>> \o rest.operands, next |-> rest.next]
       ELSE [operands |-> <<<<Inner(rule), at>>>>, next |-> first.next]

Parser(tokens) ==
    LET parse[call \in Nodes(tokens)] ==
          IF call[1] = "term" THEN TermRule(tokens, parse, call[2])
          ELSE ListRule(tokens, parse, call[1], call[2])
    IN parse

\* Trailing tokens are an error.
Parses(tokens) == Parser(tokens)[<<"or", 1>>].next = End(tokens)

Term(license, exception) == [license |-> license, exception |-> exception]

TermOf(tokens, at) ==
    Term(TokenAt(tokens, at), IF TokenAt(tokens, at + 1) = "WITH" THEN TokenAt(tokens, at + 2) ELSE None)

(***************************************************************************)
(* The policy.                                                             *)
(***************************************************************************)
NamesExactly(entries, license, exception) ==
    \E e \in entries : e.license = license /\ e.exception = exception

\* Identifier entries and wildcards; pairs and LicenseRef entries match nothing.
Matches(entries, license) ==
    \E e \in entries : e.exception = None /\ license \in e.matches

EvaluateTerm(policy, t) ==
    IF t.exception # None /\ NamesExactly(policy.allowed, t.license, t.exception) THEN Permitted
    ELSE IF t.license \in LicenseRefs
    THEN IF \/ NamesExactly(policy.denied, t.license, t.exception)
            \/ NamesExactly(policy.denied, t.license, None) THEN Denied
         ELSE IF NamesExactly(policy.allowed, t.license, None) THEN Permitted
         ELSE Undetermined
    ELSE IF NamesExactly(policy.denied, t.license, t.exception) \/ Matches(policy.denied, t.license)
    THEN Denied
    ELSE IF Matches(policy.allowed, t.license) THEN Permitted
    ELSE IF policy.allowed # {} THEN Undetermined ELSE Permitted

\* Slip: what is not denied in all its terms is not denied.
ConjunctionLenient(results) ==
    IF \A i \in DOMAIN results : results[i] = Denied THEN Denied
    ELSE IF \E i \in DOMAIN results : results[i] = Permitted THEN Permitted
    ELSE Undetermined

Conjunction(results) ==
    IF \E i \in DOMAIN results : results[i] = Denied THEN Denied
    ELSE IF \A i \in DOMAIN results : results[i] = Permitted THEN Permitted
    ELSE Undetermined

\* The first of several operands that is permitted.
Disjunction(outcomes) ==
    LET permitted == {m \in DOMAIN outcomes : outcomes[m].result = Permitted}
    IN IF permitted # {} THEN outcomes[CHOOSE m \in permitted : \A k \in permitted : m <= k]
       ELSE [result |-> IF \A m \in DOMAIN outcomes : outcomes[m].result = Denied
                        THEN Denied ELSE Undetermined,
             satisfied |-> {}]

Satisfied(outcomes) == UNION {outcomes[m].satisfied : m \in DOMAIN outcomes}

\* The result of a node, and the terms of the branch that satisfies the policy.
EvaluateNode(policy, tokens, evaluate, call) ==
    LET operands == Parser(tokens)[call].operands
        outcomes == [m \in DOMAIN operands |-> evaluate[operands[m]]]
        result == Conjunction([m \in DOMAIN operands |-> outcomes[m].result])
    IN IF operands = <<>>
       THEN [result |-> EvaluateTerm(policy, TermOf(tokens, call[2])),
             satisfied |-> {TermOf(tokens, call[2])}]
       ELSE IF Len(operands) = 1 THEN outcomes[1]
       ELSE IF call[1] = "or" THEN Disjunction(outcomes)
       ELSE [result |-> result,
             satisfied |-> IF result = Permitted THEN Satisfied(outcomes) ELSE {}]

Evaluate(policy, tokens) ==
    LET evaluate[call \in Nodes(tokens)] == EvaluateNode(policy, tokens, evaluate, call)
    IN evaluate

\* One stated value; <<>> is text the SPDX list does not accept.
EvaluateValue(policy, tokens) ==
    IF tokens = <<>> THEN [result |-> Undetermined, satisfied |-> {}]
    ELSE Evaluate(policy, tokens)[<<"or", 1>>]

\* The strictest of everything stated; nothing stated is undetermined.
PackageResult(evaluated) ==
    LET results == {e.result : e \in evaluated}
    IN IF Denied \in results THEN Denied
       ELSE IF evaluated = {} \/ Undetermined \in results THEN Undetermined
       ELSE Permitted

LicenseInit(c) ==
    /\ case = c
    /\ verdict = "none"
    /\ evaluations = {}

Resolved == {"locked", "installed", "imported"}

\* The list accepts values the parser does not, such as "(MIT) WITH CE": the composition
\* of the whole inventory is refused then.
InventoryComposes == case.inventory # "failed" /\ \A s \in case.stated : s = <<>> \/ Parses(s)

\* A failed inventory fails the check; a declaration is counted, never judged.
CheckNothing ==
    /\ verdict = "none"
    /\ ~InventoryComposes \/ case.evidence \notin Resolved
    /\ verdict' = IF InventoryComposes THEN "not assessed" ELSE "scope_unresolved"
    /\ UNCHANGED <<case, evaluations>>

EvaluateInventory ==
    /\ verdict = "none"
    /\ InventoryComposes /\ case.evidence \in Resolved
    /\ evaluations' = {[tokens |-> s, of |-> EvaluateValue(case.policy, s)] : s \in case.stated}
    /\ verdict' = PackageResult({e.of : e \in evaluations'})
    /\ UNCHANGED case

LicenseTypeOK ==
    /\ verdict \in {"none", "scope_unresolved", "not assessed", Permitted, Denied, Undetermined}
    /\ \A e \in evaluations : e.tokens \in case.stated

LicenseNext == CheckNothing \/ EvaluateInventory

LicenseSpec == (\E c \in Cases : LicenseInit(c)) /\ [][LicenseNext]_licenseVars

(***************************************************************************)
(* The reference. An expression offers choices, each a set of terms that   *)
(* bind together; the innermost pair of parentheses, then AND, then OR.    *)
(* The choices are found by splitting the tokens, not by the parser.       *)
(***************************************************************************)
Places(tokens, token, n) == {k \in 1..n : tokens[k] = token}
Depth(tokens, n) == Cardinality(Places(tokens, Open, n)) - Cardinality(Places(tokens, Close, n))

\* Where an operator stands between two places, outside the parentheses that open there.
Splits(tokens, operator, from, to) ==
    {k \in from..to : tokens[k] = operator /\ Depth(tokens, k) = Depth(tokens, from - 1)}

\* A term of either of two sets of choices with one of the other.
Both(a, b) == {p[1] \cup p[2] : p \in a \X b}

\* What the tokens from one place to another offer.
OffersBetween(tokens, offers, from, to) ==
    LET ors == Splits(tokens, "OR", from, to)
        ands == Splits(tokens, "AND", from, to)
        left(k) == offers[<<from, k - 1>>]
        right(k) == offers[<<k + 1, to>>]
    IN IF ors # {} THEN LET k == CHOOSE i \in ors : TRUE IN left(k) \cup right(k)
       ELSE IF ands # {} THEN LET k == CHOOSE i \in ands : TRUE IN Both(left(k), right(k))
       ELSE IF from < to /\ tokens[from] = Open THEN offers[<<from + 1, to - 1>>]
       ELSE {{Term(tokens[from], IF to = from + 2 THEN tokens[to] ELSE None)}}

Offers(tokens) ==
    LET offers[span \in Int \X Int] == OffersBetween(tokens, offers, span[1], span[2])
    IN offers

Grade(terms) == {EvaluateTerm(case.policy, t) : t \in terms}

\* Wildcards do not speak of LicenseRefs.
Banned(license) ==
    IF license \in LicenseRefs THEN NamesExactly(case.policy.denied, license, None)
    ELSE Matches(case.policy.denied, license)

\* A value is permitted only if some choice the expression offers is permitted in
\* every term, and satisfied_by is such a choice in which a denied license stands
\* only under an exact pair of the allowed list; it is denied only if every choice
\* binds a denied term. A package is permitted only if all its values are, there
\* is one, and the inventory did not fail (license_expression.py:231-262, license_checker.py:117-122).
VerdictIsChoice ==
    verdict # "none" =>
        /\ {e.tokens : e \in evaluations} =
             IF InventoryComposes /\ case.evidence \in Resolved THEN case.stated ELSE {}
        /\ \A e \in evaluations :
             IF e.tokens = <<>> THEN e.of.result = Undetermined
             ELSE LET choices == Offers(e.tokens)[<<1, Len(e.tokens)>>] IN
                  /\ e.of.result = Permitted <=> \E c \in choices : Grade(c) = {Permitted}
                  /\ e.of.result = Denied <=> \A c \in choices : Denied \in Grade(c)
                  /\ e.of.result = Permitted =>
                       /\ e.of.satisfied \in choices
                       /\ \A t \in e.of.satisfied :
                            Banned(t.license) => NamesExactly(case.policy.allowed, t.license, t.exception)
        /\ verdict = Permitted <=>
             evaluations # {} /\ \A e \in evaluations : e.of.result = Permitted
        /\ verdict = Denied <=> \E e \in evaluations : e.of.result = Denied
=============================================================================
