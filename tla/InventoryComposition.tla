-------------------------- MODULE InventoryComposition --------------------------
(***************************************************************************)
(* From the files of a tree to an inventory of pip requirements:           *)
(* discovery (inventory/discovery.py) reads the candidate files and walks  *)
(* their includes, composition (inventory/compose_requirements.py) decides *)
(* which files are origins, which declarations apply in each, which        *)
(* version a requirement selects, and what the inventory may claim.        *)
(*                                                                         *)
(* A path is a number, in the order of the names. A file is its kind of    *)
(* name, its requirement lines, its references in line order, and whether  *)
(* it holds a line the parser refuses. A specifier is the set of versions  *)
(* it admits; 0 is no version, and no target.                              *)
(***************************************************************************)
EXTENDS Integers, Sequences, FiniteSets, Reachability, FiniteSetsExt, SequencesExt

CONSTANTS
    Paths,
    Packages,
    Versions,
    Trees,     \* functions from Paths to files
    Configs    \* DiscoveryConfig: include_depth, include_targets

Markers == {"any", "m", "not-m", "other"}
Roles == {"requirement", "constraint"}

Requirement ==
    [name : Packages, range : SUBSET Versions, exact : {0} \cup Versions, marker : Markers]

Reference == [kind : {"include", "constraint"}, target : {0} \cup Paths]

\* "unlisted" names no format, "foreign" one of another ecosystem; "ignored" is
\* below an ignored directory; reading "unreadable" is refused.
Kinds == {"absent", "requirements", "constraints", "text",
          "unlisted", "foreign", "ignored", "unreadable"}

ASSUME CompositionAssumption ==
    /\ Paths \subseteq Nat \ {0} /\ IsFiniteSet(Paths) /\ Versions \subseteq Nat \ {0}
    /\ \A c \in Configs : c.include_depth \in Nat /\ c.include_targets \in Nat
    /\ \A t \in Trees : \A p \in Paths :
         /\ t[p].kind \in Kinds /\ t[p].bad \in BOOLEAN
         /\ t[p].lines \subseteq Requirement
         /\ t[p].refs \in Seq(Reference)
         \* parse_requirement refuses a pin its own specifier excludes.
         /\ \A l \in t[p].lines : l.exact # 0 => l.exact \in l.range

VARIABLES
    tree,        \* the source, as the controller admitted it
    config,      \* the limits of this build
    stage,       \* "list", "follow", "compose", "done"
    pending,     \* files still to read, then seeds, then origins
    record,      \* disposition of each path in the coverage
    cut,         \* the listing met its entry budget
    contexts,    \* <<origin, path, role>> the walk visited
    references,  \* the references it followed, with what became of them
    stack,       \* the walk of one origin: frames [path, role, next]
    targets,     \* files this origin has included
    claimed,     \* paths that belong to an origin already composed
    unresolved,  \* parsed inputs that composition could not settle
    refused,     \* some refusal of composition entered the coverage
    occurrences, \* [origin, path, line, version]
    inventory    \* "none", "failed", "partial", "complete"

compositionVars == <<tree, config, stage, pending, record, cut, contexts, references, stack,
                     targets, claimed, unresolved, refused, occurrences, inventory>>

CompositionTypeOK ==
    /\ config \in Configs
    /\ stage \in {"list", "follow", "compose", "done"}
    /\ pending \subseteq Paths
    /\ record \in [Paths -> {"none", "parsed", "ignored", "unsupported", "failed", "omitted",
                             "set-aside"}]
    /\ {cut, refused} \subseteq BOOLEAN
    /\ contexts \subseteq Paths \X Paths \X Roles
    /\ \A f \in Range(stack) : f.path \in Paths /\ f.role \in Roles /\ f.next \in Nat
    /\ targets \cup claimed \cup unresolved \subseteq Paths
    /\ inventory \in {"none", "failed", "partial", "complete"}
    /\ \A o \in occurrences :
         /\ o.origin \in Paths /\ o.line \in tree[o.path].lines /\ o.version \in {0} \cup Versions

CompositionInit(t, c) ==
    /\ tree = t /\ config = c
    /\ stage = "list"
    /\ pending = {p \in Paths : tree[p].kind # "absent"}
    /\ record = [p \in Paths |-> "none"]
    /\ cut = FALSE /\ refused = FALSE
    /\ contexts = {} /\ references = {} /\ stack = <<>> /\ targets = {}
    /\ claimed = {} /\ unresolved = {} /\ occurrences = {}
    /\ inventory = "none"

(***************************************************************************)
(* Reading one file (requirements.parse and load in discover).             *)
(***************************************************************************)

\* Slip: a refused line is left out and the rest of the file kept.
ParsedLeniently(p, explicit) ==
    IF explicit \/ tree[p].kind = "requirements" \/ tree[p].refs # <<>>
          \/ \E l \in tree[p].lines : l.range # Versions \/ l.marker # "any"
    THEN "parsed" ELSE "set-aside"

\* One refused line or reference leaves only the references of a file. A name
\* that is not requirements*.txt must say something no prose would say, unless
\* a reference names it: else it is set aside (ignored, but read again then).
Parsed(p, explicit) ==
    LET file == tree[p]
        recognized == explicit \/ file.kind = "requirements"
        meaningful == \/ file.refs # <<>>
                      \/ \E l \in file.lines : l.range # Versions \/ l.marker # "any"
    IN IF ~recognized /\ ~meaningful THEN "set-aside"
       ELSE IF file.bad \/ \E i \in DOMAIN file.refs : file.refs[i].target = 0 THEN "failed"
       ELSE "parsed"

Loaded(p, explicit) ==
    IF record[p] # "none" /\ ~(explicit /\ record[p] = "set-aside") THEN record[p]
    ELSE CASE tree[p].kind = "ignored" -> "ignored"
           [] tree[p].kind \in {"absent", "unreadable"} -> "failed"
           [] tree[p].kind = "foreign" -> "unsupported"
           [] OTHER -> Parsed(p, explicit)

\* The document of a path, given the coverage r: a file that could not be read has none.
HasDocument(r, p) ==
    /\ r[p] \in {"parsed", "set-aside", "failed"}
    /\ tree[p].kind \notin {"absent", "unreadable"}

References(r, p) ==
    IF HasDocument(r, p) /\ r[p] # "set-aside" THEN tree[p].refs ELSE <<>>

Lines(r, p) == IF r[p] = "parsed" THEN tree[p].lines ELSE {}

(***************************************************************************)
(* Discovery.                                                              *)
(***************************************************************************)

ReadNext ==
    /\ stage = "list" /\ pending # {}
    /\ LET p == Min(pending) IN
       /\ pending' = pending \ {p}
       /\ record' = [record EXCEPT ![p] =
                       IF tree[p].kind = "unlisted" THEN "none" ELSE Loaded(p, FALSE)]
    /\ UNCHANGED <<tree, config, stage, cut, contexts, references, stack, targets,
                   claimed, unresolved, refused, occurrences, inventory>>

\* Every document read is the seed of a walk of its own.
BeginWalks ==
    /\ stage = "list" /\ pending = {}
    /\ stage' = "follow"
    /\ pending' = {p \in Paths : HasDocument(record, p)}
    /\ UNCHANGED <<tree, config, record, cut, contexts, references, stack, targets,
                   claimed, unresolved, refused, occurrences, inventory>>

Frame(path, role) == [path |-> path, role |-> role, next |-> 1]

Visit(origin) ==
    LET role == IF tree[origin].kind = "constraints" THEN "constraint" ELSE "requirement" IN
    /\ stage = "follow" /\ stack = <<>> /\ pending # {} /\ origin = Min(pending)
    /\ pending' = pending \ {origin}
    /\ stack' = <<Frame(origin, role)>>
    /\ targets' = {}
    /\ contexts' = contexts \cup {<<origin, origin, role>>}
    /\ UNCHANGED <<tree, config, stage, record, cut, references, claimed, unresolved,
                   refused, occurrences, inventory>>

Origin == stack[1].path
Top == Last(stack)
Ancestry == {stack[i].path : i \in DOMAIN stack}

RoleOf(ref) ==
    IF Top.role = "constraint" \/ ref.kind = "constraint" THEN "constraint" ELSE "requirement"

\* What the walk says of a reference it does not follow.
NotFollowed(ref) ==
    IF ref.target = 0 \/ ref.target \in Ancestry THEN "failed"
    ELSE IF \/ Len(stack) > config.include_depth
            \/ ref.target \notin targets /\ Cardinality(targets) >= config.include_targets
    THEN "omitted"
    ELSE CASE tree[ref.target].kind = "ignored" -> "ignored"
           [] tree[ref.target].kind = "foreign" -> "failed"
           [] OTHER -> "none"

Noted(ref, disposition) ==
    [origin |-> Origin, source |-> Top.path, line |-> Top.next, target |-> ref.target,
     role |-> RoleOf(ref), disposition |-> disposition]

Advanced == [stack EXCEPT ![Len(stack)].next = @ + 1]

Follow ==
    /\ stage = "follow" /\ stack # <<>>
    /\ Top.next \in DOMAIN References(record, Top.path)
    /\ LET ref == References(record, Top.path)[Top.next]
           t == ref.target
           role == RoleOf(ref)
       IN IF NotFollowed(ref) # "none"
          THEN /\ references' = references \cup {Noted(ref, NotFollowed(ref))}
               /\ stack' = Advanced
               /\ UNCHANGED <<record, contexts, targets>>
          ELSE /\ record' = [record EXCEPT ![t] = Loaded(t, TRUE)]
               /\ targets' = targets \cup {t}
               /\ references' = references \cup {Noted(ref, record'[t])}
               /\ IF HasDocument(record', t) /\ <<Origin, t, role>> \notin contexts
                  THEN /\ contexts' = contexts \cup {<<Origin, t, role>>}
                       /\ stack' = Append(Advanced, Frame(t, role))
                  ELSE stack' = Advanced /\ UNCHANGED contexts
    /\ UNCHANGED <<tree, config, stage, pending, cut, claimed, unresolved, refused, occurrences, inventory>>

Return ==
    /\ stage = "follow" /\ stack # <<>>
    /\ Top.next > Len(References(record, Top.path))
    /\ stack' = Front(stack)
    /\ UNCHANGED <<tree, config, stage, pending, record, cut, contexts, references, targets,
                   claimed, unresolved, refused, occurrences, inventory>>

(***************************************************************************)
(* Origins: one per component of the include graph that nothing outside it *)
(* includes, cycles and refused parents among them (_origins).             *)
(***************************************************************************)

Documents == {p \in Paths : HasDocument(record, p)}

Targets(p) == {r.target : r \in Range(References(record, p))} \cap Documents

Origins ==
    LET below == [p \in Documents |-> Reached({p}, [q \in Documents |-> Targets(q)])]
        group(p) == {q \in below[p] : p \in below[q]}
        outermost == {p \in Documents : \A q \in Documents : p \in below[q] => q \in below[p]}
        eligible == {p \in Documents : record[p] = "parsed" \/ References(record, p) # <<>>}
    IN {Min(group(p) \cap eligible) : p \in outermost \cap eligible}

BeginComposition ==
    /\ \/ stage = "follow" /\ stack = <<>> /\ pending = {}
          /\ cut' = cut
       \* The listing met its entry budget: what was read is composed, nothing is walked.
       \/ stage = "list" /\ pending # {}
          /\ cut' = TRUE
    /\ stage' = "compose"
    /\ pending' = Origins
    /\ UNCHANGED <<tree, config, record, contexts, references, stack, targets, claimed,
                   unresolved, refused, occurrences, inventory>>

(***************************************************************************)
(* Composition of one origin.                                              *)
(***************************************************************************)

\* An origin the walk never reached counts as a requirement file, alone.
Visited(o) ==
    LET walked == {<<c[2], c[3]>> : c \in {x \in contexts : x[1] = o}}
    IN IF walked = {} THEN {<<o, "requirement">>} ELSE walked

\* The declarations in reach of an origin, in one of the two roles.
Declarations(o, role) ==
    UNION {[path : {v[1]}, line : Lines(record, v[1])] : v \in {x \in Visited(o) : x[2] = role}}

Disjoint(m, n) == {m, n} = {"m", "not-m"}

\* Slip: only the requirements themselves are evidence, not the constraints.
EvidenceOfRequirements(o, name, marker) ==
    {d.line : d \in {e \in Declarations(o, "requirement") :
                       e.line.name = name /\ e.line.marker \in {marker, "any"}}}

\* What bears on the requirements of one name and marker.
Evidence(o, name, marker) ==
    {d.line : d \in {e \in Declarations(o, "requirement") \cup Declarations(o, "constraint") :
                       e.line.name = name /\ e.line.marker \in {marker, "any"}}}

Compatible(o, name, marker) ==
    LET lines == Evidence(o, name, marker)
    IN {l.exact : l \in {k \in lines : k.exact # 0 /\ \A other \in lines : k.exact \in other.range}}

Ranges(o, name, marker) ==
    {d.line.range : d \in {e \in Declarations(o, "requirement") :
                             e.line.name = name /\ e.line.marker = marker}}

\* Why an origin gets no selected version at all (local_failure).
Undecided(o) ==
    \/ \E r \in references : r.origin = o /\ r.disposition # "parsed"
    \/ \E v \in Visited(o) : record[v[1]] # "parsed"
    \/ \E d, e \in Declarations(o, "requirement") :
         /\ d.line.name = e.line.name /\ d.line.marker # e.line.marker
         /\ "any" \notin {d.line.marker, e.line.marker}
         /\ Ranges(o, d.line.name, d.line.marker) # Ranges(o, e.line.name, e.line.marker)
         /\ ~Disjoint(d.line.marker, e.line.marker)
    \/ \E d \in Declarations(o, "requirement"), c \in Declarations(o, "constraint") :
         /\ d.line.name = c.line.name /\ c.line.marker \notin {"any", d.line.marker}
         /\ ~Disjoint(d.line.marker, c.line.marker)
    \/ \E d \in Declarations(o, "requirement") :
         LET n == d.line.name
             m == d.line.marker
         IN \/ Compatible(o, n, m) = {} /\ \E l \in Evidence(o, n, m) : l.exact # 0
            \/ Cardinality(Compatible(o, n, m)) > 1

Selected(o, line) ==
    LET versions == Compatible(o, line.name, line.marker)
    IN IF Undecided(o) \/ versions = {} THEN 0
       ELSE IF line.exact \in versions THEN line.exact ELSE Min(versions)

Compose(o) ==
    LET required == Declarations(o, "requirement")
        visited == {v[1] : v \in Visited(o)}
        selected == {[origin |-> o, path |-> d.path, line |-> d.line,
                      version |-> Selected(o, d.line)] : d \in required}
    IN
    /\ stage = "compose" /\ pending # {} /\ o = Min(pending)
    /\ pending' = pending \ {o}
    /\ IF o \in claimed
       THEN UNCHANGED <<claimed, unresolved, refused, occurrences>>
       ELSE /\ claimed' = claimed \cup visited \cup
                            {r.target : r \in {x \in references : x.origin = o /\ x.target \in Documents}}
            /\ occurrences' = occurrences \cup selected
            /\ refused' = (refused \/ Undecided(o))
            /\ unresolved' = unresolved
                 \cup (IF Undecided(o) \/ required = {} THEN visited ELSE {})
                 \cup {s.path : s \in {x \in selected : x.version = 0}}
    /\ UNCHANGED <<tree, config, stage, record, cut, contexts, references, stack, targets, inventory>>

Settled(p) ==
    record[p] \in {"none", "ignored", "set-aside"} \/ (record[p] = "parsed" /\ p \notin unresolved)

\* The claims of the coverage: discovery, enumeration, versions (and Inventory's
\* own check that nothing incomplete is promoted).
Whole ==
    /\ ~cut /\ ~refused
    /\ \A p \in Paths : Settled(p)
    /\ \A r \in references : r.disposition \in {"parsed", "ignored"}
    /\ occurrences # {}
    /\ \A o \in occurrences : o.version # 0

Publish ==
    /\ stage = "compose" /\ pending = {}
    /\ stage' = "done"
    /\ inventory' = IF Whole THEN "complete" ELSE "partial"
    /\ UNCHANGED <<tree, config, pending, record, cut, contexts, references, stack, targets,
                   claimed, unresolved, refused, occurrences>>

\* A changed source, the deadline or a budget: no record survives (build_failed).
Refuse ==
    /\ stage # "done"
    /\ stage' = "done"
    /\ inventory' = "failed"
    /\ occurrences' = {}
    /\ pending' = {}
    /\ stack' = <<>>
    /\ UNCHANGED <<tree, config, record, cut, contexts, references, targets, claimed, unresolved, refused>>

CompositionNext ==
    \/ ReadNext \/ BeginWalks \/ Follow \/ Return \/ BeginComposition \/ Publish \/ Refuse
    \/ \E p \in Paths : Visit(p) \/ Compose(p)

CompositionSpec ==
    (\E t \in Trees, c \in Configs : CompositionInit(t, c)) /\ [][CompositionNext]_compositionVars

(***************************************************************************)
(* Properties.                                                             *)
(***************************************************************************)

\* The lines a file brings in by the text of the tree alone, as pip reads it:
\* everything its references lead to, a constraint below any -c.
Leads(spot) ==
    {<<ref.target, IF spot[2] = "constraint" \/ ref.kind = "constraint"
                   THEN "constraint" ELSE "requirement">> :
        ref \in {r \in Range(tree[spot[1]].refs) : r.target # 0}}

Applicable(o) ==
    LET role == IF tree[o].kind = "constraints" THEN "constraint" ELSE "requirement"
    IN Reached({<<o, role>>}, [s \in Paths \X {"requirement", "constraint"} |-> Leads(s)])

\* What the tree says of the package of an occurrence, where both may apply.
Bearing(occurrence) ==
    {l \in UNION {tree[s[1]].lines : s \in Applicable(occurrence.origin)} :
        l.name = occurrence.line.name /\ ~Disjoint(l.marker, occurrence.line.marker)}

Pinned(occurrence) ==
    /\ <<occurrence.path, "requirement">> \in Applicable(occurrence.origin)
    /\ \E l \in Bearing(occurrence) : l.exact = occurrence.version

\* A requirement without a marker is not held against those that have one
\* (compose_requirements.py:425-434): where one of them pins a local build ("==1.0" admits
\* "1.0+cpu"), it keeps its own version. Another pin then meets them both.
Justified(occurrence) ==
    /\ Pinned(occurrence)
    /\ \A l \in Bearing(occurrence) :
         \/ occurrence.version \in l.range
         \/ /\ occurrence.line.marker = "any" /\ l.marker # "any"
            /\ \E k \in Bearing(occurrence) : k.exact # 0 /\ k.exact \in l.range \cap occurrence.line.range

\* A selected version is an exact pin that every requirement and constraint in
\* reach of its origin admits, the includes taken from the text of the tree and
\* not from the walk (compose_requirements.py:389-478): no order of files, shared
\* include or second role hides a constraint. Said of the origins that were the
\* seed of a walk; the others are the finding of SelectionsSatisfyApplicableRanges.
SelectionsJustified ==
    \A o \in occurrences :
        o.version # 0 /\ (\E c \in contexts : c[1] = o.origin) => Justified(o)

\* The same of every origin, when the listing was not cut: "An occurrence can select a version only from an
\* actual exact source pin that satisfies all applicable source ranges"
\* (docs/M046-requirements-composition.md:32-33).
SelectionsSatisfyApplicableRanges ==
    ~cut => \A o \in occurrences :
        o.version # 0 => Pinned(o) /\ \A l \in Bearing(o) : o.version \in l.range

\* A complete inventory has a version for every requirement of every file that
\* is a requirements file by name or by a reference, no line of them refused, and
\* no reference of them left unread (compose_requirements.py:632-643). What some file
\* takes for a constraint need not be a package: "Unused constraints do not become packages"
\* (docs/M046-requirements-composition.md:41-42).
CompleteMeansCovered ==
    inventory = "complete" =>
        \A p \in Paths : /\ tree[p].kind \in {"requirements", "unreadable"}
                         /\ \A q \in Paths : <<p, "constraint">> \notin Applicable(q)
          =>
            \A s \in Applicable(p) :
                /\ tree[s[1]].kind \notin {"absent", "unreadable", "ignored", "foreign"}
                /\ ~tree[s[1]].bad
                /\ s[2] = "requirement" =>
                     \A l \in tree[s[1]].lines :
                         \E o \in occurrences : o.path = s[1] /\ o.line = l /\ o.version # 0
=============================================================================
