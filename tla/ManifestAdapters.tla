--------------------------- MODULE ManifestAdapters ---------------------------
(***************************************************************************)
(* What inventory/ makes of one manifest: the parsers of pyproject.toml,   *)
(* setup.cfg, setup.py, package.json, Cargo.toml and METADATA, and the     *)
(* adapters that select a version for what they declare. A requirement is  *)
(* the set of versions it admits, and the one it pins, 0 for none. setup.py *)
(* is not run: its statements are walked, and what is no literal refused.  *)
(***************************************************************************)
EXTENDS LockSources

CONSTANT Manifests  \* [format, flaws, lines, script, lists, identity, python, markers, edition]

\* table: the section a line stands in; optional groups have a name, the others none.
ManifestLine ==
    [name : STRING, range : SUBSET Nat, exact : Nat, marker : Conditions,
     table : {"runtime", "build", "test", "optional", "legacy"}, group : STRING]

\* import what as as, as = value, as(value) for what as is to be, or anything else; a
\* value is the list of that number, or a name.
Statement ==
    [does : {"import", "assign", "call", "other"}, as : STRING, what : {"", "setup", "module"},
     value : [name : STRING, list : Nat]]

\* package.json lists a name once in a table, and a version admits itself.
ASSUME ManifestAssumption ==
    \A m \in Manifests :
        /\ m.lines \subseteq ManifestLine /\ m.identity \in ManifestLine
        /\ m.script \in Seq(Statement) /\ m.lists \in Seq(SUBSET ManifestLine)
        /\ \A k \in DOMAIN m.script : m.script[k].value.list \in 0..Len(m.lists)
        /\ m.format = "package.json" =>
             \A a \in m.lines : /\ a.exact \in a.range \cup {0}
                                /\ \A b \in m.lines \ {a} : a.name # b.name \/ a.table # b.table

VARIABLES
    manifest,   \* the file, and the target the inventory is for
    reading,    \* "parse", "walk", "select", "publish", "done", "refused"
    statement,  \* the statement of setup.py the walk is at
    literals,   \* names bound to lists: <<name, list>>
    aliases,    \* names bound by imports: <<name, "setup" or "module">>
    setups,     \* the list each call of setup() was given
    declared,   \* the lines the adapter takes over
    failure,    \* some key has no single answer
    published   \* occurrences: a line with the version selected and its activation

manifestVars ==
    <<manifest, reading, statement, literals, aliases, setups, declared, failure, published>>

ManifestInit(m) ==
    /\ manifest = m /\ reading = "parse" /\ statement = 1
    /\ literals = {} /\ aliases = {} /\ setups = <<>>
    /\ declared = {} /\ failure = FALSE /\ published = {}

ManifestTypeOK ==
    /\ reading \in {"parse", "walk", "select", "publish", "done", "refused"}
    /\ \A l \in declared : l \in ManifestLine
    /\ failure \in BOOLEAN
    /\ \A o \in published :
         /\ o.line \in declared \cup {manifest.identity} /\ o.version \in Nat
         /\ o.activation \in {"active", "inactive", "unknown"}

-----------------------------------------------------------------------------
(* The parsers. Whatever they refuse, nothing of the file is taken over.   *)

PyprojectFlaws ==
    {"field", "dynamic metadata", "no identity", "tool dependencies", "group", "duplicate group",
     "build field", "dependency groups", "python", "reference or hash", "value", "version", "records"}

CfgFlaws ==
    {"defaults", "duplicate option", "legacy metadata", "option", "section", "group",
     "duplicate group", "interpolation", "file or attr", "python", "value", "version",
     "reference or hash", "records"}

SetupFlaws ==
    {"tokens", "nesting", "syntax", "field", "group", "duplicate group", "python", "value", "version",
     "reference or hash", "records"}

MetadataFlaws ==
    {"egg-info", "header", "field size", "requirement", "extra", "import names", "core metadata",
     "identity", "directory disagrees", "license field"}

\* A dependency of package.json that is at fault is left out on its own.
FlawsOfManifest ==
    CASE manifest.format = "pyproject" -> PyprojectFlaws
      [] manifest.format = "setup.cfg" -> CfgFlaws
      [] manifest.format = "setup.py" -> SetupFlaws
      [] manifest.format = "package.json" -> {}
      [] manifest.format = "Cargo.toml" -> {"name", "requirement", "boolean", "target"}
      [] manifest.format = "METADATA" -> MetadataFlaws

RefuseManifest ==
    /\ reading = "parse" /\ manifest.flaws \cap FlawsOfManifest # {}
    /\ reading' = "refused"
    /\ UNCHANGED <<manifest, statement, literals, aliases, setups, declared, failure, published>>

Readable(formats) ==
    reading = "parse" /\ manifest.format \in formats /\ manifest.flaws \cap FlawsOfManifest = {}

ReadTables ==
    /\ Readable({"pyproject", "setup.cfg"})
    /\ declared' = manifest.lines /\ reading' = "select"
    /\ UNCHANGED <<manifest, statement, literals, aliases, setups, failure, published>>

BeginScript ==
    /\ Readable({"setup.py"})
    /\ reading' = "walk"
    /\ UNCHANGED <<manifest, statement, literals, aliases, setups, declared, failure, published>>

-----------------------------------------------------------------------------
(* setup.py, statement by statement: an import, an assignment, a call of   *)
(* setup, or something else.                                               *)

Imported == {a[1] : a \in aliases}

Literal(name) == \E b \in literals : b[1] = name

\* The list a value stands for; 0 if it is no literal.
ValueOf(value) ==
    IF value.list # 0 THEN value.list
    ELSE IF Literal(value.name) THEN (CHOOSE b \in literals : b[1] = value.name)[2] ELSE 0

WalkOn ==
    /\ reading = "walk" /\ statement <= Len(manifest.script)
    /\ statement' = statement + 1

DynamicMetadata ==
    /\ reading' = "refused"
    /\ UNCHANGED <<manifest, statement, literals, aliases, setups, declared, failure, published>>

\* An import may neither rebind a literal nor a name imported before.
WalkImport ==
    /\ WalkOn
    /\ LET s == manifest.script[statement]
       IN /\ s.does = "import" /\ s.as \notin Imported /\ ~Literal(s.as)
          /\ aliases' = aliases \cup {<<s.as, s.what>>}
    /\ UNCHANGED <<manifest, reading, literals, setups, declared, failure, published>>

\* Slip: the names of imports may be assigned.
WalkAssignOverImport ==
    /\ WalkOn
    /\ LET s == manifest.script[statement]
       IN /\ s.does = "assign" /\ ValueOf(s.value) # 0
          /\ literals' = {b \in literals : b[1] # s.as} \cup {<<s.as, ValueOf(s.value)>>}
    /\ UNCHANGED <<manifest, reading, aliases, setups, declared, failure, published>>

WalkAssign ==
    /\ WalkOn
    /\ LET s == manifest.script[statement]
       IN /\ s.does = "assign" /\ s.as \notin Imported /\ ValueOf(s.value) # 0
          /\ literals' = {b \in literals : b[1] # s.as} \cup {<<s.as, ValueOf(s.value)>>}
    /\ UNCHANGED <<manifest, reading, aliases, setups, declared, failure, published>>

WalkCall ==
    /\ WalkOn
    /\ LET s == manifest.script[statement]
       IN /\ s.does = "call" /\ <<s.as, s.what>> \in aliases /\ ValueOf(s.value) # 0
          /\ setups' = Append(setups, ValueOf(s.value))
    /\ UNCHANGED <<manifest, reading, literals, aliases, declared, failure, published>>

RefuseStatement ==
    /\ reading = "walk" /\ statement <= Len(manifest.script)
    /\ LET s == manifest.script[statement]
       IN \/ s.does = "other"
          \/ s.does = "import" /\ (s.as \in Imported \/ Literal(s.as))
          \/ s.does = "assign" /\ (s.as \in Imported \/ ValueOf(s.value) = 0)
          \/ s.does = "call" /\ (<<s.as, s.what>> \notin aliases \/ ValueOf(s.value) = 0)
    /\ DynamicMetadata

EndScript ==
    /\ reading = "walk" /\ statement > Len(manifest.script)
    /\ IF Len(setups) = 1
       THEN /\ declared' = manifest.lists[setups[1]] /\ reading' = "select"
            /\ UNCHANGED <<manifest, statement, literals, aliases, setups, failure, published>>
       ELSE DynamicMetadata

-----------------------------------------------------------------------------
(* Selection among the declarations of one name, scope and group.          *)

SameKey(a, b) == a.name = b.name /\ a.table = b.table /\ a.group = b.group

\* Slip: the markers of two declarations are not compared.
NeverOverlap(a, b) == FALSE

\* Declarations of different markers that may apply together.
Overlaps(a, b) == SameKey(a, b) /\ a.marker # b.marker /\ ~Exclusive(a.marker, b.marker)

Together(line) == {d \in declared : SameKey(d, line) /\ d.marker = line.marker}

CompatiblePins(line) ==
    {d.exact : d \in {d \in Together(line) : d.exact # 0 /\ \A e \in Together(line) : d.exact \in e.range}}

\* One key without a single answer takes the answers of the whole manifest back.
SelectVersions ==
    /\ reading = "select"
    /\ failure' = \/ \E a, b \in declared : Overlaps(a, b)
                  \/ \E d \in declared : /\ \E e \in Together(d) : e.exact # 0
                                         /\ CompatiblePins(d) = {}
                  \/ \E d \in declared : Cardinality(CompatiblePins(d)) > 1
    /\ reading' = "publish"
    /\ UNCHANGED <<manifest, statement, literals, aliases, setups, declared, published>>

SelectedPin(line) ==
    IF failure \/ CompatiblePins(line) = {} THEN 0 ELSE CHOOSE v \in CompatiblePins(line) : TRUE

\* A marker asks for an input: given, or not. What builds the project runs elsewhere.
MarkerActivation(line) ==
    CASE line.marker = "any" -> "active"
      [] line.marker = "other" \/ manifest.markers = "unknown" \/ line.table = "build" -> "unknown"
      [] OTHER -> IF line.marker = manifest.markers THEN "active" ELSE "inactive"

\* Requires-Python speaks of the project, not of what builds it; nobody asked for a group.
ActivationOf(line) ==
    LET python == IF line.table = "build" THEN "active" ELSE manifest.python
    IN IF MarkerActivation(line) = "inactive" \/ python = "inactive" THEN "inactive"
       ELSE IF python = "unknown" \/ line.table = "optional" THEN "unknown"
       ELSE MarkerActivation(line)

Occurrence(line, version, activation) == [line |-> line, version |-> version, activation |-> activation]

PublishDeclared ==
    /\ reading = "publish"
    /\ published' = {Occurrence(l, SelectedPin(l), ActivationOf(l)) : l \in declared}
    /\ reading' = "done"
    /\ UNCHANGED <<manifest, statement, literals, aliases, setups, declared, failure>>

-----------------------------------------------------------------------------
(* The other manifests.                                                    *)

\* package.json: each dependency selects the version it is, if it is one.
ReadPackage ==
    /\ Readable({"package.json"})
    /\ declared' = manifest.lines
    /\ published' = {Occurrence(l, l.exact, "unknown") : l \in manifest.lines}
    /\ reading' = "done"
    /\ UNCHANGED <<manifest, statement, literals, aliases, setups, failure>>

\* Cargo.toml: the spelling with a hyphen hides the legacy table, which the 2024
\* edition has not; no requirement selects a version.
CargoTables ==
    IF manifest.edition = "2024" \/ \E l \in manifest.lines : l.table = "build"
    THEN {l \in manifest.lines : l.table # "legacy"}
    ELSE manifest.lines

ReadCargo ==
    /\ Readable({"Cargo.toml"})
    /\ declared' = CargoTables /\ reading' = "done"
    /\ UNCHANGED <<manifest, statement, literals, aliases, setups, failure, published>>

\* METADATA: the distribution itself is installed; what it requires selects nothing.
ReadInstalled ==
    /\ Readable({"METADATA"})
    /\ declared' = manifest.lines /\ reading' = "done"
    /\ published' = {Occurrence(manifest.identity, manifest.identity.exact, "unknown")}
    /\ UNCHANGED <<manifest, statement, literals, aliases, setups, failure>>

ManifestNext ==
    \/ RefuseManifest \/ ReadTables \/ BeginScript
    \/ WalkImport \/ WalkAssign \/ WalkCall \/ RefuseStatement \/ EndScript
    \/ SelectVersions \/ PublishDeclared
    \/ ReadPackage \/ ReadCargo \/ ReadInstalled

ManifestSpec == (\E m \in Manifests : ManifestInit(m)) /\ [][ManifestNext]_manifestVars

-----------------------------------------------------------------------------
(* Properties.                                                             *)

\* What an interpreter makes of the first n statements: what each name is bound to, the
\* lists setup() was given, and whether it got that far.
Bound(names, name) ==
    IF \E b \in names : b[1] = name THEN (CHOOSE b \in names : b[1] = name)[2] ELSE <<"nothing", 0>>

Rebound(names, name, value) == {b \in names : b[1] # name} \cup {<<name, value>>}

Evaluated(names, v) == IF v.list # 0 THEN <<"list", v.list>> ELSE Bound(names, v.name)

Execute(state, s) ==
    IF ~state.runs \/ s.does = "other" THEN [state EXCEPT !.runs = FALSE]
    ELSE IF s.does = "import"
    THEN [state EXCEPT !.names = Rebound(@, s.as, <<s.what, 0>>)]
    ELSE LET v == Evaluated(state.names, s.value)
         IN IF v[1] = "nothing" THEN [state EXCEPT !.runs = FALSE]
            ELSE IF s.does = "assign" THEN [state EXCEPT !.names = Rebound(@, s.as, v)]
            ELSE [state EXCEPT !.runs = Bound(state.names, s.as) = <<s.what, 0>>, !.calls = Append(@, v)]

Executed(script) ==
    LET run[n \in 0..Len(script)] ==
          IF n = 0 THEN [names |-> {}, calls |-> <<>>, runs |-> TRUE] ELSE Execute(run[n - 1], script[n])
    IN run

Interpreted(script) == Executed(script)[Len(script)]

\* A setup.py that is taken over runs to its end and calls setup() once, with the very
\* requirements the walk read off it.
StaticMeansExecuted ==
    manifest.format = "setup.py" /\ reading \in {"select", "publish", "done"} =>
      LET outcome == Interpreted(manifest.script)
      IN outcome.runs /\ outcome.calls = <<<<"list", setups[1]>>>>

\* A version that is selected for a declaration is pinned by one that applies in the same
\* cases, and admitted by every one of its scope and group that may apply together with it.
ManifestPinsAgree ==
    \A o \in published :
      o.version # 0 /\ o.line # manifest.identity =>
        /\ \E d \in Together(o.line) : d.exact = o.version
        /\ \A d \in declared :
             SameKey(d, o.line) /\ ~Exclusive(d.marker, o.line.marker) => o.version \in d.range
=============================================================================
