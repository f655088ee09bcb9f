------------------------------ MODULE LockSources ------------------------------
(***************************************************************************)
(* What the parsers of inventory/ make of one lock file: the rows they     *)
(* keep, and whether they understood all of it. A row is given by what the *)
(* adapters compare of it and, if its parser finds fault with it, by one   *)
(* flaw; a requirement by the set of versions it admits, empty when it is  *)
(* outside the grammar. 0 is a version, source or variant not given.       *)
(***************************************************************************)
EXTENDS Integers, Sequences, FiniteSets

GroupedFormats == {"pipfile", "poetry", "pdm"}
PythonFormats == GroupedFormats \cup {"pylock", "uv"}
YarnFormats == {"yarn", "classic"}
LockFormats == {"npm", "pnpm", "cargo", "nuget", "composer", "bundler", "gradle"}
                 \cup PythonFormats \cup YarnFormats

\* "m" and "not-m" exclude each other, "other" may hold with either.
Conditions == {"any", "m", "not-m", "other"}
Exclusive(a, b) == {a, b} = {"m", "not-m"}

\* foreign: of a protocol the adapter does not follow. variant: the peer context of
\* a pnpm snapshot, the extras of a pdm row.
LockRef ==
    [name : STRING, range : SUBSET Nat, version : Nat, source : Nat, variant : Nat,
        scope : {"runtime", "optional", "peer"}, foreign : BOOLEAN, marker : Conditions]

\* above: the packages whose node_modules nest the row. descriptors: the <<name,
\* range>> a yarn row answers to. bare: in the package table of a pnpm lock, not among
\* its snapshots. group: a dependency group, a NuGet target. scopes: flags of an npm
\* row, Composer's section, Gradle configurations.
LockRow ==
    [name : STRING, version : Nat, source : Nat, variant : Nat, above : Seq(STRING),
        descriptors : SUBSET (STRING \X SUBSET Nat), bare : BOOLEAN, group : Nat,
        scopes : SUBSET STRING, direct : BOOLEAN, marker : Conditions, flaw : STRING,
        refs : Seq(LockRef)]

-----------------------------------------------------------------------------
(* The flaws each parser tells apart: those that leave the row out, those  *)
(* that leave it in with a note, those that refuse the file.               *)

Effects(left, noted, refusing) == [left |-> left, noted |-> noted, refusing |-> refusing]

NpmFlaws ==
    Effects({"path", "link", "alias", "version", "source", "integrity", "flag", "reference", "record"},
            {"nested selection", "peer or extraneous", "control"}, {})

YarnFlaws ==
    Effects({"descriptor", "alias", "version", "source", "integrity", "language", "boolean", "record"},
            {"control", "no resolution", "link type", "checksum", "condition"}, {})

\* The package table and the snapshots of a pnpm lock.
PnpmTableFlaws ==
    Effects({"identity", "variant", "alias", "source", "revision", "integrity", "record"},
            {"control", "no resolution", "platform", "peers"}, {})
PnpmSnapshotFlaws ==
    Effects({"identity", "boolean", "peer list", "reference", "record"},
            {"control", "peers"}, {})

\* A Cargo row that is left out still stands in the way of others of its name.
CargoFlaws ==
    Effects({"not of a registry", "replaced"}, {"control"},
            {"name", "version", "source", "checksum", "reference", "record"})

PipfileFlaws ==
    Effects({}, {"no hash"},
            {"name", "version", "not exact", "marker", "extras", "hash", "unknown index", "record"})
PylockFlaws ==
    Effects({}, {"no artifact"},
            {"name", "version", "marker", "source", "artifact", "reference", "record"})
PoetryFlaws ==
    Effects({}, {"no artifact"},
            {"name", "version", "extras", "source", "artifact", "groups", "marker", "optional reference",
             "reference twice", "record"})
PdmFlaws ==
    Effects({}, {"no artifact"},
            {"name", "version", "groups", "marker", "static url", "artifact", "reference", "record"})
UvFlaws ==
    Effects({}, {"no artifact"},
            {"name", "version", "source", "environment", "artifact", "reference", "record"})

ComposerFlaws ==
    Effects({"type", "version", "local", "virtual"}, {"artifact", "branch alias", "graph"},
            {"name", "record"})
BundlerFlaws == Effects({}, {"graph"}, {"version", "platform", "grammar"})
NugetFlaws ==
    Effects({"control", "project"}, {"no request", "unassessed request", "hash"},
            {"name", "version", "contradicted request", "reference", "record"})
GradleFlaws == Effects({}, {}, {"coordinate", "dynamic version", "configurations"})

FlawsOf(format, bare) ==
    CASE format = "npm"        -> NpmFlaws
      [] format \in YarnFormats -> YarnFlaws
      [] format = "pnpm"       -> IF bare THEN PnpmTableFlaws ELSE PnpmSnapshotFlaws
      [] format = "cargo"      -> CargoFlaws
      [] format = "pipfile"    -> PipfileFlaws
      [] format = "pylock"     -> PylockFlaws
      [] format = "poetry"     -> PoetryFlaws
      [] format = "pdm"        -> PdmFlaws
      [] format = "uv"         -> UvFlaws
      [] format = "composer"   -> ComposerFlaws
      [] format = "bundler"    -> BundlerFlaws
      [] format = "nuget"      -> NugetFlaws
      [] format = "gradle"     -> GradleFlaws

Verdict(l, i) ==
    LET flaws == FlawsOf(l.format, l.rows[i].bare)
    IN CASE l.rows[i].flaw \in flaws.left     -> "left out"
         [] l.rows[i].flaw \in flaws.noted    -> "noted"
         [] l.rows[i].flaw \in flaws.refusing -> "refused"
         [] OTHER                             -> "kept"

-----------------------------------------------------------------------------
(* Rows that do not go together.                                           *)

Named(l, i, j) == i # j /\ l.rows[i].name = l.rows[j].name

\* A snapshot needs its row in the package table; that row stands for itself only
\* when no snapshot uses it.
PnpmBound(l, i) ==
    LET partner(j) == /\ l.rows[j].bare # l.rows[i].bare /\ Named(l, i, j)
                      /\ l.rows[j].version = l.rows[i].version /\ Verdict(l, j) # "left out"
    IN l.rows[i].bare # \E j \in DOMAIN l.rows : partner(j)

\* Descriptors two rows of a yarn lock list have no owner.
YarnBlocked(l) ==
    {d \in UNION {l.rows[i].descriptors : i \in DOMAIN l.rows} :
        Cardinality({i \in DOMAIN l.rows : d \in l.rows[i].descriptors}) > 1}

CargoTwice(l) ==
    \E i, j \in DOMAIN l.rows :
        Named(l, i, j) /\ l.rows[i].version = l.rows[j].version /\ l.rows[i].source = l.rows[j].source

\* One row of a name in a group of a Pipfile lock, in a NuGet target, in a Composer or
\* Bundler lock, even if it is left out for something read later.
NameTwice(l) ==
    \E i, j \in DOMAIN l.rows :
        Named(l, i, j) /\ l.rows[i].group = l.rows[j].group /\ "type" \notin {l.rows[i].flaw, l.rows[j].flaw}

\* Slip: only whole coordinates are compared.
CoordinateTwice(l) ==
    \E i, j \in DOMAIN l.rows : Named(l, i, j) /\ l.rows[i].version = l.rows[j].version

\* A Gradle configuration selects one version of a module, a coordinate has one line.
GradleContradicts(l) ==
    \E i, j \in DOMAIN l.rows :
        /\ Named(l, i, j)
        /\ \/ l.rows[i].version = l.rows[j].version
           \/ l.rows[i].scopes \cap l.rows[j].scopes # {}

Contradicts(l) ==
    CASE l.format = "classic" -> YarnBlocked(l) # {}
      [] l.format \in {"pipfile", "nuget", "composer", "bundler"} -> NameTwice(l)
      [] l.format = "gradle" -> GradleContradicts(l)
      [] OTHER -> FALSE

Doubtful(l) ==
    CASE l.format = "yarn"  -> YarnBlocked(l) # {}
      [] l.format = "cargo" -> CargoTwice(l)
      [] l.format = "pnpm"  -> \E i \in DOMAIN l.rows : Verdict(l, i) # "left out" /\ l.rows[i].bare = PnpmBound(l, i)
      [] OTHER -> FALSE

-----------------------------------------------------------------------------
(* The document: the rows kept, and whether all of the file was understood.*)

\* head: what stands around the rows (syntax, version of the format, metadata) is
\* sound, noted or refused. A refused file yields nothing.
Parse(l) ==
    LET verdicts == {Verdict(l, i) : i \in DOMAIN l.rows}
    IN IF l.head = "refused" \/ "refused" \in verdicts \/ Contradicts(l)
       THEN [disposition |-> "refused", kept |-> {}]
       ELSE [disposition |-> IF l.head = "sound" /\ verdicts \subseteq {"kept"} /\ ~Doubtful(l)
                             THEN "parsed" ELSE "partial",
             kept |-> {i \in DOMAIN l.rows : /\ Verdict(l, i) # "left out"
                                             /\ l.format = "pnpm" => PnpmBound(l, i)}]

\* Formats whose parser goes on past something of the file it only notes.
NotingFormats == LockFormats \ {"pylock", "uv", "nuget", "gradle"}

\* npm and yarn may name a dependency in two tables; the optional one counts.
Overridden(refs, k) ==
    refs[k].scope = "runtime" /\ \E n \in DOMAIN refs : refs[n].scope = "optional" /\ refs[n].name = refs[k].name

Effective(format, refs) ==
    IF format \notin {"npm"} \cup YarnFormats THEN refs
    ELSE [k \in {n \in DOMAIN refs : ~Overridden(refs, n)} |-> refs[k]]

\* A yarn row that is no alias answers to descriptors of its name alone; the key of a
\* pnpm snapshot, which YAML lists once, is its name, version and variant.
IsLock(l) ==
    /\ l.format \in LockFormats
    /\ l.head \in {"sound", "refused"} \cup (IF l.format \in NotingFormats THEN {"noted"} ELSE {})
    /\ l.rows \in Seq(LockRow)
    /\ \A i \in DOMAIN l.rows :
         LET row == l.rows[i]
             flaws == FlawsOf(l.format, row.bare)
         IN /\ row.flaw \in {"none"} \cup flaws.left \cup flaws.noted \cup flaws.refusing
            /\ row.group # 0 => l.format \in GroupedFormats \cup {"nuget"}
            /\ row.refs # <<>> => l.format \notin {"composer", "bundler", "gradle"}
            /\ l.format \in YarnFormats /\ row.flaw \notin {"alias", "descriptor"} =>
                 \A d \in row.descriptors : d[1] = row.name
            /\ l.format = "pnpm" /\ ~row.bare =>
                 ~\E j \in DOMAIN l.rows : /\ Named(l, i, j) /\ ~l.rows[j].bare
                                          /\ l.rows[j].version = row.version /\ l.rows[j].variant = row.variant
    /\ l.importers \in Seq(Seq(LockRef))
    /\ l.importers # <<>> => l.format \in {"npm", "pnpm"}
    /\ l.format = "npm" => Len(l.importers) = 1
=============================================================================
