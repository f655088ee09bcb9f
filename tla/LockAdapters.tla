----------------------------- MODULE LockAdapters -----------------------------
(***************************************************************************)
(* From one lock file to packages and dependency links: the adapters of    *)
(* inventory/ for npm, yarn, pnpm, Cargo, Python, NuGet, Composer, Bundler *)
(* and Gradle. A lock selects; an adapter only finds, for each reference,  *)
(* the row the lock means, checks it, and leaves it unresolved rather than *)
(* guess. A row is a number in the order of the file.                      *)
(***************************************************************************)
EXTENDS LockSources, Reachability, FiniteSetsExt

CONSTANT Locks

ASSUME LockAssumption == \A l \in Locks : IsLock(l)

VARIABLES
    lock,         \* the file: format, head, rows, and each importer's references
    adapting,     \* "read", "link", "import", "walk", "rest", "done", "refused"
    admitted,     \* rows that become packages
    links,        \* resolved references: [from, ref, to]
    importer,     \* the importer being walked
    walk,         \* rows whose references the walk has yet to follow
    reached,      \* rows this importer reaches
    owned,        \* rows some importer reached
    spread,       \* scopes of the rows this importer reaches
    packages,     \* occurrences: [context, row, directness, scopes]
    incomplete    \* something was refused or left unresolved

lockVars == <<lock, adapting, admitted, links, importer, walk, reached, owned, spread, packages,
              incomplete>>

Rows == DOMAIN lock.rows
At(i) == lock.rows[i]
RefsOf(i) == Effective(lock.format, At(i).refs)
Importing(c) == Effective(lock.format, lock.importers[c])
Scopes == {"runtime", "optional", "peer"}

LockTypeOK ==
    /\ adapting \in {"read", "link", "import", "walk", "rest", "done", "refused"}
    /\ admitted \subseteq Rows
    /\ \A k \in links : k.from \in admitted /\ k.to \in admitted
    /\ importer \in 0..(Len(lock.importers) + 1)
    /\ walk \cup reached \cup owned \subseteq admitted
    /\ spread \in [Rows -> SUBSET Scopes]
    /\ \A p \in packages : p.row \in admitted /\ p.directness \in {"direct", "transitive", "unknown"}
    /\ incomplete \in BOOLEAN

LockInit(l) ==
    /\ lock = l
    /\ adapting = "read"
    /\ admitted = {} /\ links = {} /\ packages = {}
    /\ importer = 0 /\ walk = {} /\ reached = {} /\ owned = {}
    /\ spread = [i \in Rows |-> {}]
    /\ incomplete = FALSE

-----------------------------------------------------------------------------
(* Which of the rows kept become packages.                                 *)

\* The grammar of node's versions admits the version of every npm row.
NpmAdmits(i) == At(i).version # 0

\* A yarn row none of whose descriptors is in the grammar names no package.
YarnAdmits(i) == NpmAdmits(i) /\ \E d \in At(i).descriptors : d[2] # {}

\* A descriptor that names no version of its row, or that two rows list.
YarnUnsettled(i) ==
    \E d \in At(i).descriptors : At(i).version \notin d[2] \/ d \in YarnBlocked(lock)

Admits(i) ==
    CASE lock.format \in {"npm", "pnpm"} -> NpmAdmits(i)
      [] lock.format \in YarnFormats -> YarnAdmits(i)
      [] OTHER -> TRUE

ParseLock ==
    /\ adapting = "read"
    /\ LET document == Parse(lock)
       IN /\ admitted' = {i \in document.kept : Admits(i)}
          /\ incomplete' = (\/ document.disposition # "parsed"
                            \/ \E i \in document.kept : ~Admits(i)
                            \/ /\ lock.format \in YarnFormats
                               /\ \E i \in document.kept : YarnUnsettled(i))
          /\ adapting' = IF document.disposition = "refused" THEN "done" ELSE "link"
    /\ UNCHANGED <<lock, links, importer, walk, reached, owned, spread, packages>>

-----------------------------------------------------------------------------
(* The row a reference of each format means.                               *)

\* The only row a search finds, if it was admitted.
Sole(found) == IF Cardinality(found) = 1 THEN found \cap admitted ELSE {}

InRange(found, ref) == {j \in found : At(j).version \in ref.range}

\* Slip: a refused entry does not hide those above it.
NpmEndpointPastRefused(dir, ref) ==
    LET entry(k) == {j \in admitted : At(j).above = SubSeq(dir, 1, k) /\ At(j).name = ref.name}
        levels == {k \in 0..Len(dir) : entry(k) # {}}
    IN IF levels = {} THEN {} ELSE entry(Max(levels))

\* Node's search from a directory up to the top ends at the first entry of the name, a
\* refused one included.
NpmEndpoint(dir, ref) ==
    LET entry(k) == {j \in Rows : At(j).above = SubSeq(dir, 1, k) /\ At(j).name = ref.name}
        levels == {k \in 0..Len(dir) : entry(k) # {}}
    IN IF levels = {} THEN {} ELSE entry(Max(levels))

\* The lock's selection is only checked against the range, never improved on. A peer
\* has no endpoint.
NpmLink(dir, ref) ==
    IF ref.scope = "peer" THEN {} ELSE InRange(Sole(NpmEndpoint(dir, ref)), ref)

\* The rows that answer to a descriptor; none if two list it, refused ones too.
YarnOwners(d) ==
    IF d \in YarnBlocked(lock) THEN {}
    ELSE {j \in admitted : d \in At(j).descriptors /\ At(j).version \in d[2]}

YarnLink(ref) ==
    IF ref.foreign \/ ref.scope = "peer" THEN {} ELSE Sole(YarnOwners(<<ref.name, ref.range>>))

PnpmLink(ref) ==
    IF ref.foreign THEN {}
    ELSE {j \in admitted : /\ ~At(j).bare /\ At(j).name = ref.name
                           /\ At(j).version = ref.version /\ At(j).variant = ref.variant}

\* What a Cargo reference leaves out only one row of the name may mean.
CargoLink(ref) ==
    Sole({j \in Rows : /\ At(j).name = ref.name
                       /\ ref.version \in {0, At(j).version}
                       /\ ref.source \in {0, At(j).source}})

\* A dependency listed again where both may apply is not decided.
Repeated(i, k) ==
    LET refs == RefsOf(i) IN
    \E n \in DOMAIN refs \ {k} :
        /\ refs[n].name = refs[k].name /\ refs[n].variant = refs[k].variant
        /\ lock.format = "uv" \/ ~Exclusive(refs[n].marker, refs[k].marker)

RowsNamed(name) == {j \in admitted : At(j).name = name}

\* uv leaves out of a reference what only one row of the name could mean.
UvAmbiguous(ref) ==
    \/ ref.version = 0 /\ Cardinality({At(j).version : j \in RowsNamed(ref.name)}) > 1
    \/ ref.source = 0 /\ Cardinality({At(j).source : j \in RowsNamed(ref.name)}) > 1

PythonLink(i, k) ==
    LET ref == RefsOf(i)[k] IN
    IF Repeated(i, k) \/ (lock.format = "uv" /\ UvAmbiguous(ref)) THEN {}
    ELSE Sole({j \in InRange(RowsNamed(ref.name), ref) :
                 /\ ref.version \in {0, At(j).version}
                 /\ ref.source \in {0, At(j).source}
                 /\ lock.format = "pdm" => At(j).variant = ref.variant
                 /\ lock.format \in {"poetry", "pdm"} /\ At(i).group # 0 => At(j).group = At(i).group})

\* The package of the name in the target, if the range, of release numbers, admits it.
NugetLink(i, ref) == InRange({j \in RowsNamed(ref.name) : At(j).group = At(i).group}, ref)

\* Composer, Bundler and Gradle locks are not followed.
Endpoint(i, k) ==
    LET ref == RefsOf(i)[k] IN
    CASE lock.format = "npm"           -> NpmLink(Append(At(i).above, At(i).name), ref)
      [] lock.format \in YarnFormats   -> YarnLink(ref)
      [] lock.format = "pnpm"          -> PnpmLink(ref)
      [] lock.format = "cargo"         -> CargoLink(ref)
      [] lock.format \in PythonFormats -> PythonLink(i, k)
      [] lock.format = "nuget"         -> NugetLink(i, ref)

\* Python rows of one name, group and extras that may apply together.
Overlap(i, j) ==
    /\ i # j /\ At(i).name = At(j).name
    /\ At(i).group = At(j).group /\ At(i).variant = At(j).variant
    /\ lock.format = "uv" \/ ~Exclusive(At(i).marker, At(j).marker)

LinkRows ==
    /\ adapting = "link"
    /\ links' = UNION {UNION {[from : {i}, ref : {k}, to : Endpoint(i, k)] : k \in DOMAIN RefsOf(i)} :
                         i \in admitted}
    /\ incomplete' = (\/ incomplete
                      \/ \E i \in admitted : \E k \in DOMAIN RefsOf(i) : Endpoint(i, k) = {}
                      \/ lock.format \in PythonFormats /\ \E i, j \in admitted : Overlap(i, j))
    /\ adapting' = "import" /\ importer' = 1
    /\ UNCHANGED <<lock, admitted, walk, reached, owned, spread, packages>>

-----------------------------------------------------------------------------
(* What an importer reaches. npm has one, the root; pnpm one per project.  *)

NpmSelection(ref) == NpmLink(<<>>, ref)
PnpmSelection(ref) == InRange(PnpmLink(ref), ref)
Selection(ref) == IF lock.format = "npm" THEN NpmSelection(ref) ELSE PnpmSelection(ref)

Direct(c) == UNION {Selection(Importing(c)[k]) : k \in DOMAIN Importing(c)}

BeginImporter ==
    /\ adapting = "import" /\ importer \in DOMAIN lock.importers
    /\ LET refs == Importing(importer)
           chosen(j) == {k \in DOMAIN refs : j \in Selection(refs[k])}
       IN /\ walk' = Direct(importer)
          /\ spread' = [j \in Rows |-> IF lock.format = "pnpm" THEN {refs[k].scope : k \in chosen(j)} ELSE {}]
          /\ incomplete' = (incomplete \/ \E k \in DOMAIN refs : Selection(refs[k]) = {})
    /\ reached' = Direct(importer)
    /\ adapting' = "walk"
    /\ UNCHANGED <<lock, admitted, links, importer, owned, packages>>

\* The scopes row i hands on with a reference, and what row j gains along its links.
Passed(i, ref) == IF lock.format = "pnpm" /\ ref.scope = "optional" THEN {"optional"} ELSE spread[i]

Gained(i, j) == UNION {Passed(i, RefsOf(i)[l.ref]) : l \in {m \in links : m.from = i /\ m.to = j}}

LinkedFrom(i) == {l.to : l \in {m \in links : m.from = i}}

\* Slip: a row that was reached before is not walked again for a new scope.
FollowRowOnce(i) ==
    /\ adapting = "walk" /\ i \in walk
    /\ walk' = (walk \ {i}) \cup (LinkedFrom(i) \ reached)
    /\ reached' = reached \cup LinkedFrom(i)
    /\ spread' = [j \in Rows |-> spread[j] \cup Gained(i, j)]
    /\ UNCHANGED <<lock, adapting, admitted, links, importer, owned, packages, incomplete>>

\* In pnpm a row is walked again when its scopes grew; an npm row says its own. The
\* code takes the rows first in, first out; here any may be next.
FollowRow(i) ==
    /\ adapting = "walk" /\ i \in walk
    /\ walk' = (walk \ {i}) \cup {j \in LinkedFrom(i) : j \notin reached \/ ~(Gained(i, j) \subseteq spread[j])}
    /\ reached' = reached \cup LinkedFrom(i)
    /\ spread' = [j \in Rows |-> spread[j] \cup Gained(i, j)]
    /\ UNCHANGED <<lock, adapting, admitted, links, importer, owned, packages, incomplete>>

Package(c, j, directness, scopes) == [context |-> c, row |-> j, directness |-> directness, scopes |-> scopes]

\* An npm row says its own scopes, a pnpm snapshot has those of its paths.
NpmPackage(c, j) == Package(c, j, IF j \in Direct(c) THEN "direct" ELSE "transitive", At(j).scopes)
PnpmPackage(c, j) == Package(c, j, IF j \in Direct(c) THEN "direct" ELSE "transitive", spread[j])

EndImporter ==
    /\ adapting = "walk" /\ walk = {}
    /\ packages' = packages \cup
         {IF lock.format = "npm" THEN NpmPackage(importer, j) ELSE PnpmPackage(importer, j) : j \in reached}
    /\ owned' = owned \cup reached
    /\ adapting' = "import" /\ importer' = importer + 1
    /\ UNCHANGED <<lock, admitted, links, walk, reached, spread, incomplete>>

BeginRest ==
    /\ adapting = "import" /\ importer \notin DOMAIN lock.importers
    /\ reached' = admitted \ owned
    /\ adapting' = "rest"
    /\ UNCHANGED <<lock, admitted, links, importer, walk, owned, spread, packages, incomplete>>

\* In pnpm, in a context of their own, with what they link to.
PnpmRest ==
    {Package(0, j, "unknown", {}) :
        j \in Reached(reached, [i \in Rows |-> LinkedFrom(i)])}

\* A NuGet target is a context of its own, and NuGet says what is direct.
NugetPackage(j) == Package(At(j).group, j, IF At(j).direct THEN "direct" ELSE "transitive", {})

\* Nothing says what a Python, Cargo or yarn row is there for, a group apart.
PythonPackage(j) == Package(0, j, "unknown", {})
CargoPackage(j) == Package(0, j, "unknown", {})
YarnPackage(j) == Package(0, j, "unknown", {})

\* Sections and configurations are scopes.
SecondaryPackage(j) == Package(0, j, "unknown", At(j).scopes)
GradlePackage(j) == Package(0, j, "unknown", At(j).scopes)

\* Rows no importer reached.
Rest ==
    CASE lock.format = "npm"   -> {Package(0, j, "unknown", At(j).scopes) : j \in reached}
      [] lock.format = "pnpm"  -> PnpmRest
      [] lock.format = "nuget" -> {NugetPackage(j) : j \in reached}
      [] lock.format = "cargo" -> {CargoPackage(j) : j \in reached}
      [] lock.format \in PythonFormats -> {PythonPackage(j) : j \in reached}
      [] lock.format \in YarnFormats   -> {YarnPackage(j) : j \in reached}
      [] lock.format = "gradle"        -> {GradlePackage(j) : j \in reached}
      [] OTHER                         -> {SecondaryPackage(j) : j \in reached}

PublishRest ==
    /\ adapting = "rest"
    /\ packages' = packages \cup Rest
    /\ adapting' = "done"
    /\ UNCHANGED <<lock, admitted, links, importer, walk, reached, owned, spread, incomplete>>

\* A file that changed since it was admitted, the deadline, a budget of records or
\* of steps: the whole composition is refused and its records with it.
RefuseLock ==
    /\ adapting \notin {"done", "refused"}
    /\ adapting' = "refused"
    /\ admitted' = {} /\ links' = {} /\ packages' = {}
    /\ walk' = {} /\ reached' = {} /\ owned' = {} /\ spread' = [i \in Rows |-> {}]
    /\ UNCHANGED <<lock, importer, incomplete>>

LockNext ==
    \/ ParseLock \/ LinkRows \/ BeginImporter \/ EndImporter
    \/ \E i \in walk : FollowRow(i)
    \/ BeginRest \/ PublishRest \/ RefuseLock

LockSpec == (\E l \in Locks : LockInit(l)) /\ [][LockNext]_lockVars

-----------------------------------------------------------------------------
(* Properties.                                                             *)

\* Rows by which the tool itself could satisfy a reference, those left out included.
Serves(j, i, ref) ==
    /\ At(j).name = ref.name
    /\ CASE lock.format = "npm"   -> LET dir == Append(At(i).above, At(i).name)
                                     IN \E k \in 0..Len(dir) : At(j).above = SubSeq(dir, 1, k)
         [] lock.format \in YarnFormats -> <<ref.name, ref.range>> \in At(j).descriptors
         [] lock.format = "pnpm"  -> ~At(j).bare /\ At(j).version = ref.version /\ At(j).variant = ref.variant
         [] lock.format = "cargo" -> ref.version \in {0, At(j).version} /\ ref.source \in {0, At(j).source}
         [] lock.format = "nuget" -> At(j).group = At(i).group
         [] OTHER -> /\ ref.version \in {0, At(j).version} /\ ref.source \in {0, At(j).source}
                     /\ At(j).version \in ref.range
                     /\ lock.format \in {"poetry", "pdm"} /\ At(i).group # 0 => At(j).group = At(i).group

\* A link goes to a row that serves it and no other row does, one left out neither
\* (in npm: none nearer; in pdm: none of the same extras). A lock that is not marked
\* incomplete is a package for every row and a link for every reference of every row
\* (compose_npm.py:33-45, compose_yarn.py:93-130, compose_pnpm.py:88-99,
\* compose_cargo.py:151-170, compose_locks.py:188-245, compose_nuget.py:94-105).
LinksFollowTheLock ==
    /\ \A l \in links :
         LET ref == RefsOf(l.from)[l.ref] IN
         /\ Serves(l.to, l.from, ref)
         /\ lock.format \in YarnFormats \cup {"npm", "nuget"} => At(l.to).version \in ref.range
         /\ \A j \in Rows \ {l.to} : Serves(j, l.from, ref) =>
              CASE lock.format = "npm" -> Len(At(j).above) < Len(At(l.to).above)
                [] lock.format = "pdm" -> At(j).variant # At(l.to).variant
                [] OTHER -> FALSE
    /\ adapting = "done" /\ ~incomplete =>
         \A i \in Rows : ~At(i).bare =>
            /\ \E p \in packages : p.row = i
            /\ \A k \in DOMAIN RefsOf(i) : \E l \in links : l.from = i /\ l.ref = k

\* Two versions of one module are never published side by side where the tool selects
\* one: in a Gradle configuration, a NuGet target, a group of a Pipfile lock, a
\* Composer or Bundler lock; the file that says so yields nothing at all
\* (gradle_locks.py:93-102, nuget_sources.py:107-115, python_locks.py:204-210,
\* secondary_locks.py:102-104 and 187-189).
OneVersionSelected ==
    \A p, q \in packages : p.row # q.row /\ At(p.row).name = At(q.row).name =>
        CASE lock.format = "gradle" -> p.scopes \cap q.scopes = {}
          [] lock.format \in {"nuget", "pipfile"} -> At(p.row).group # At(q.row).group
          [] lock.format \in {"composer", "bundler"} -> FALSE
          [] OTHER -> TRUE

\* Steps of a scope: from a row with a scope to the rows and scopes it hands on.
Handed(pair) ==
    {<<l.to, IF RefsOf(l.from)[l.ref].scope = "optional" THEN "optional" ELSE pair[2]>> :
        l \in {m \in links : m.from = pair[1]}}

\* All an importer's selections hand on along links, in any order.
HandedOn(c) ==
    LET start == UNION {Selection(Importing(c)[k]) \X {Importing(c)[k].scope} : k \in DOMAIN Importing(c)}
    IN Reached(start, [pair \in Rows \X Scopes |-> Handed(pair)])

\* The packages of an importer are those its selections reach along links, each with
\* the scopes of the paths that reach it, whatever the order, shared rows and cycles
\* of the walk; every admitted row ends up in some context (compose_pnpm.py:228-270,
\* compose_npm.py:258-280).
ScopesAreThePaths ==
    adapting = "done" =>
        /\ \A c \in DOMAIN lock.importers :
             LET mine == {p \in packages : p.context = c}
             IN /\ {h[1] : h \in HandedOn(c)} = {p.row : p \in mine}
                /\ lock.format = "pnpm" => HandedOn(c) = UNION {{p.row} \X p.scopes : p \in mine}
        /\ {p.row : p \in packages} = admitted
=============================================================================
