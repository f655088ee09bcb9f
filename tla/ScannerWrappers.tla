--------------------------- MODULE ScannerWrappers ---------------------------
(***************************************************************************)
(* One call of one scanner wrapper (sourcebastion/external_scanners.py).   *)
(*                                                                         *)
(* A scoped call copies what the plan names into a tree of its own. The    *)
(* wrapper asks whether its tool is there, prepares what the tool needs,   *)
(* runs it, and reads its report: a call answers with findings, or fails   *)
(* with one of the codes. Paths are sequences of names; the tools are      *)
(* external, and behave as the comments and checks of the wrappers say.    *)
(***************************************************************************)
EXTENDS Integers, Sequences, FiniteSets
LOCAL INSTANCE SequencesExt

CONSTANT Calls   \* the calls: [tool, entry, offline, ready, repository, planned]

Locations == Seq(STRING)

ASSUME CallsAssumption ==
    \A c \in Calls :
      /\ c.tool \in {"gitleaks", "semgrep", "kics", "grype", "grype-image", "php-vuln"}
      /\ c.planned \in Seq(Locations)
      /\ \A f \in c.repository : f.path \in Locations /\ \A ref \in f.refs : ref.to \in Locations

VARIABLES
    call,       \* the call
    phase,      \* where the wrapper is
    planAt,     \* the unit of the plan it copies next
    staged,     \* the files of the tree the tool gets
    run,        \* what the tool did and left in its report
    reportFile, \* the temporary file of the report exists
    found,      \* the findings
    outcome     \* "answered", a failure code, or "" before the end

wrapperVars == <<call, phase, planAt, staged, run, reportFile, found, outcome>>

Scoped == call.entry \in {"paths", "units"}

\* Gitleaks reads the history only of a repository asked for as a whole.
CurrentTree == call.entry \in {"tree", "paths"} \/ ".git" \notin call.ready

NoRun == [finished |-> FALSE, exit |-> 0, report |-> "missing", matches |-> {}, errors |-> {}]

WrapperInit(c) ==
    /\ call = c
    /\ phase = IF c.entry \in {"paths", "units"} THEN "scope" ELSE "probe"
    /\ planAt = 1
    /\ staged = IF c.entry \in {"paths", "units"} THEN {} ELSE c.repository
    /\ run = NoRun
    /\ reportFile = FALSE
    /\ found = {}
    /\ outcome = ""

WrapperTypeOK ==
    /\ phase \in {"scope", "links", "probe", "prepare", "run", "read", "rescope", "ended"}
    /\ planAt \in 1..Len(call.planned) + 1
    /\ staged \subseteq call.repository
    /\ reportFile \in BOOLEAN
    /\ (phase = "ended") = (outcome # "")
    /\ outcome \in {"", "answered", "not_installed", "timeout", "execution_failed",
                    "output_missing", "invalid_output", "scope_unresolved"}

\* A failure removes the report.
FailWith(code) ==
    /\ phase' = "ended" /\ outcome' = code /\ reportFile' = FALSE /\ found' = {}
    /\ UNCHANGED <<call, planAt, staged, run>>

GoOn(next) ==
    /\ phase' = next
    /\ UNCHANGED <<call, planAt, staged, run, reportFile, found, outcome>>

-----------------------------------------------------------------------------
(* The scoped trees.                                                       *)

InUnits(path, units) == \E u \in ToSet(units) : IsPrefix(u, path)

Below(files, path) == {f \in files : IsPrefix(path, f.path) /\ ".git" \notin ToSet(f.path)}

\* _scoped_source_tree: planned paths that are plain files of the repository.
ScopeSources ==
    /\ phase = "scope" /\ call.entry = "paths"
    /\ LET planned == {f \in call.repository : f.path \in ToSet(call.planned)}
       IN IF /\ \A f \in planned : f.kind = "file"
             /\ ToSet(call.planned) = {f.path : f \in planned}
             /\ call.tool = "semgrep" => "linked ignore file" \notin call.ready
          THEN /\ staged' = planned /\ phase' = "probe"
               /\ UNCHANGED <<call, planAt, run, reportFile, found, outcome>>
          ELSE FailWith("invalid_output")

\* _scoped_iac_tree: everything below a planned unit; a link anywhere refuses it.
ScopeUnit ==
    /\ phase = "scope" /\ call.entry = "units" /\ planAt <= Len(call.planned)
    /\ LET unit == call.planned[planAt]
           files == Below(call.repository, unit)
       IN IF \E f \in call.repository : IsPrefix(unit, f.path)
          THEN IF \A f \in files : f.kind = "file"
               THEN /\ staged' = staged \cup files /\ planAt' = planAt + 1
                    /\ UNCHANGED <<call, phase, run, reportFile, found, outcome>>
               ELSE FailWith("scope_unresolved")
          ELSE FailWith("scope_unresolved")

UnitsScoped ==
    /\ phase = "scope" /\ call.entry = "units" /\ planAt > Len(call.planned)
    /\ GoOn("links")

IsDirectory(path) == path = <<>> \/ \E f \in staged : IsStrictPrefix(path, f.path)

IsFile(path) == \E f \in staged : f.path = path

\* References that are no path of the repository.
Remote == <<"://">>
Computed == <<"${}">>
Outside == <<"..">>

\* Slip: what is in the tree is taken for complete.
ResolvesInTree(ref) ==
    \/ ref.by = "terraform" /\ ref.to = Remote
    \/ /\ ref.to \notin {Remote, Computed, Outside}
       /\ IsDirectory(ref.to) \/ IsFile(ref.to)

\* What Terraform fetches is left to it; all else has to be inside a unit.
Resolves(ref) ==
    \/ ref.by = "terraform" /\ ref.to = Remote
    \/ /\ ref.to \notin {Remote, Computed, Outside}
       /\ IsDirectory(ref.to) \/ (ref.by # "terraform" /\ IsFile(ref.to))
       /\ InUnits(ref.to, call.planned)

\* Every local module and every Kustomize input has to be among the units.
CheckLinks ==
    /\ phase = "links"
    /\ IF \A f \in staged : \A ref \in f.refs : Resolves(ref)
       THEN GoOn("probe")
       ELSE FailWith("scope_unresolved")

-----------------------------------------------------------------------------
(* Before the tool runs.                                                   *)

\* Nothing probes php-vuln, and nothing limits the probe of the image scanner.
Probe ==
    /\ phase = "probe"
    /\ \/ call.tool # "php-vuln" /\ FailWith("not_installed")
       \/ call.tool \notin {"php-vuln", "grype-image"} /\ FailWith("timeout")
       \/ /\ phase' = "prepare"
          /\ reportFile' = (call.tool # "php-vuln")
          /\ UNCHANGED <<call, planAt, staged, run, found, outcome>>

\* Semgrep falls back on the registry, unless it has to stay offline.
HasRules == "rules" \in call.ready \/ ~call.offline

\* A database that is missing, stale or damaged is fetched, unless grype has to stay
\* offline; the scan of an image does not ask how the update ended.
PrepareGrype ==
    \/ "database" \in call.ready /\ GoOn("run")
    \/ ("database" \notin call.ready \/ call.tool = "grype") /\ FailWith("timeout")
    \/ "database" \notin call.ready /\ call.offline /\ call.tool = "grype" /\ FailWith("execution_failed")
    \/ "database" \notin call.ready /\ ~(call.offline /\ call.tool = "grype")
         /\ (GoOn("run") \/ (call.tool = "grype" /\ FailWith("execution_failed")))

\* _install_dependencies: the first marker that exists decides, and only offline
\* or beside a lock nothing is installed.
Installs == call.tool = "grype" /\ ~call.offline /\ "installer" \in call.ready

\* A limit from the environment that is no number fails when it is first asked for.
HasBudget == "budget" \in call.ready \/ call.tool \in {"php-vuln", "grype-image"}

\* Gitleaks and KICS need nothing more, but the assets of KICS are looked up again.
Prepare ==
    /\ phase = "prepare"
    /\ \/ ~HasBudget /\ FailWith("execution_failed")
       \/ /\ HasBudget
          /\ \/ call.tool = "semgrep" /\ HasRules /\ GoOn("run")
             \/ call.tool = "semgrep" /\ ~HasRules /\ FailWith("execution_failed")
             \/ call.tool \in {"grype", "grype-image"} /\ PrepareGrype
             \/ Installs /\ FailWith("not_installed")
             \/ Installs /\ FailWith("execution_failed")
             \/ call.tool = "kics" /\ FailWith("not_installed")
             \/ call.tool \in {"gitleaks", "kics", "php-vuln"} /\ GoOn("run")

-----------------------------------------------------------------------------
(* The tools.                                                              *)

\* What a tool says of a place: in the tree it got, or elsewhere; a finding that is
\* only informational; what tells security from quality.
MatchesOf(files) ==
    {[path |-> f.path, inside |-> TRUE, info |-> i, signals |-> s] :
       f \in files, i \in BOOLEAN, s \in {{}, {"cwe"}, {"impact", "security words"}, {"quality", "cwe"}}}
      \cup {[path |-> <<"unknown">>, inside |-> i, info |-> FALSE, signals |-> {"cwe"}] : i \in BOOLEAN}

\* A tool that got to its end: the report is whole; gitleaks may leave it empty.
Finished(files) ==
    {[finished |-> TRUE, exit |-> e, report |-> r, matches |-> m, errors |-> x] :
       e \in IF call.tool = "kics" THEN {0, 20, 60} ELSE {0, 1},
       r \in {"whole"},
       m \in {{}} \cup {{match} : match \in MatchesOf(files)},
       x \in IF call.tool = "semgrep" THEN {{}, {"warn"}} ELSE {{}}}
      \cup IF call.tool = "gitleaks"
           THEN {[finished |-> TRUE, exit |-> 0, report |-> "empty", matches |-> {}, errors |-> {}]}
           ELSE {}

Deaths(exits, reports, errors) ==
    {[finished |-> FALSE, exit |-> e, report |-> r, matches |-> {}, errors |-> x] :
       e \in exits, r \in reports, x \in errors}

\* A tool that did not: it may still exit with 1, or with 0 and its error in the report.
Died ==
    Deaths({1, 2}, {"missing", "empty", "garbled", "shapeless"}, {{}})
      \cup (IF call.tool = "kics" THEN Deaths({0}, {"missing"}, {{}}) ELSE {})
      \cup (IF call.tool = "semgrep"
            THEN Deaths({0, 1}, {"whole"}, {{"fatal"}, {"warn", "fatal"}, {"unheard of"}})
            ELSE {})

\* Nothing limits php-vuln, it does without the parts that raise, and its report stays
\* when the write fails.
PhpReportFails ==
    /\ phase' = "ended" /\ outcome' = "execution_failed" /\ reportFile' = TRUE
    /\ UNCHANGED <<call, planAt, staged, run, found>>

RunTool ==
    /\ phase = "run"
    /\ \/ /\ \E r \in Finished(staged) \cup IF call.tool = "php-vuln" THEN {} ELSE Died : run' = r
          /\ phase' = "read"
          /\ reportFile' = (call.tool = "php-vuln" \/ reportFile)
          /\ UNCHANGED <<call, planAt, staged, found, outcome>>
       \/ call.tool # "php-vuln" /\ FailWith("timeout")
       \/ FailWith("execution_failed")
       \/ call.tool = "php-vuln" /\ FailWith("not_installed")
       \/ call.tool = "php-vuln" /\ PhpReportFails

-----------------------------------------------------------------------------
(* The report.                                                             *)

\* Slip: an empty report is clean whatever the exit.
EmptyIsAlwaysClean == call.tool = "gitleaks" /\ run.report = "empty"

\* An empty report of gitleaks is clean only if the exit says so.
EmptyIsClean == call.tool = "gitleaks" /\ run.report = "empty" /\ run.exit = 0

Judged(exits, readable) ==
    IF run.exit \notin exits THEN "execution_failed"
    ELSE IF run.report = "missing" THEN "output_missing"
    ELSE IF readable THEN "answered" ELSE "invalid_output"

WholeReport == run.report = "whole"

\* Paths are made relative to the tree as the report is read, but not those of a history.
GitleaksAnswers ==
    IF CurrentTree /\ \E m \in run.matches : ~m.inside
    THEN "execution_failed" ELSE Judged({0, 1}, WholeReport \/ EmptyIsClean)

\* A problem of one file is forgiven, unless the answer replaces what was known of it.
Forgiven == run.errors \subseteq IF call.entry = "paths" THEN {} ELSE {"warn"}

SemgrepAnswers ==
    IF run.exit \in {0, 1} /\ WholeReport /\ ~Forgiven THEN "execution_failed" ELSE Judged({0, 1}, WholeReport)

KicsAnswers == Judged({0, 20, 30, 40, 50, 60}, WholeReport)

GrypeAnswers == Judged({0, 1}, WholeReport)

\* The exit of a scan of an image is not asked for.
ImageAnswers == Judged({run.exit}, WholeReport)

PhpAnswers == "answered"

Answers ==
    CASE call.tool = "gitleaks" -> GitleaksAnswers
      [] call.tool = "semgrep" -> SemgrepAnswers
      [] call.tool = "kics" -> KicsAnswers
      [] call.tool = "grype" -> GrypeAnswers
      [] call.tool = "grype-image" -> ImageAnswers
      [] call.tool = "php-vuln" -> PhpAnswers

IsSemgrepQuality(m) == "quality" \in m.signals \/ m.signals \cap {"cwe", "security words"} = {}

IsSecurity(m) == m.signals \cap {"cwe", "impact"} # {}

SemgrepKeeps(m) == ~IsSemgrepQuality(m) /\ (m.info => IsSecurity(m))

IsKicsQuality(m) == "quality" \in m.signals

KicsKeeps(m) == ~IsKicsQuality(m) /\ ~m.info

\* The matches that become findings.
Kept ==
    CASE call.tool = "semgrep" -> {m \in run.matches : SemgrepKeeps(m)}
      [] call.tool = "kics" -> {m \in run.matches : KicsKeeps(m)}
      [] OTHER -> run.matches

ReadReport ==
    /\ phase = "read"
    /\ IF Answers = "answered"
       THEN /\ found' = Kept /\ phase' = "rescope"
            /\ UNCHANGED <<call, planAt, staged, run, reportFile, outcome>>
       ELSE FailWith(Answers)

\* Only a caller that asked for the raw output keeps the report; scan() forgets it.
KeepsReport == call.entry \in {"scan", "raw"} /\ call.tool # "grype-image"

\* A scoped answer names places of the repository; the history may name any.
Rescope ==
    /\ phase = "rescope"
    /\ IF Scoped /\ \E m \in found : ~m.inside
       THEN FailWith(IF call.entry = "units" THEN "scope_unresolved" ELSE "invalid_output")
       ELSE IF call.entry = "units" /\ \E m \in found : ~InUnits(m.path, call.planned)
       THEN FailWith("invalid_output")
       ELSE /\ phase' = "ended" /\ outcome' = "answered"
            /\ reportFile' = (reportFile /\ KeepsReport)
            /\ UNCHANGED <<call, planAt, staged, run, found>>

WrapperNext ==
    \/ ScopeSources \/ ScopeUnit \/ UnitsScoped \/ CheckLinks
    \/ Probe \/ Prepare \/ RunTool \/ ReadReport \/ Rescope

WrapperSpec == (\E c \in Calls : WrapperInit(c)) /\ [][WrapperNext]_wrapperVars

-----------------------------------------------------------------------------
(* Properties.                                                             *)

\* A wrapper that answers really had its tool run to its end, and an answer for planned
\* source files, which replaces all that was known of them, comes of a run that left out
\* none of them; what it reports of a scope lies in the scope.
AnswerMeansScanned ==
    outcome = "answered" =>
      /\ run.finished
      /\ call.entry = "paths" => run.errors = {}
      /\ Scoped => \A m \in found : m.inside
      /\ call.entry = "units" => \A m \in found : InUnits(m.path, call.planned)

\* The tree KICS gets stands on its own: whatever one of its files refers to is there as
\* completely as in the repository. The references are those the staging extracts: the sources of
\* Terraform modules and the entries of a kustomization (external_scanners.py:148-187).
ScopeIsWhole ==
    call.entry = "units" /\ phase \notin {"scope", "links", "ended"} =>
      \A f \in staged : \A ref \in f.refs :
        ref.to # Remote => /\ ref.to \notin {Computed, Outside}
                           /\ Below(call.repository, ref.to) # {}
                           /\ Below(call.repository, ref.to) \subseteq staged
=============================================================================
