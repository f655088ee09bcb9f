# SourceBastion scanner: a TLA+ model

This directory models the parts of the SourceBastion scanner whose correctness depends on the order
of steps (threads, interrupts, deadlines, failures between two writes, kills, clocks, answers that
get lost), and the algorithms whose results everything else trusts. Everything is translated from the
Python source; paths below are relative to `sourcebastion/` unless they say otherwise. `PROJECT.json`
maps every definition to the lines it stands for and lists the hazards, each at its line with the
properties that watch it.

## The system

| Component | State it keeps | What is hard | What makes it correct | Modules |
|---|---|---|---|---|
| Scan contract (`incremental_contract.py`, `cli.py contract-scan`) | the plan, one future per component, entries, totals, `cancelled`, the result file | pool against collecting loop, deadline and interrupt at any moment, limits shared by all components | an entry is what its own scanner returned; nothing invalid is published; no scanner survives the call | `ScanPlan`, `PlanVerdicts`, `ScanPools` |
| Advisory database (`grype_database.py`) | generations, the link `current`, a lock | kills and interrupts between steps, removals that fail, concurrent refreshes, clock, readers holding an old generation | `current` is whole; builds and readers are not disturbed; rubbish is collected | `GrypeDatabase` |
| Scanner manager (`external_scanners.py`, conversions in `scanner.py`) | futures, one temporary report per tool | tools ending after a failure, interrupts in the cleanup | the pooled answer is the serial one; no file left behind | `ScannerPool`, `ScanPools` |
| Scanner wrappers (`external_scanners.py`) | a scoped tree, a report | tools that die with a report half written, scopes that lack what their files refer to | an answer comes of a tool that ended; a scope is closed | `ScannerWrappers` |
| Inventory job (`inventory_entrypoint.py`, `inventory/`) | descriptors, a budget, an artifact store, a captured process | sticky refusals, deadlines, signals, others who change what is held | nothing is finalized that was refused or changed | `InventoryJob`, `InventoryReceipt` |
| Inventory discovery and pip composition (`inventory/discovery.py`, `compose_requirements.py`) | none | shared includes, cycles, constraints, markers, limits | a selected version satisfies all that applies; complete means covered | `InventoryComposition` |
| Inventory formats (`inventory/compose_*`, `*_locks.py`, `*_sources.py`, `python_manifests.py`, ...) | none | nested resolution, scopes along cycles, two versions of one module, `setup.py` read but not run | links, scopes and versions are those the lock means | `LockSources`, `LockAdapters`, `ManifestAdapters` |
| Trusted Go helper (`inventory/go_sources.py`) | an open helper binary | the file changes before, while or after it runs | only the trusted bytes are believed | `GoHelper` |
| Scan history (`scanner.py`, `storage.py`, `schema.py`, `baseline.py`) | findings of earlier scans | two files written in place, two backends that differ, a path that `--output` moves | trends follow the last report; exit 0 means stored and gated | `ScanFindings`, `ScanHistory`, `ScanCommand` |
| Jira synchronisation (`jira_sync.py`) | map from fingerprint to issue | the map is saved once, after the remote calls; answers get lost or name no key | one known issue per fingerprint | `JiraSync`, `ScanCommand` |
| Secret rotation (`secret_rotator.py`) | provider keys, secret store, a request | failure, timeout or kill between any two calls, reruns | the request says what was done | `SecretRotation` |
| Pull request comments (`pr_commenter.py`) | comments of a request | line arithmetic over a diff, a head that moves | comments stand on added lines | `PullRequestComments` |
| License check (`license_expression.py`, `license_checker.py`) | none | precedence, exceptions, conflicting statements | the verdict is that of some choice | `LicensePolicy` |
| Plan scripts (`scripts/push-plans.py`, `pull-plan.py`, `claim-plan.sh`, `complete-plan.py`) | issues, a project board, a context file per agent | two agents, stale listings, pushes cut short, a board with the issues of other repositories | dependencies first | `PlanBoard` |
| Other writers (`fix_pr.py`, `notifier.py`), configuration, policy engine, report formats, documents, bundled detectors, provider, build and release scripts | none, or one call | data | | not modelled, see below |

How they interact: the command line calls `SecurityScanner`, which calls the scanner manager and then
storage (`ScanCommand` composes `ScanHistory` and `JiraSync` in that order), or `contract-scan`, which
runs the same wrappers through a pool of its own. Both read the database generation that a separate
refresh process publishes. The inventory job is a process of its own that calls discovery and
composition as one of its stages. Rotation, comments and the license check consume what a scan or an
inventory wrote. The plan scripts belong to the repository's workflow, not to a scan.

## Modules

Each component is a module with its variables, one action per step and its properties. `MC*` modules
give TLC its inputs, `*Proofs` hold the theorems. Definitions whose comment begins with "Slip:" are
plausible mistakes in the definition they stand before; nothing uses them, and replacing the
definition by its slip must make TLC report the property `PROJECT.json` pairs it with.

**`ScanPlan`**. `pc` and `at` are the position of the main thread in `execute_scan_plan`; `job[i]` is
the future of component `i`, `result[i]` what its scanner returned, with its end reduced to before or
after the deadline; `entries` is `component_results`. Of a list of findings the model keeps its length,
its size and the checks it would fail. With one worker the main thread runs the scanner itself. The
loop body is split where another thread can get in. The validator is written separately from the loop,
because whether the two agree is one of the questions. Between `Replace`, which puts the new file in
place, and `Report`, the verdict of the command (`cli.py:290-297`), a kill, an interrupt or a terminal
that refuses the message may still fall (`ReportFails`): a result is then published by a command that
did not succeed, and `PublishedOnlyIfAccepted` asks of it only that it is valid and whole.
`PlanVerdicts` is the contract without threads, and `ScanPlan` refines it.

**`GrypeDatabase`**. A refresh is the sequence of `pc[r]`; `disk`, `stamp`, `links` and `current` are
the directory. `rmtree` takes two steps, and creating the receipt is distinct from filling it, because
the prune treats a missing receipt and a torn one differently. `Swap` and `Note` are the two lines
`os.replace` and `published = True`; an interrupt between them (`Interrupt`) makes the finally clause
remove the generation `current` names, which then dangles. `unnoted` remembers such generations:
`CurrentUsable` is about the others, and says that this is the only way. What a prune cannot read or not
remove is left in the code without a word (`grype_database.py:84,85,89`); `spared` remembers it, and
`ReturnCleans` is about the rest. A behaviour has a *regime*: how many refreshes at once, generations,
clock values, whether the clock may step back, whether a refresh may end over a generation that has its
receipt and is not published, whether scans read. Scans are external.

**`ScannerPool`**. `future[i]` is the future, or serial run, of the i-th enabled scanner, `disk` the
reports that exist, `created` the list the code cleans from, `outputs` what the converter receives;
`deps` and `saw` track the dependencies grype installs into the tree the others read.

**`ScanPools`** puts `ScanPlan` and `ScannerPool` side by side, as the two commands of which a behaviour
runs one. They share no state; it lets one run check both, each under the fairness of its own threads.

**`ScannerWrappers`**. One call, its scoped tree (`staged`), its tool as an external process that ends
or dies with any exit code and any state of its report the wrapper's checks distinguish, and the
outcome.

**`InventoryJob`**. The entrypoint with `run_dependency`, and `run_direct`: a program of operations over
one `PipelineBudget` and one `ArtifactStore`, each of which refuses for good once it has refused. What
the job holds open may be "moved" (shows in metadata) or "rewritten" (shows only in its bytes) by
others at any time; deadlines pass and signals arrive at any step; captured consumers close their
pipes, exit, or leave a pipe open in a descendant. Which of several failing checks comes first is
left open.

**`InventoryReceipt`** is what the job promises with its receipt, without ledgers, consumers, clocks or
closing checks: it knows the stages of a controller in their order, what each leaves behind, and one
flag for "something has refused". `InventoryJob` maps its finished artifacts to what is retained and
either ledger's refusal to the flag (`Receipt`). A stage succeeds only after those before it and with
all its artifacts; the first that fails is the last that ran; what was retained stays; after a refusal
nothing succeeds or is retained; a finalization may be withdrawn by a closing check, and the matching
of `run_direct` may fail alone. The order is that in which the stages end: `run_direct` ends the one of
its finalization before the matching and notes it afterwards (`direct_pipeline.py:114-115`, `176`).

**`InventoryComposition`**. Discovery file by file, the walk of includes with its limits, then origins,
contexts and selections. A specifier is the set of versions it admits. The properties are stated on
the *text* of the tree (what its references lead to), not on what the walk collected.
`SelectionsJustified` allows what the code means to allow: a requirement without a marker is not held
against those of its name that have one (`compose_requirements.py:425-434`), so where such a one pins
a local build ("1.0+cpu", which "==1.0" admits) it keeps its own version. `CompleteMeansCovered`
speaks of the files no other file takes for a constraint: "Unused constraints do not become packages"
(`docs/M046-requirements-composition.md:41-42`).

**`Reachability`**. What can be reached from a set along a relation, as a recursive function over the
number of steps; `InventoryComposition` and `LockAdapters` use it.

**`LockSources`, `LockAdapters`**. Thirteen lock formats. `LockSources` says which rows a parser keeps
and whether it understood the file (a row carries at most one flaw); `LockAdapters` resolves every
reference and spreads scopes. The queue of a walk is a set, so a row is followed in any order, of which
the code's is one. One document per pnpm file.

**`ManifestAdapters`**. `pyproject.toml`, `setup.cfg`, `setup.py` as a walk over its statements,
`package.json`, `Cargo.toml`, `METADATA`; selection per scope and group. `Executed` is what Python
does with the same statements, the reference for the walk.

**`GoHelper`**. Open, hash, recheck, run through the descriptor, look again, while others replace the
path or write into the open file. It is assumed that any change of a file shows in its size or times.

**`ScanFindings`, `ScanHistory`, `ScanCommand`, `JiraSync`**. Repeated runs of `sourcebastion scan` over
a changing tree: previous findings, two writes in place (or two commits), baseline, filters, ignore
rules that lapse, three policy modes, Jira call by call with lost answers, kills between any two steps.
Previous findings are read where the scan would write its own report: at its `--output`, or without one
at `vulnerabilities.json` in the tree (`scanner.py:134-141`). Reports at different paths are therefore
histories that do not know of each other, and `TrendSinceLastReport` compares a scan with the last
report at the path it reads; that is less than "what changed since last scan?" (`cli.py:98`) where the
option changes from scan to scan. Reports in one directory share one `scan_record.json`. A success of
Jira without a key is stored under an empty key and counted as created (`jira_sync.py:361`): the issue
is lost, the next run creates another, and the entry of a finding that is gone stays for ever
(`jira_sync.py:372-374`), without an error. `SettledMapMatches` allows exactly these entries. What the
synchronisation closes is what the *report* no longer has. A finding the baseline or the severity filter
hides is still detected, and its issue is closed with the comment "no longer detected"
(`jira_sync.py:297`, `docs/integrations.md:5` and `33` promise the same); `ClosedMeansGoneOrHidden` says
over the complete findings which issues may be closed, and `IssuesFollowFindings` is the promise.

**`SecretRotation`**. `rotate-secrets` call by call: provider, store, edit, request; every call may
refuse, or time out with or without effect; the command may be killed and run again.

**`PullRequestComments`**. The walk over the lines of a diff and one comment per file, in the order of
the findings, with a push in between and answers lost. `IsDiff` is what the unified format guarantees
of the diff GitHub sends: a hunk belongs to a file, and every line of text to a hunk.

**`LicensePolicy`**. The recursive descent parser is a function of its calls: a node of the tree is the
rule that returned it with the place it began at, so the tree needs no data of its own, and an error is
a place behind the end. The reference never parses: `Offers` splits the tokens at operators outside
parentheses and collects the choices an expression leaves, each a set of terms that bind together.
`IsCanonical` is what the SPDX list guarantees of a value it accepts (it compiles the value as a Python
expression, with `WITH` for an operator). That is less than the parser wants: "(MIT) WITH CE", "X WITH E
WITH E" and "X WITH (MIT)" pass the list and make the parser raise, outside of the `try` that turns a
refusal into "unparsed" (`license_expression.py:114-118`). The exception is caught by the composition
(`inventory/compose_requirements.py:677`), and with one such value the whole inventory has failed, where
`docs/M048-scope.md:106-108` has the value undetermined. `InventoryComposes` is that condition.

**`PlanBoard`**. The four scripts, several agents, calls that fail with or without effect. The board is
the organization's, and `pull-plan.py:162-174` takes a number that is Done in any repository for the
issue of that number in its own. `Shared` are the numbers that other repositories' issues on the board
have too, any of which may be Done whenever it is listed; `mistaken` remembers those a listing took.
`DependenciesFirst` names them as its one exception: a dependency was finished, or an issue elsewhere
was Done under its number.

**`Maintenance`** puts `InventoryComposition`, `LockAdapters`, `ManifestAdapters`, `GoHelper`,
`ScannerWrappers`, `LicensePolicy`, `SecretRotation`, `PlanBoard` and `PullRequestComments` side by
side. They share no state, and the composition says so: a behaviour is one of one of them, and the
others keep the state they start in. It asks nothing about interaction; it lets one run check them all.

## Runs

| Run | Instance | Shows |
|---|---|---|
| `scan_pools` | `contract-scan`: three plans of three and four components on two workers with four kinds of answer, one plan in the main thread with nine; limits of 3 findings and 3 bytes; the clock may step back. `scan`: four scanners, one to three workers, two interrupts, with network access | `RefusalsExplained`, `FailuresJustified`, `EntriesFaithful`, `QuiescentWhenSealed`, `PublishedOnlyIfAccepted`, `NoOutputLeftBehind`, `NoStartAfterCancel`, refinement of `PlanVerdicts`, `PlanEnds`, `ManagerEnds` |
| `scan_plan_cancel` | a plan with a reuse before its end | **violated**: `EnvelopeSurvivesCancellation` |
| `database_refresh` | two refreshes, three generations, kills and interrupts anywhere, removals that fail, clock stepping back; and one at a time, four generations, two scans | `CurrentUsable`, `BuildUndisturbed`, `ReadableInCalm`, `ReturnCleans` |
| `database_late_kill` | the second regime, with refreshes that end over an unpublished generation | **violated**: `ReadableAcrossOneSwap` |
| `scanner_pool_online` | four scanners, one to three workers | **violated**: `AnswerIsSerial` |
| `inventory_job` | both controllers, 14 and 8 operations, an allowance not every job fits, one change by others | `FinalizedMeansWhole`, `ReceiptBindsControl`, `NoConsumerLeft`, refinement of `InventoryReceipt`, `RefusalsStick`, `Termination` |
| `inventory_matching` | the direct controller | **violated**: `MatchingFailureIsSeparate` |
| `scan_command` | three findings of two fingerprints, three commands of three kinds with two report paths, both backends | `TrendSinceLastReport`, `ZeroMeansStoredAndGated`, `OpenIssuesAccounted`, `SettledMapMatches`, `ClosedMeansGoneOrHidden` |
| `scan_jira`, `scan_sql` | two commands | **violated**: `IssuesFollowFindings`, `TrendSinceLastScan` |
| `maintenance` | some four hundred trees; thirteen lock formats; every short `setup.py`; three changes of the helper; every kind of wrapper call; some nine thousand license cases, with expressions of up to three terms, parentheses, and values the parser refuses; two runs of `rotate-secrets` over up to three leaks; short diffs with one push; two agents, two tasks, three issues, a number shared with another repository | `SelectionsJustified`, `CompleteMeansCovered`, `LinksFollowTheLock`, `ScopesAreThePaths`, `OneVersionSelected`, `StaticMeansExecuted`, `ManifestPinsAgree`, `ObservedByThePinned`, `AnswerMeansScanned`, `ScopeIsWhole`, `CommentsOnTheChange`, `VerdictIsChoice`, `ReportTruthful`, `DependenciesFirst` |
| `composition_origin` | the same trees | **violated**: `SelectionsSatisfyApplicableRanges` |

Deadlock is not checked: in every one of these models the program ends, or has used up a bound.

### Bounds, and why they are enough

* `ScanPlan`: two workers and up to four components give a scanner that overtakes another, one queued
  during the cancel pass, and a component after the stop; the limits are hit from below and above. The
  plans cover full, partial, deletions-only, unsupported partial and reuse modes.
* `GrypeDatabase`: three generations are a published one, a left over one and one being built; a fourth
  lets a reader see two swaps.
* `ScannerPool`: four scanners on three workers leave one queued while others run; two interrupts are
  one that starts the cleanup and one that hits it.
* `InventoryJob`: `MaxTouches = 1`, since every check looks at one held thing; two charges, an
  ordinary one and one that exhausts the semantic checks at any step. Sizes in units of 64 KiB.
* `ScanCommand`: `MaxScans = 3` has a scan that fails, or stores elsewhere, between two that store at
  one path; two lines of one fingerprint and one of another tell line, fingerprint and finding apart;
  `MaxIssues = 2` allows a duplicate, `MaxComments = 1` caps comments.
* `SecretRotation`: `MaxRuns = 2` is a run and its repetition, `MaxLeaks = 3` covers two leaks of one
  rule, one secret twice and one that nothing rotates.
* `PlanBoard`: `MaxIssues = 3` for two tasks is one push cut short and one complete; one shared number
  is the issue of a dependency in one behaviour and none in another; agents are symmetric.
* `GoHelper`: `MaxChanges = 3`; `PullRequestComments`: `MaxPushes = 1`; `setup.py` up to four
  statements.

The theorems below lift most of these bounds.

### Fairness

`ScanPools`, for `ScanPlan` and `ScannerPool`, assumes weak fairness of the calling thread and of the
workers together: both are operating system threads, and every scanner ends, an external tool because
its process runs under a timeout, php-vuln because its loops are finite. `InventoryJob` assumes weak
fairness of the job and of time: the deadlines are read from a monotonic clock; nothing is assumed of
the consumer, so `Termination` there says that the deadline ends the wait for it. Nothing is assumed of
the environment: no interrupt, failure, kill or answer has to happen. The other modules state no
liveness.

## What the violations show

* `scanner_pool_online`: with network access grype installs dependencies into the tree
  (`external_scanners.py:1633`, `npm` beside it). It is last in configured order, so a serial run never
  shows them to the others; a pooled one may, and KICS and php-vuln, which walk the whole tree, then
  find more on one run than on the next. `external_scanners.py:2069` says "Completion order must not
  change findings or raw-output ordering.", and `docs/M052/S03-PLAN.md:14-15` that result order and
  finding identities "remain unchanged".
* `scan_plan_cancel`: after an interrupt or a passed deadline a later component in reuse mode is
  recorded as failed/cancelled (`incremental_contract.py:591`), which the validator refuses (`:817`):
  the command ends with `result_envelope_invalid` instead of the envelope that
  `docs/sourcebastion-scan-contract.md:43-45` promises. `RefusalsExplained` shows that this is the only
  way, the clock aside, in which the command refuses its own envelope.
* `database_late_kill`: an unpublished generation with a receipt counts as "the newest previous one"
  (`grype_database.py:66-89`), so the generation scans are reading is removed.
* `inventory_matching`: the matching shares the budget, so a matching that runs into the deadline
  makes the final check refuse the whole job (`inventory/direct_pipeline.py:182` against `:56-58`).
* `scan_jira`: the command synchronises only if the report has critical or high findings
  (`cli.py:175`), so the last issues stay open (`docs/integrations.md:33`).
* `scan_sql`: previous findings are looked for only if the JSON file exists (`scanner.py:145`); with SQL
  storage the trend is that of nothing, or of every row ever written.
* `composition_origin`: an origin at which no walk began is composed alone
  (`inventory/compose_requirements.py:322`), so a version its constraint excludes is selected
  (`docs/M046-requirements-composition.md:32-33`). The quoted sentence has a second, narrower
  exception in the code, the local builds that `SelectionsJustified` allows. Those two are all: the
  theorem `SelectionsAreJustified` says so for every tree.

## Proofs

Checked by TLAPS for every value of the constants that satisfies the named assumption of the module.
TLC evaluates every assumption in some run. Every safety property of a passing run is a theorem, and
so are all action properties and the refinements of `PlanVerdicts` and `InventoryReceipt`; that the
variables of the modules with state keep their types is proved too (`TypeCorrect` and its like).

Three arguments recur. *Induction over data* (sums of a sequence, a walk's length, rounds of a closure)
is by the least counterexample: `Least` takes it from `WFMin` of the natural numbers, and `Induction`
says of a *set* that holds 0 and every successor that it holds them all. A *recursive function* is
unfolded by showing that a function with its equation exists up to every bound, and that any two agree
(`SumsUnfold`, `ExecutesExists`, `FollowsExists`); `Recursion` says so once for any rank: where the
value at a point is made of values of lower rank, a function with the equation exists. A *walk* is
compared with a closure from both sides: what it has met was led to (sound), and what is led to was met
or is still in hand (complete).

* **`ScanPlanProofs`** (`ConstantsAssumption`: any valid plans, answers, limits, workers). `TypeCorrect`
  first. `Quiescence` needs that outside submission and collection no future is queued or running.
  `CancelledScannersStayOff` needs that after `CancelEnd` nothing is queued again. `Fidelity` rests on:
  a future that is done stays done with the same result, the entries are as many as the components
  passed, and each was judged when its future was done. `Publication` adds that from `write` on the
  entries are those the validator accepted, and that a target that is new was replaced before any exit.
  `Refusals` and `FailuresHaveCauses` rest on `Books`: the executor's running totals are the validator's
  sums over the entries so far, each entry passes the validator's checks or is a reuse that a stop
  cancelled, and each failed one has its cause before it. `Refinement` maps every step to `Decide`,
  `Publish` or a stutter of `PlanVerdicts`.
* **`GrypeDatabaseProofs`** (`ConstantsAssumption`: any refreshes, scans, regimes). `CurrentUsable`
  alone is not inductive: the invariant says of each refresh what its step implies (inside its critical
  steps it has the lock, and its generation is not the published one before the swap, and not among
  those to be removed after it; a generation that is erased under the link is `unnoted`). `OthersHold`
  reduces a step to the refresh that moves. `ReturnsClean` adds `Swept`: from the listing on, all that
  is neither this generation, nor the one kept, nor spared, nor on the list of the doomed is gone.
  `CalmReadersServed` adds, for the calm regime, that one refresh works at a time (`OneAtATime`), that
  receipts are in the order of publication, so that the newest previous one is the one published before
  (`Ordered`), and that what a reader resolved is the published generation or, one swap later, that
  previous one (`Reader`).
* **`ToolProofs`**, the programs that run the tools. *The pool* (any scanners, workers, failures,
  interrupts): `NothingLeftBehind` is not inductive; `ReportsAccounted` says whose every report on disk
  is, `Stage` what the tools may still do where the caller is (so that nothing is written behind the
  cleanup), `Causes` why a cleanup runs, `Conversion` that the outputs are all the scanners and those
  passed are gone. *The wrappers* (`CallsAssumption`:
  calls of the six tools over any paths): `AnswersAreScans` rests on what each report a wrapper may
  read says of its tool's end, `ScopesAreWhole` on the closure the staging loop reaches. *The Go
  helper* (`GoAssumption`): the identity taken at the open is never above the present one, and if they
  are equal the bytes are those that were hashed; hence `OnlyThePinned`.
* **`InventoryJobProofs`** (`ConstantsAssumption`: any ceilings, sizes, charges, allowance and number of
  changes). The invariant says what each place of the job knows: in a stage nothing has refused, all
  earlier stages have succeeded, and a consumer exists only in a capture whose writers have files; each
  closing check passed has found what it looks at as it was when the last stage ended (what is intact
  now was intact then, since no change is undone); after the last one the job has failed or is whole.
  Three lemmas (`GoingOn`, `Succeeding`, `Failing`) carry all actions of the stages. From it:
  `FinalizedIsWhole`, `ReceiptsBind`, `ConsumersEnd`, and the action property `RefusalsAreFinal`.
  `JobImplementsReceipt` needs more than these, since a step maps to `Succeed` only if no stage was left
  out on the way: `Course` adds how far the stages have come (`Progress`: those passed have succeeded,
  those to come have not run), that the operations passed have left their artifacts (`Retained`), that
  an unfailed job has succeeded in every stage but the matching, and that no stage of the other
  controller is touched. What the two programs have in common is one lemma (`Places`: the stages of the
  operations follow the controller's order without a gap or a return). `SucceedsInReceipt`,
  `FailsReceipt` and `GoesOnInReceipt` map the actions of the stages to `Succeed`, `Fail`, `Work` or a
  stutter, `RestInReceipt` the others to `Withdraw`, `Hand` or a stutter.
* **`InventoryProofs`**, one lock or one manifest. *Links* (`LockInv`): a link is right when it is made,
  by one lemma per kind of search (`NpmRight` to `EndpointRight`) that what the adapter's search
  returns is the row the tool means; links are never changed, and none is missing unless the file is
  marked incomplete. *Scopes* (`PathsInv`): of the importer at work, `WalkSound` and `WalkComplete`; of
  each one before, `ImporterDone`. When nothing is left to follow, the two meet, by `ReachedClosure`
  (the rounds of `Reached` end in the least closed set). *`setup.py`* (`ScriptInv`): the walk and an
  interpreter of the same statements are in step; names never have two meanings. *Versions*
  (`SelectionInv`): no two lines the adapter took over overlap (`NoOverlap`), so the pin of one is
  admitted by all that may apply with it.
* **`CompositionProofs`**, a tree of requirement files. What `SelectionsJustified` compares, the walk of
  `discover` and the closure of the text, differ wherever a walk was cut, met a cycle or left a file
  out; each of these is noted as a reference, and a noted reference fails the origin. The invariant
  therefore says of every origin whose references are all parsed or ignored (`CleanInv`): each reference
  of a file the walk is done with was met (`LeftWhole`), what is on the stack is in hand (`InHand`), and
  no set of files it is done with leads only into itself (`NoTrap`; that is, no cycle). `Generated` is
  the other direction. Hence `WalkIsApplicable`: where nothing was reported, the walk met exactly what
  the text leads to. For completeness one needs in addition that every document belongs to an origin
  that was composed: each was met by a walk (`SeedsInv`), without cycles a walk backwards ends at a file
  nothing includes, and such a file is an origin. `SelectionsAreJustified`, `CompleteIsCovered`. *The
  license check* (`LicenseAssumption`: any canonical values, policies and inventories) is in the same
  module, since it judges what was composed. The parser, the evaluation of its nodes and the reference
  are three recursive functions, each unfolded by `Recursion` (`ParserUnfold`, `EvaluateUnfold`,
  `OffersUnfold`). The reference cuts at any operator of the outermost depth; `SplitOr` and `SplitAnd`
  show that it makes no difference at which (`BothAssociates`). `Agrees` relates a verdict to choices:
  permitted if some choice is permitted throughout, denied if each holds a denied term, and what
  satisfied is a choice. It passes from operands to a compound (`FoldedAgrees`). `Stands` says of a call
  that ends where something may go on: the parentheses it took are balanced, none of the operators
  looser than its rule stands outside them, and its verdict agrees with what the tokens it took offer;
  `CallsStand` proves it of all calls by induction on their rank. `VerdictsAreChoices`.
* **`ScanCommandProofs`**, the four modules of `scan` (`FindingsAssumption`, `HistoryAssumption`,
  `SyncAssumption`, `CommandAssumption`: any findings, finitely many, branches, tickets, runs).
  `CommandImplementsBoth`: the command implements the specification of the history and that of the
  synchronisation. The invariant has a part for each. For the history: what the file at each path holds
  is the last report stored there, torn exactly if a write was cut (`ReportKept`); `fresh` and
  `resolved` are differences to what was loaded (`Tracked`); how far storing has come (`Written`). For
  Jira: how much of its list each loop has done (`LoopsSoFar`), and that the map names an issue of the
  fingerprint it maps (`MapNames`). For the command: a scan that went on has stored everything
  (`StoredWhole`). From it: `TrendFollowsReport`, `ZeroIsStoredAndGated`, `OpenIssuesKnown`,
  `SettledMapsMatch`, and the action property `ClosedWereGoneOrHidden`, for which the findings handed
  over are those the report shows of the complete ones.
* **`WriterProofs`**, the programs that write to others. *The plan board* (`PlanAssumption`: a task
  depends on earlier ones): every issue links an issue of every task its own depends on, because a push
  creates issues in order and forgets what an earlier push created; whatever a listing shows as Done was
  finished or is `mistaken`. `PlanOrder`. *Rotation* (`RotationAssumption`): while a leak is worked on,
  the command holds the key it created for it; names of different leaks differ, so storing one does not
  touch the row of another. `RequestsTellTheTruth`. *Comments* (`CommentsAssumption`): the walk is in
  the file it last met (`FileKnown`), and has counted the lines of the new file since the head of the
  hunk (`LineKnown`); what is posted and skipped are the findings of the files it is done with
  (`CountInv`). `CommentsAreOnTheChange`.

The properties of the modules side by side in `Maintenance` and `ScanPools` are proved for each module's
own specification.

What the assumptions ask of the inputs, and where the code ensures it: a file has finitely many
lines, rows or references (all are sequences or finite sets); a yarn row that is no alias answers to
descriptors of its own name (`yarn_sources.py:92-95`); the key of a pnpm snapshot is unique
(`pnpm_sources.py:82,104,128`, and `bounded_yaml.py:60` refuses a key twice); only the formats that
have them carry groups or references (Composer and Bundler links are not assessed,
`compose_secondary_locks.py:87`); an npm lock has its one root; `package.json` lists a name once in
a table and a version admits itself (`npm_sources.py:123-128`, `212-213`); a pin that its own
specifier excludes is refused by `parse_requirement` (`requirements.py:218-230`). That the diff is a
unified diff is asked of GitHub.

Model-checked only: everything about liveness (`PlanEnds`, `ManagerEnds`, and `Termination` of
`InventoryJob`), and enabledness, which the prover does not handle.

## What is not modelled

* The tools themselves and the parsing of their output, digests, JSON, YAML and TOML lexing, path
  syntax, git, the contents of findings, messages and layout.
* Documents and schemas (`inventory/contract.py`, projections), the framework reports, the converters'
  fields, configuration parsing, the tables of the bundled detectors: functions from data to data with
  no choice in them. The Cedar engine is an answer.
* `fix_pr` makes the calls of `create_rotation_pr` after edits by regular expression; `notifier` posts
  one message; neither keeps state. Build and release scripts are run by one operator.
* In `ScannerWrappers`: KICS files that the tool lists as unparsed, and errors php-vuln swallows per
  file, leave no trace the wrapper could act on; an answer is then an answer for fewer files.
* In `PullRequestComments`: text removed or added that looks like a file header is miscounted by the
  code; the property excludes diffs that remove such text. Findings of a severity that is not listed
  are counted and not shown.
* In `SecretRotation`: GitLab is asked for a token by the prefix of its value, so "revoked" may mean
  another token with that prefix; the property excludes GitLab's rows. One repository.
* `scan_all` leaves the reports of its tools in the temporary directory, since `scan` drops their paths;
  no document promises otherwise, and no property speaks of it.

## Where it could go on

A second change by others in `inventory_job`; the properties of the modules in `Maintenance` as theorems
of its own specification.
