------------------------------ MODULE ScanPlan ------------------------------
(***************************************************************************)
(* execute_scan_plan and the contract-scan command around it               *)
(* (sourcebastion/incremental_contract.py, sourcebastion/cli.py).          *)
(*                                                                         *)
(* The main thread submits the runnable components of one plan to a thread *)
(* pool (or runs them inline when max_workers = 1), collects the results   *)
(* IN PLAN ORDER whatever order the scanners end in, seals an envelope     *)
(* that its own validator must accept, and replaces the result file.       *)
(* Scanners, the execution deadline, interrupts (KeyboardInterrupt) and    *)
(* kills happen at any time.                                               *)
(*                                                                         *)
(* Data kept: of a finding list its length, its size and which of the      *)
(* checks it would fail; of a scope whether it is empty.                   *)
(***************************************************************************)
EXTENDS Integers, Sequences, FiniteSets

CONSTANTS
    Plans,         \* plans to choose from, each a sequence of planned components
    Outcomes,      \* per plan: what a scanner call may return or raise
    MaxWorkers,    \* per plan: manager.max_workers
    MaxFindings,   \* plan["limits"]["max_findings"]
    MaxBytes,      \* MAX_FINDINGS_METADATA_BYTES
    ClockSteps     \* TRUE if the wall clock may be set back during the scan

Names == {"custom_php", "gitleaks", "grype", "kics", "semgrep"}

PartialComponents == {"gitleaks", "semgrep", "custom_php", "kics"}

\* PHPVulnScanner starts no tool and asks for no time budget.
Unbudgeted == {"custom_php"}

ScannerCodes == {"not_installed", "timeout", "execution_failed",
                 "output_missing", "invalid_output", "scope_unresolved"}

DiagnosticCodes == ScannerCodes \cup
    {"unsupported_mode", "findings_limit_exceeded", "finding_ownership_mismatch",
     "finding_scope_mismatch", "duplicate_finding", "metadata_limit_exceeded",
     "execution_limit_exceeded", "component_unchanged", "cancelled"}

\* What can be wrong with a list of findings, each found by a check of its own.
Defects == {"unsized", "foreign", "outOfScope", "duplicate"}

PlannedComponents ==
    [name : Names, mode : {"full", "partial", "reuse"},
     covered : BOOLEAN, deleted : BOOLEAN, units : BOOLEAN]

HasScope(c) == c.covered \/ c.deleted \/ c.units

ValidScanPlan(p) ==
    /\ p # <<>>
    /\ \A i \in DOMAIN p :
         /\ p[i].mode = "partial" <=> HasScope(p[i])
         /\ p[i].units => p[i].name = "kics"
    /\ \A i, j \in DOMAIN p : p[i].name = p[j].name => i = j

Results ==
    [kind : {"none", "list", "garbage", "raised"}, code : ScannerCodes \cup {"none"},
     defects : SUBSET Defects, count : Nat, bytes : Nat, late : BOOLEAN]

NoResult ==
    [kind |-> "none", code |-> "none", defects |-> {}, count |-> 0, bytes |-> 0, late |-> FALSE]

Raised(code) == [NoResult EXCEPT !.kind = "raised", !.code = code]

ASSUME ConstantsAssumption ==
    /\ \A p \in Plans : p \in Seq(PlannedComponents) /\ ValidScanPlan(p)
    /\ Outcomes \in [Plans -> SUBSET Results]
    /\ \A p \in Plans : \A o \in Outcomes[p] :
         /\ o.kind # "none"
         /\ o.kind = "raised" <=> o.code # "none"
         /\ o.defects # {} => o.count > 0
         /\ o.late = FALSE
    /\ MaxWorkers \in [Plans -> 1..10]
    /\ MaxFindings \in Nat
    /\ MaxBytes \in Nat
    /\ ClockSteps \in BOOLEAN

VARIABLES
    plan,       \* the validated plan
    pc,         \* where the main thread is
    at,         \* index of the component the main thread works on
    job,        \* per component: the state of its future
    result,     \* per component: what its scanner returned or raised
    entries,    \* component_results
    findings,   \* total_findings
    bytes,      \* finding_metadata_bytes
    cancelled,  \* the flag of the same name
    expired,    \* the monotonic clock has passed the execution deadline
    temp,       \* content of the temporary result file
    target,     \* content of the result file
    exit        \* how the command ended

vars == <<plan, pc, at, job, result, entries, findings, bytes, cancelled, expired,
          temp, target, exit>>

totals == <<entries, findings, bytes>>
files == <<temp, target>>

Entries ==
    [name : Names, status : {"complete", "failed", "not_run"},
     diagnostic : DiagnosticCodes \cup {"none"},
     defects : SUBSET Defects, count : Nat, bytes : Nat]

Exits == {"none", "ok", "incomplete", "plan_refused", "envelope_refused",
          "clock_refused", "write_failed", "report_failed", "aborted", "killed"}

\* The command ends with an error of its own before the result file is replaced.
RefusedExits == {"plan_refused", "envelope_refused", "clock_refused", "write_failed"}

\* One type invariant for the module.
TypeOK ==
    /\ plan \in Plans
    /\ pc \in {"admit", "submit", "collect", "cancel", "seal", "write", "replace",
               "report", "aborting", "exited"}
    /\ at \in 1..Len(plan) + 1
    /\ job \in [DOMAIN plan -> {"idle", "queued", "running", "done", "cancelled"}]
    /\ result \in [DOMAIN plan -> Results]
    /\ entries \in Seq(Entries)
    /\ findings \in Nat
    /\ bytes \in Nat
    /\ cancelled \in BOOLEAN
    /\ expired \in BOOLEAN
    /\ temp \in {"none", "old", "partial", "full"}
    /\ target \in {"none", "old", "partial", "full"}
    /\ exit \in Exits

Init ==
    /\ plan \in Plans
    /\ pc = "admit"
    /\ at = 1
    /\ job = [i \in DOMAIN plan |-> "idle"]
    /\ result = [i \in DOMAIN plan |-> NoResult]
    /\ entries = <<>>
    /\ findings = 0
    /\ bytes = 0
    /\ cancelled = FALSE
    /\ expired = FALSE
    /\ temp = "none"
    /\ target = "old"
    /\ exit = "none"

-----------------------------------------------------------------------------
(* The components and the pool.                                            *)

Pooled == MaxWorkers[plan] > 1

Runnable(c) ==
    CASE c.mode = "reuse" -> FALSE
      [] c.mode = "full" -> TRUE
      [] OTHER -> c.name \in PartialComponents /\ (c.covered \/ c.units)

Queued == {i \in DOMAIN plan : job[i] = "queued"}
Running == {i \in DOMAIN plan : job[i] = "running"}

\* A worker takes the oldest queued future; without a pool the main thread
\* runs the component it has reached.
MayStart(i) ==
    IF Pooled
    THEN /\ job[i] = "queued"
         /\ \A j \in Queued : i <= j
         /\ Cardinality(Running) < MaxWorkers[plan]
    ELSE /\ pc = "collect" /\ at = i /\ ~cancelled
         /\ Runnable(plan[i])
         /\ job[i] = "idle"

PastDeadline(i) == expired /\ plan[i].name \notin Unbudgeted

StartScan(i) ==
    /\ pc # "exited"
    /\ MayStart(i)
    /\ ~PastDeadline(i)
    /\ job' = [job EXCEPT ![i] = "running"]
    /\ UNCHANGED <<plan, pc, at, result, totals, cancelled, expired, files, exit>>

\* ScannerWrapper._timeout refuses to start a tool with no time left.
StartPastDeadline(i) ==
    /\ pc # "exited"
    /\ MayStart(i)
    /\ PastDeadline(i)
    /\ job' = [job EXCEPT ![i] = "done"]
    /\ \E code \in {"timeout", "not_installed"} : result' = [result EXCEPT ![i] = Raised(code)]
    /\ UNCHANGED <<plan, pc, at, totals, cancelled, expired, files, exit>>

\* The scanner returns or raises; run_component reads the clock after a return.
Finish(i) ==
    /\ pc # "exited"
    /\ job[i] = "running"
    /\ \E o \in Outcomes[plan] :
         result' = [result EXCEPT ![i] = [o EXCEPT !.late = (expired /\ o.kind # "raised")]]
    /\ job' = [job EXCEPT ![i] = "done"]
    /\ UNCHANGED <<plan, pc, at, totals, cancelled, expired, files, exit>>

Expire ==
    /\ pc \in {"submit", "collect", "cancel", "aborting"}
    /\ ~expired
    /\ expired' = TRUE
    /\ UNCHANGED <<plan, pc, at, job, result, totals, cancelled, files, exit>>

-----------------------------------------------------------------------------
(* The main thread: admission and submission.                              *)

\* The image, the source tree and the checked-out head are as planned.
Admit ==
    /\ pc = "admit"
    /\ pc' = IF Pooled THEN "submit" ELSE "collect"
    /\ UNCHANGED <<plan, at, job, result, totals, cancelled, expired, files, exit>>

RefusePlan ==
    /\ pc = "admit"
    /\ pc' = "exited"
    /\ exit' = "plan_refused"
    /\ UNCHANGED <<plan, at, job, result, totals, cancelled, expired, files>>

Submit ==
    /\ pc = "submit" /\ at <= Len(plan)
    /\ job' = IF Runnable(plan[at]) THEN [job EXCEPT ![at] = "queued"] ELSE job
    /\ IF at = Len(plan)
       THEN pc' = "collect" /\ at' = 1
       ELSE pc' = "submit" /\ at' = at + 1
    /\ UNCHANGED <<plan, result, totals, cancelled, expired, files, exit>>

-----------------------------------------------------------------------------
(* The main thread: one entry per component, in plan order.                *)

EntryFor(c, status, diagnostic) ==
    [name |-> c.name, status |-> status, diagnostic |-> diagnostic,
     defects |-> {}, count |-> 0, bytes |-> 0]

CompleteEntry(c, r) ==
    [name |-> c.name, status |-> "complete", diagnostic |-> "none",
     defects |-> r.defects, count |-> r.count, bytes |-> r.bytes]

\* The entry of a component whose scanner is not asked.
UnaskedEntry(c) ==
    IF cancelled THEN EntryFor(c, "failed", "cancelled")
    ELSE IF c.mode = "reuse" THEN EntryFor(c, "not_run", "component_unchanged")
    ELSE IF c.name \in PartialComponents THEN EntryFor(c, "complete", "none")
    ELSE EntryFor(c, "not_run", "unsupported_mode")

\* Slip: the findings limit is applied to each component alone.
DiagnosePerComponent(c, r) ==
    IF r.kind = "raised" THEN r.code
    ELSE IF r.late THEN "execution_limit_exceeded"
    ELSE IF r.kind = "garbage" THEN "invalid_output"
    ELSE IF r.defects # {} THEN "duplicate_finding"
    ELSE IF r.count > MaxFindings THEN "findings_limit_exceeded"
    ELSE "none"

\* Slip: a component that reaches the limit exactly is refused.
DiagnoseLimitTooEarly(c, r) ==
    IF r.kind = "raised" THEN r.code
    ELSE IF r.late THEN "execution_limit_exceeded"
    ELSE IF r.kind = "garbage" THEN "invalid_output"
    ELSE IF r.defects # {} THEN "duplicate_finding"
    ELSE IF findings + r.count >= MaxFindings THEN "findings_limit_exceeded"
    ELSE "none"

\* The elif chain over a scanner's answer: the first check that fails.
Diagnose(c, r) ==
    IF r.kind = "raised" THEN r.code
    ELSE IF r.late THEN "execution_limit_exceeded"
    ELSE IF r.kind = "garbage" THEN "invalid_output"
    ELSE IF "unsized" \in r.defects THEN "metadata_limit_exceeded"
    ELSE IF "foreign" \in r.defects THEN "finding_ownership_mismatch"
    ELSE IF c.mode = "partial" /\ "outOfScope" \in r.defects THEN "finding_scope_mismatch"
    ELSE IF "duplicate" \in r.defects THEN "duplicate_finding"
    ELSE IF findings + r.count > MaxFindings THEN "findings_limit_exceeded"
    ELSE IF bytes + r.bytes > MaxBytes THEN "metadata_limit_exceeded"
    ELSE "none"

\* The loop stands at a component whose scanner's answer it wants.
Asking == pc = "collect" /\ at <= Len(plan) /\ ~cancelled /\ Runnable(plan[at])

\* Slip: after a stop the loop still waits for the scanners of the plan.
RecordUnaskedWaits ==
    /\ pc = "collect" /\ at <= Len(plan)
    /\ ~Runnable(plan[at])
    /\ entries' = Append(entries, UnaskedEntry(plan[at]))
    /\ at' = at + 1
    /\ UNCHANGED <<plan, pc, job, result, findings, bytes, cancelled, expired, files, exit>>

RecordUnasked ==
    /\ pc = "collect" /\ at <= Len(plan)
    /\ cancelled \/ ~Runnable(plan[at])
    /\ entries' = Append(entries, UnaskedEntry(plan[at]))
    /\ at' = at + 1
    /\ UNCHANGED <<plan, pc, job, result, findings, bytes, cancelled, expired, files, exit>>

\* Slip: results are taken in the order the scanners end.
CollectCompleteAsCompleted ==
    /\ Asking
    /\ \E i \in DOMAIN plan :
         /\ i >= at /\ job[i] = "done"
         /\ Diagnose(plan[i], result[i]) = "none"
         /\ entries' = Append(entries, CompleteEntry(plan[at], result[i]))
         /\ findings' = findings + result[i].count
         /\ bytes' = bytes + result[i].bytes
    /\ at' = at + 1
    /\ UNCHANGED <<plan, pc, job, result, cancelled, expired, files, exit>>

CollectComplete ==
    /\ Asking
    /\ job[at] = "done"
    /\ Diagnose(plan[at], result[at]) = "none"
    /\ entries' = Append(entries, CompleteEntry(plan[at], result[at]))
    /\ findings' = findings + result[at].count
    /\ bytes' = bytes + result[at].bytes
    /\ at' = at + 1
    /\ UNCHANGED <<plan, pc, job, result, cancelled, expired, files, exit>>

\* Going over the deadline cancels the rest of the plan as an interrupt does.
CollectFailed ==
    /\ Asking
    /\ job[at] = "done"
    /\ LET d == Diagnose(plan[at], result[at]) IN
         /\ d # "none"
         /\ entries' = Append(entries, EntryFor(plan[at], "failed", d))
         /\ cancelled' = (d = "execution_limit_exceeded")
         /\ pc' = IF cancelled' THEN "cancel" ELSE pc
    /\ at' = at + 1
    /\ UNCHANGED <<plan, job, result, findings, bytes, expired, files, exit>>

\* Slip: an interrupt fails one component and the scan goes on.
InterruptForgotten ==
    /\ Asking
    /\ entries' = Append(entries, EntryFor(plan[at], "failed", "cancelled"))
    /\ at' = at + 1
    /\ UNCHANGED <<plan, pc, job, result, findings, bytes, cancelled, expired, files, exit>>

\* KeyboardInterrupt while the loop waits for, or runs, a scanner.
Interrupt ==
    /\ Asking
    /\ entries' = Append(entries, EntryFor(plan[at], "failed", "cancelled"))
    /\ cancelled' = TRUE
    /\ pc' = "cancel"
    /\ at' = at + 1
    /\ job' = IF Pooled THEN job ELSE [job EXCEPT ![at] = "cancelled"]
    /\ UNCHANGED <<plan, result, findings, bytes, expired, files, exit>>

\* future.cancel() on every future, one at a time: workers go on meanwhile.
CancelNext ==
    /\ pc = "cancel"
    /\ \E i \in Queued :
         /\ \A j \in Queued : i <= j
         /\ job' = [job EXCEPT ![i] = "cancelled"]
    /\ UNCHANGED <<plan, pc, at, result, totals, cancelled, expired, files, exit>>

\* Slip: the cancel pass stops before the last future.
CancelEndEarly ==
    /\ pc = "cancel"
    /\ pc' = "collect"
    /\ UNCHANGED <<plan, at, job, result, totals, cancelled, expired, files, exit>>

CancelEnd ==
    /\ pc = "cancel"
    /\ Queued = {}
    /\ pc' = "collect"
    /\ UNCHANGED <<plan, at, job, result, totals, cancelled, expired, files, exit>>

\* Slip: the pool is left without waiting for its workers.
LeavePoolAtOnce ==
    /\ pc = "collect" /\ at > Len(plan)
    /\ pc' = "seal"
    /\ UNCHANGED <<plan, at, job, result, totals, cancelled, expired, files, exit>>

\* Leaving the pool's context waits for every worker.
LeavePool ==
    /\ pc = "collect" /\ at > Len(plan)
    /\ Queued \cup Running = {}
    /\ pc' = "seal"
    /\ UNCHANGED <<plan, at, job, result, totals, cancelled, expired, files, exit>>

-----------------------------------------------------------------------------
(* The envelope: validation against the plan, then the atomic write.       *)

EntryAccepted(c, e) ==
    /\ e.name = c.name
    /\ e.status = "complete" <=> e.diagnostic = "none"
    /\ e.status # "complete" => e.count = 0
    /\ c.mode = "reuse" => e.status = "not_run" /\ e.diagnostic = "component_unchanged"
    /\ c.mode # "reuse" /\ e.status = "not_run" => e.diagnostic = "unsupported_mode"
    /\ e.defects \cap {"unsized", "foreign", "duplicate"} = {}
    /\ c.mode = "partial" => "outOfScope" \notin e.defects

Counts(es) == [i \in DOMAIN es |-> es[i].count]
Sizes(es) == [i \in DOMAIN es |-> es[i].bytes]

\* Running totals: Sums(f)[n] adds up the first n values of f.
Sums(f) == LET s[n \in Nat] == IF n = 0 THEN 0 ELSE s[n - 1] + f[n] IN s

ValidateResultEnvelope(p, es) ==
    /\ Len(es) = Len(p)
    /\ \A i \in DOMAIN es : EntryAccepted(p[i], es[i])
    /\ Sums(Counts(es))[Len(es)] <= MaxFindings
    /\ Sums(Sizes(es))[Len(es)] <= MaxBytes

\* Slip: the envelope is written without being validated.
SealUnchecked ==
    /\ pc = "seal"
    /\ pc' = "write"
    /\ UNCHANGED <<plan, at, job, result, totals, cancelled, expired, files, exit>>

SealAccepted ==
    /\ pc = "seal"
    /\ ValidateResultEnvelope(plan, entries)
    /\ pc' = "write"
    /\ UNCHANGED <<plan, at, job, result, totals, cancelled, expired, files, exit>>

SealRefused ==
    /\ pc = "seal"
    /\ ~ValidateResultEnvelope(plan, entries)
    /\ pc' = "exited"
    /\ exit' = "envelope_refused"
    /\ UNCHANGED <<plan, at, job, result, totals, cancelled, expired, files>>

\* finished_at and started_at come from the wall clock; finished < started is refused.
SealAfterClockStep ==
    /\ pc = "seal"
    /\ ClockSteps
    /\ pc' = "exited"
    /\ exit' = "clock_refused"
    /\ UNCHANGED <<plan, at, job, result, totals, cancelled, expired, files>>

OpenTemp ==
    /\ pc = "write" /\ temp = "none"
    /\ temp' = "partial"
    /\ UNCHANGED <<plan, pc, at, job, result, totals, cancelled, expired, target, exit>>

FlushTemp ==
    /\ pc = "write" /\ temp = "partial"
    /\ temp' = "full"
    /\ pc' = "replace"
    /\ UNCHANGED <<plan, at, job, result, totals, cancelled, expired, target, exit>>

Replace ==
    /\ pc = "replace"
    /\ target' = temp
    /\ temp' = "none"
    /\ pc' = "report"
    /\ UNCHANGED <<plan, at, job, result, totals, cancelled, expired, exit>>

\* OSError at any of these steps; the temporary file is unlinked if it can be.
WriteFails ==
    /\ pc \in {"write", "replace"}
    /\ temp' \in {"none", temp}
    /\ pc' = "exited"
    /\ exit' = "write_failed"
    /\ UNCHANGED <<plan, at, job, result, totals, cancelled, expired, target>>

\* What contract_scan reports as scan_component_incomplete.
Incomplete(p, es) ==
    \E i \in DOMAIN es : \/ es[i].status = "failed"
                         \/ es[i].status = "not_run" /\ p[i].mode # "reuse"

\* The verdict of the command, after the file is replaced: an interrupt, a kill
\* or a failing write to the terminal may still fall before it.
Report ==
    /\ pc = "report"
    /\ pc' = "exited"
    /\ exit' = IF Incomplete(plan, entries) THEN "incomplete" ELSE "ok"
    /\ UNCHANGED <<plan, at, job, result, totals, cancelled, expired, files>>

ReportFails ==
    /\ pc = "report"
    /\ pc' = "exited"
    /\ exit' = "report_failed"
    /\ UNCHANGED <<plan, at, job, result, totals, cancelled, expired, files>>

-----------------------------------------------------------------------------
(* Interrupts nobody catches, and kills.                                   *)

\* KeyboardInterrupt outside the try: it leaves through the pool's context,
\* which waits for the queued scanners too, since nothing cancels them.
Abort ==
    /\ pc \notin {"aborting", "exited"}
    /\ Pooled \/ Running = {}
    /\ pc' = "aborting"
    /\ UNCHANGED <<plan, at, job, result, totals, cancelled, expired, files, exit>>

AbortEnd ==
    /\ pc = "aborting"
    /\ Queued \cup Running = {}
    /\ pc' = "exited"
    /\ exit' = "aborted"
    /\ UNCHANGED <<plan, at, job, result, totals, cancelled, expired, files>>

Kill ==
    /\ pc # "exited"
    /\ pc' = "exited"
    /\ exit' = "killed"
    /\ UNCHANGED <<plan, at, job, result, totals, cancelled, expired, files>>

-----------------------------------------------------------------------------
Main ==
    \/ Admit \/ Submit
    \/ RecordUnasked \/ CollectComplete \/ CollectFailed \/ CancelNext \/ CancelEnd \/ LeavePool
    \/ SealAccepted \/ SealRefused \/ OpenTemp \/ FlushTemp \/ Replace \/ Report
    \/ AbortEnd

Workers == \E i \in DOMAIN plan : StartScan(i) \/ StartPastDeadline(i) \/ Finish(i)

Environment ==
    \/ RefusePlan \/ Expire \/ Interrupt \/ SealAfterClockStep \/ WriteFails \/ ReportFails
    \/ Abort \/ Kill

Next == Main \/ Workers \/ Environment

Spec == Init /\ [][Next]_vars

\* The main thread and the workers are scheduled, and every scanner ends: the
\* tools at their time budget, custom_php because its loops are finite.
FairSpec == Spec /\ WF_vars(Main) /\ WF_vars(Workers)
-----------------------------------------------------------------------------
(* Properties.                                                             *)

\* The executor's checks and the validator's agree: the command refuses its own
\* envelope only when a stop reached a component the plan reuses, which the
\* executor records as cancelled and the validator accepts only as not run.
RefusalsExplained ==
    exit = "envelope_refused" =>
        \E i \in DOMAIN entries : plan[i].mode = "reuse" /\ entries[i].diagnostic = "cancelled"

\* Whatever order the scanners end in, a complete entry carries exactly what the
\* scanner of that very component returned, in time and free of defects that
\* matter in its mode; a component with nothing to scan carries no finding.
EntriesFaithful ==
    \A i \in DOMAIN entries :
        entries[i].status = "complete" =>
            \/ ~Runnable(plan[i]) /\ plan[i].mode = "partial" /\ entries[i].count = 0
            \/ /\ job[i] = "done" /\ result[i].kind = "list" /\ ~result[i].late
               /\ entries[i] = CompleteEntry(plan[i], result[i])
               /\ EntryAccepted(plan[i], entries[i])

AcceptedBefore(i) == Sums(Counts(entries))[i - 1]

\* A component is failed for a reason that really holds: a limit only if the
\* findings accepted before it leave no room for its own, the deadline only if its
\* answer was late, and nothing is cancelled unless an interrupt or a late answer
\* hit a component whose scanner was asked, at or before it in plan order.
FailuresJustified ==
    \A i \in DOMAIN entries :
        /\ entries[i].diagnostic = "findings_limit_exceeded" =>
               AcceptedBefore(i) + result[i].count > MaxFindings
        /\ entries[i].diagnostic = "execution_limit_exceeded" => result[i].late
        /\ entries[i].diagnostic = "cancelled" =>
               \E k \in 1..i : /\ Runnable(plan[k])
                               /\ entries[k].diagnostic \in {"cancelled", "execution_limit_exceeded"}
                               /\ \A j \in k..i - 1 : entries[j].count = 0

\* Once the cancel pass over the futures is over, no worker starts another scanner.
NoStartAfterCancel ==
    [][cancelled /\ pc \in {"collect", "seal", "write", "replace", "report"} => Running' \subseteq Running]_vars

\* No scanner still runs, or waits to, when the envelope is sealed and written.
QuiescentWhenSealed ==
    pc \in {"seal", "write", "replace", "report"} \/ exit \in {"ok", "incomplete"} =>
        Queued \cup Running = {}

\* The result file holds the old content or a whole envelope the validator
\* accepts, wherever an interrupt, a kill or an error falls. A command that reports
\* its verdict has replaced the file and one that refuses has not; exit status 0
\* means that every component the plan does not reuse was completely scanned.
PublishedOnlyIfAccepted ==
    /\ target # "partial"
    /\ target = "full" => ValidateResultEnvelope(plan, entries)
    /\ exit \in {"ok", "incomplete"} => target = "full"
    /\ exit \in RefusedExits => target = "old"
    /\ exit = "ok" => \A i \in DOMAIN plan : plan[i].mode # "reuse" => entries[i].status = "complete"

\* docs/sourcebastion-scan-contract.md: a component interrupted by cancellation
\* "still produces a complete result envelope for the trusted fallback path".
EnvelopeSurvivesCancellation == cancelled => exit # "envelope_refused"

\* The command always ends, whichever scanners are stopped, late or never started.
Termination == <>(pc = "exited")

\* The pool implements the plan's verdicts: same order, same stops, same limit.
Verdicts == INSTANCE PlanVerdicts WITH
    Asked <- Runnable,
    verdicts <- entries,
    total <- findings,
    stopped <- cancelled,
    published <- (target = "full")

ImplementsVerdicts == Verdicts!Spec
=============================================================================
