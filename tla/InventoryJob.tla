----------------------------- MODULE InventoryJob -----------------------------
(***************************************************************************)
(* The inventory child (sourcebastion/inventory_entrypoint.py) and the two *)
(* controllers of sourcebastion/inventory/ it may be built on:             *)
(* run_dependency, which the entrypoint calls, and run_direct. One         *)
(* PipelineBudget and one ArtifactStore serve every stage; each refuses    *)
(* for good once it has refused. Captured consumers run beside the job,    *)
(* the deadlines pass and signals arrive at any time, and what the job     *)
(* holds open (control record, source, output, runtime) may be changed by  *)
(* others at any time: "moved" shows in its metadata, "rewritten" only in  *)
(* its bytes. Sizes are in units of 64 KiB, semantic checks in charges.    *)
(***************************************************************************)
EXTENDS Integers, Sequences, FiniteSets

CONSTANTS
    Kinds,        \* the controllers to run, "dependency" or "direct"
    Ceiling,      \* ArtifactStore._ceilings
    JobBytes,     \* limits.diagnostic_job_bytes
    Sizes,        \* lengths of what put may be given
    MaxChecks,    \* config.semantic_checks
    Charges,      \* semantic checks one step of a stage may cost
    MaxTouches    \* bound on the changes others make to what the job holds

Names == {"grype.yaml", "consumer-config.json", "grype-version.json",
          "grype-version.stderr", "grype-status.json", "grype-status.stderr",
          "inventory.json", "sbom.cdx.json", "grype.json", "grype.stderr", "recovery.json"}

ASSUME ConstantsAssumption ==
    /\ Kinds \subseteq {"dependency", "direct"}
    /\ Ceiling \in [Names -> Nat]
    /\ JobBytes \in Nat
    /\ Sizes \subseteq Nat
    /\ MaxChecks \in Nat
    /\ Charges \subseteq Nat
    /\ MaxTouches \in Nat

\* The 64 KiB reserve_control charges for the record the job returns.
ControlBytes == 1

Stages == {"runtime_admission", "composition", "inventory", "export",
           "consumer_execution", "recovery", "source_validation", "finalization", "matching"}

Operation(stage, do, files) == [stage |-> stage, do |-> do, files |-> files]

\* run_dependency from the binding of the runtime to its finalization stage.
DependencyProgram ==
    << Operation("runtime_admission", "bind", <<>>),
       Operation("runtime_admission", "put", <<"grype.yaml">>),
       Operation("runtime_admission", "put", <<"consumer-config.json">>),
       Operation("runtime_admission", "capture", <<"grype-version.json", "grype-version.stderr">>),
       Operation("runtime_admission", "capture", <<"grype-status.json", "grype-status.stderr">>),
       Operation("runtime_admission", "analyse", <<>>),
       Operation("composition", "compose", <<>>),
       Operation("inventory", "put", <<"inventory.json">>),
       Operation("export", "analyse", <<>>),
       Operation("export", "put", <<"sbom.cdx.json">>),
       Operation("consumer_execution", "capture", <<"grype.json", "grype.stderr">>),
       Operation("recovery", "analyse", <<>>),
       Operation("recovery", "put", <<"recovery.json">>),
       Operation("finalization", "verify", <<>>) >>

\* run_direct, given a report.
DirectProgram ==
    << Operation("composition", "compose", <<>>),
       Operation("inventory", "put", <<"inventory.json">>),
       Operation("export", "analyse", <<>>),
       Operation("export", "put", <<"sbom.cdx.json">>),
       Operation("source_validation", "verify", <<>>),
       Operation("finalization", "check", <<>>),
       Operation("matching", "analyse", <<>>),
       Operation("matching", "put", <<"grype.json">>) >>

Program(k) == IF k = "dependency" THEN DependencyProgram ELSE DirectProgram

\* The stages a controller keeps a state of, in the order it passes them, and the
\* matching, which run_direct keeps apart.
Order(k) ==
    IF k = "dependency"
    THEN <<"runtime_admission", "composition", "inventory", "export",
           "consumer_execution", "recovery", "finalization">>
    ELSE <<"composition", "inventory", "export", "source_validation", "finalization", "matching">>

\* What the operations of a stage retain.
Artifacts(k, s) ==
    UNION {{Program(k)[i].files[j] : j \in DOMAIN Program(k)[i].files} :
             i \in {n \in DOMAIN Program(k) : Program(k)[n].stage = s}}

\* What a job holds open and others may change.
Held(k) == IF k = "dependency" THEN {"control", "source", "output", "runtime"}
                               ELSE {"source", "output"}

Conditions == {"intact", "rewritten", "moved"}

Reasons == {"none", "deadline", "source", "checks", "retention", "changed", "unfinished",
            "cancelled", "capture", "write"}

VARIABLES
    kind,       \* the controller that runs
    pc,         \* "work" in the stages, then the checks that close the job
    at,         \* the operation, or the closing check, it has reached
    stages,     \* the stages of the receipt, and the outcome of the matching
    files,      \* per artifact: absent, open in a writer, or a fact
    reserved,   \* ArtifactStore._reserved
    consumed,   \* PipelineBudget._consumed
    budget,     \* PipelineBudget._refusal
    store,      \* ArtifactStore._refusal
    child,      \* the captured consumer
    holds,      \* ends of its pipes still held by it or a descendant
    listening,  \* pipes in the selector
    overdue,    \* deadlines that have passed: the budget's, the entrypoint's
    cancelled,  \* the Event the signal handlers set
    touched,    \* per held thing: what others did to it
    atRest,     \* touched when the job ended its last stage
    exit        \* what the parent gets

vars == <<kind, pc, at, stages, files, reserved, consumed, budget, store, child, holds,
          listening, overdue, cancelled, touched, atRest, exit>>

capture == <<child, holds, listening>>
world == <<overdue, cancelled, touched>>

TypeOK ==
    /\ kind \in Kinds
    /\ pc \in {"admit", "work", "attest", "recheck", "seal", "deliver", "done"}
    /\ at \in 1..Len(Program(kind)) + 1
    /\ stages \in [Stages -> {"not_run", "succeeded", "failed"}]
    /\ files \in [Names -> {"absent", "open", "complete"}]
    /\ reserved \in 0..JobBytes
    /\ consumed \in Nat
    /\ budget \in Reasons
    /\ store \in Reasons
    /\ child \in {"none", "running", "exited", "reaped", "stuck"}
    /\ holds \subseteq {"out", "err"}
    /\ listening \subseteq {"out", "err"}
    /\ overdue \subseteq {"pipeline", "entry"}
    /\ cancelled \in BOOLEAN
    /\ touched \in [Held(kind) -> Conditions]
    /\ atRest \in [Held(kind) -> Conditions]
    /\ exit \in {"none", "finalized", "unfinalized", "refused"}

Init ==
    /\ kind \in Kinds
    /\ pc = "admit"
    /\ at = 1
    /\ stages = [s \in Stages |-> "not_run"]
    /\ files = [f \in Names |-> "absent"]
    /\ reserved = 0
    /\ consumed = 0
    /\ budget = "none"
    /\ store = "none"
    /\ child = "none"
    /\ holds = {}
    /\ listening = {}
    /\ overdue = {}
    /\ cancelled = FALSE
    /\ touched = [t \in Held(kind) |-> "intact"]
    /\ atRest = touched
    /\ exit = "none"

-----------------------------------------------------------------------------
(* The two ledgers. A refusal, once recorded, is what every later check    *)
(* answers.                                                                *)

\* Slip: what a check observes now goes before what was refused.
BudgetAfterLatest(n) ==
    IF "pipeline" \in overdue THEN "deadline"
    ELSE IF touched["source"] = "moved" THEN "source"
    ELSE IF budget # "none" THEN budget
    ELSE IF consumed + n > MaxChecks THEN "checks"
    ELSE "none"

\* The refusal of the budget after a check that charges n.
BudgetAfter(n) ==
    IF budget # "none" THEN budget
    ELSE IF "pipeline" \in overdue THEN "deadline"
    ELSE IF touched["source"] = "moved" THEN "source"
    ELSE IF consumed + n > MaxChecks THEN "checks"
    ELSE "none"

Spend(n) ==
    /\ budget' = BudgetAfter(n)
    /\ consumed' = IF budget = "none" /\ BudgetAfter(n) \in {"none", "checks"}
                   THEN consumed + n ELSE consumed

\* The refusal of the store after a guard, whose check is the budget's.
StoreAfter(n) ==
    IF store # "none" THEN store
    ELSE IF BudgetAfter(n) # "none" THEN BudgetAfter(n)
    ELSE IF touched["output"] = "moved" THEN "changed"
    ELSE "none"

\* The refusal of the store after validate, which reads every fact again.
Validated(n) ==
    IF StoreAfter(n) # "none" THEN StoreAfter(n)
    ELSE IF \E f \in Names : files[f] = "open" THEN "unfinished"
    ELSE IF touched["output"] = "rewritten" THEN "changed"
    ELSE "none"

\* tick: only run_dependency was given the Event.
Cancelled == kind = "dependency" /\ cancelled

-----------------------------------------------------------------------------
(* Admission, and the stages.                                              *)

Admit ==
    /\ pc = "admit"
    /\ cancelled = FALSE /\ overdue = {}
    /\ \A t \in {"control", "source", "output"} \cap Held(kind) : touched[t] # "moved"
    /\ ControlBytes <= JobBytes
    /\ reserved' = ControlBytes
    /\ pc' = "work"
    /\ UNCHANGED <<kind, at, stages, files, consumed, budget, store, capture, world, atRest,
                   exit>>

\* A control record, a root or an argument that is not admitted, and a
\* control record that changes before the job begins.
RefuseAdmission ==
    /\ pc = "admit"
    /\ pc' = "done"
    /\ exit' = "refused"
    /\ UNCHANGED <<kind, at, stages, files, reserved, consumed, budget, store, capture, world,
                   atRest>>

Op == Program(kind)[at]

Last == at = Len(Program(kind))

\* The receipt the controller returns, and what its caller does with it.
AfterJob == IF kind = "dependency" THEN "recheck" ELSE "deliver"

\* Slip: a stage has succeeded with its first operation.
AdvanceEarly ==
    /\ at' = IF Last THEN 1 ELSE at + 1
    /\ pc' = IF Last THEN "attest" ELSE "work"
    /\ atRest' = IF Last THEN touched ELSE atRest
    /\ stages' = [stages EXCEPT ![Op.stage] = "succeeded"]

\* The operation has succeeded.
Advance ==
    /\ at' = IF Last THEN 1 ELSE at + 1
    /\ pc' = IF Last THEN "attest" ELSE "work"
    /\ atRest' = IF Last THEN touched ELSE atRest
    /\ stages' = IF Last \/ Program(kind)[at + 1].stage # Op.stage
                 THEN [stages EXCEPT ![Op.stage] = "succeeded"] ELSE stages

\* The exception ends the stages; that of the matching ends only the matching.
StageFails ==
    /\ stages' = [stages EXCEPT ![Op.stage] = "failed"]
    /\ at' = 1
    /\ pc' = IF Op.stage = "matching" THEN "attest" ELSE AfterJob
    /\ atRest' = touched

\* The stage reads artifacts back from the store.
ReadsStore ==
    \/ Op.do = "verify"
    \/ kind = "dependency" /\ Op.do = "analyse" /\ Op.stage \in {"runtime_admission", "recovery"}

\* compose_source is given the budget but not the Event.
Obstructed(n) ==
    \/ BudgetAfter(n) # "none"
    \/ Op.do # "compose" /\ Cancelled
    \/ ReadsStore /\ StoreAfter(n) # "none"
    \/ Op.do = "bind" /\ touched["runtime"] # "intact"
    \/ Op.stage = "runtime_admission" /\ touched["runtime"] = "moved"
    \/ Op.do = "verify" /\ (touched["source"] # "intact" \/ Validated(n) # "none")

InStage(operations) == pc = "work" /\ Op.do \in operations

Analyse ==
    /\ InStage({"bind", "analyse", "compose", "check", "verify"})
    /\ \E n \in Charges : ~Obstructed(n) /\ Spend(n)
    /\ Advance
    /\ UNCHANGED <<kind, files, reserved, store, capture, world, exit>>

\* A check refuses, or the data does; which of several checks comes first is
\* left open.
AnalysisRefused ==
    /\ InStage({"bind", "analyse", "compose", "check", "verify"})
    /\ \E n \in Charges :
         /\ Obstructed(n) \/ Op.do \in {"bind", "analyse", "compose"}
         /\ Spend(n)
         /\ store' \in {store} \cup (IF Cancelled /\ store = "none" THEN {"cancelled"} ELSE {})
                               \cup (IF ReadsStore THEN {Validated(n)} ELSE {})
    /\ StageFails
    /\ UNCHANGED <<kind, files, reserved, capture, world, exit>>

-----------------------------------------------------------------------------
(* Artifacts: a writer reserves its whole maximum before it opens its file *)
(* under a name nobody has attempted, and a fact is what was finished.     *)

OpFiles == {Op.files[i] : i \in DOMAIN Op.files}

\* A file is only opened once those before it are, and so for finishing.
Turn(i, state) ==
    /\ files[Op.files[i]] = state
    /\ \A j \in 1..(i - 1) : files[Op.files[j]] # state

\* put reserves the length of its content, a captured pipe its ceiling.
Maxima(f) == IF Op.do = "put" THEN Sizes ELSE IF f = "grype.stderr" THEN {1} ELSE {Ceiling[f]}

Affordable(f, size) == size <= Ceiling[f] /\ reserved + size <= JobBytes

\* Before the writers of a capture: tick and the metadata of the runtime.
MayInvoke == Op.do = "capture" => ~Cancelled /\ touched["runtime"] # "moved"

OpenWriter ==
    /\ InStage({"put", "capture"})
    /\ MayInvoke
    /\ \E i \in DOMAIN Op.files, n \in Charges, size \in UNION {Maxima(f) : f \in OpFiles} :
         /\ Turn(i, "absent")
         /\ size \in Maxima(Op.files[i])
         /\ StoreAfter(n) = "none"
         /\ Affordable(Op.files[i], size)
         /\ Spend(n)
         /\ reserved' = reserved + size
         /\ files' = [files EXCEPT ![Op.files[i]] = "open"]
    /\ UNCHANGED <<kind, pc, at, stages, store, capture, world, atRest, exit>>

\* The guard, the allowance or the file system refuses the writer; a file it
\* has created stays.
OpenRefused ==
    /\ InStage({"put", "capture"})
    /\ \E i \in DOMAIN Op.files, n \in Charges, size \in UNION {Maxima(f) : f \in OpFiles} :
         /\ Turn(i, "absent")
         /\ size \in Maxima(Op.files[i])
         /\ Spend(n)
         /\ \/ /\ StoreAfter(n) # "none"
               /\ store' = StoreAfter(n)
               /\ UNCHANGED <<files, reserved>>
            \/ /\ StoreAfter(n) = "none" /\ ~MayInvoke
               /\ store' \in {"none"} \cup (IF Cancelled THEN {"cancelled"} ELSE {})
               /\ UNCHANGED <<files, reserved>>
            \/ /\ StoreAfter(n) = "none" /\ ~Affordable(Op.files[i], size)
               /\ store' = "retention"
               /\ UNCHANGED <<files, reserved>>
            \/ /\ StoreAfter(n) = "none" /\ Affordable(Op.files[i], size)
               /\ store' = "write"
               /\ reserved' = reserved + size
               /\ files' \in {files, [files EXCEPT ![Op.files[i]] = "open"]}
    /\ StageFails
    /\ UNCHANGED <<kind, capture, world, exit>>

Finishing(i) ==
    /\ InStage({"put", "capture"})
    /\ \A f \in OpFiles : files[f] # "absent"
    /\ Op.do = "capture" => child = "reaped"
    /\ Turn(i, "open")

\* write and finish: synced and read again before the fact is published.
FinishWriter ==
    /\ \E i \in DOMAIN Op.files, n \in Charges :
         /\ Finishing(i)
         /\ StoreAfter(n) = "none"
         /\ Spend(n)
         /\ files' = [files EXCEPT ![Op.files[i]] = "complete"]
    /\ IF Op.do = "put" THEN Advance ELSE UNCHANGED <<pc, at, stages, atRest>>
    /\ UNCHANGED <<kind, reserved, store, capture, world, exit>>

FinishRefused ==
    /\ \E i \in DOMAIN Op.files, n \in Charges :
         /\ Finishing(i)
         /\ Spend(n)
         /\ store' = IF StoreAfter(n) # "none" THEN StoreAfter(n) ELSE "write"
    /\ StageFails
    /\ child' = "none"
    /\ UNCHANGED <<kind, files, reserved, holds, listening, world, exit>>

-----------------------------------------------------------------------------
(* A captured consumer: _capture.                                          *)

Capturing == InStage({"capture"}) /\ \A f \in OpFiles : files[f] = "open"

Spawn ==
    /\ Capturing /\ child = "none"
    /\ ~Cancelled
    /\ \E n \in Charges : BudgetAfter(n) = "none" /\ Spend(n)
    /\ child' = "running"
    /\ holds' = {"out", "err"}
    /\ listening' = {"out", "err"}
    /\ UNCHANGED <<kind, pc, at, stages, files, reserved, store, world, atRest, exit>>

\* The end of a pipe, while tick still passes.
PipeEnds ==
    /\ Capturing /\ child \in {"running", "exited"}
    /\ ~Cancelled
    /\ \E n \in Charges : BudgetAfter(n) = "none" /\ Spend(n)
    /\ \E p \in listening \ holds : listening' = listening \ {p}
    /\ UNCHANGED <<kind, pc, at, stages, files, reserved, store, child, holds, world, atRest,
                   exit>>

\* Both pipes have ended and poll has reaped the leader.
Reap ==
    /\ Capturing /\ child = "exited"
    /\ listening = {}
    /\ child' = "reaped"
    /\ UNCHANGED <<kind, pc, at, stages, files, reserved, consumed, budget, store, holds,
                   listening, world, atRest, exit>>

\* Slip: an exception in the loop leaves the consumer to itself.
CaptureFailsUnkilled ==
    /\ Capturing
    /\ \E n \in Charges : Spend(n)
    /\ store' = IF store # "none" THEN store ELSE IF Cancelled THEN "cancelled" ELSE "capture"
    /\ StageFails
    /\ UNCHANGED <<kind, files, reserved, capture, world, exit>>

\* Slip: tick is called only while a pipe is open.
CaptureFailsListening ==
    /\ Capturing
    /\ listening # {} \/ child = "none"
    /\ \E n \in Charges : Spend(n)
    /\ store' = IF store # "none" THEN store ELSE IF Cancelled THEN "cancelled" ELSE "capture"
    /\ child' = "none"
    /\ holds' = {}
    /\ listening' = {}
    /\ StageFails
    /\ UNCHANGED <<kind, files, reserved, world, exit>>

\* tick refuses, Popen fails, or a pipe brings more than its writer may hold.
\* The process group is killed; a leader that cannot be reaped within five
\* seconds stays, and is reported.
CaptureFails ==
    /\ Capturing
    /\ \E n \in Charges :
         /\ child \in {"exited", "reaped"} /\ listening = {} => BudgetAfter(n) # "none" \/ Cancelled
         /\ Spend(n)
    /\ store' \in IF store # "none" THEN {store}
                  ELSE IF Cancelled THEN {"cancelled"}
                  ELSE {"capture"} \cup (IF listening = {} THEN {} ELSE {"retention"})
    /\ child' \in {"none"} \cup (IF child = "running" THEN {"stuck"} ELSE {})
    /\ holds' = {}
    /\ listening' = {}
    /\ StageFails
    /\ UNCHANGED <<kind, files, reserved, world, exit>>

Captured == InStage({"capture"}) /\ \A f \in OpFiles : files[f] = "complete"

\* tick, validate, tick, and exit code zero.
Settle ==
    /\ Captured
    /\ ~Cancelled
    /\ \E n \in Charges : BudgetAfter(n) = "none" /\ Validated(n) = "none" /\ Spend(n)
    /\ child' = "none"
    /\ holds' = {}
    /\ Advance
    /\ UNCHANGED <<kind, files, reserved, store, listening, world, exit>>

\* Or the consumer's exit code is another one.
SettleRefused ==
    /\ Captured
    /\ \E n \in Charges :
         /\ Spend(n)
         /\ store' = IF Validated(n) # "none" THEN Validated(n)
                     ELSE IF Cancelled THEN "cancelled" ELSE "none"
    /\ child' = "none"
    /\ holds' = {}
    /\ StageFails
    /\ UNCHANGED <<kind, files, reserved, listening, world, exit>>

\* The consumer, and what it started: it may close a pipe, or leave one open
\* in a descendant when it exits.
Close ==
    /\ child \in {"running", "exited"}
    /\ \E p \in holds : holds' = holds \ {p}
    /\ UNCHANGED <<kind, pc, at, stages, files, reserved, consumed, budget, store, child,
                   listening, world, atRest, exit>>

Exit ==
    /\ child = "running"
    /\ child' = "exited"
    /\ UNCHANGED <<kind, pc, at, stages, files, reserved, consumed, budget, store, holds,
                   listening, world, atRest, exit>>

-----------------------------------------------------------------------------
(* Closing: what is held is checked again, and the result handed over.     *)

Check(of, depth) == [of |-> of, depth |-> depth]

\* Slip: the source is not read again after the last stage.
JobChecksWithoutSource(k) ==
    IF k = "dependency"
    THEN << Check("runtime", "content"), Check("output", "content"), Check("runtime", "metadata") >>
    ELSE << Check("output", "content") >>

\* The controller's own, after its receipt is prepared.
JobChecks(k) ==
    IF k = "dependency"
    THEN << Check("runtime", "content"), Check("source", "content"),
            Check("output", "content"), Check("runtime", "metadata") >>
    ELSE << Check("source", "content"), Check("output", "content") >>

\* The entrypoint's: after the call, in its finally clause, and, if the job
\* was finalized, with everything still held.
EntryRechecks == << Check("control", "content"), Check("control", "content") >>
EntrySeals == << Check("output", "content"), Check("source", "content"),
                 Check("control", "metadata") >>

Shows(c) ==
    \/ touched[c.of] = "moved"
    \/ c.depth = "content" /\ touched[c.of] = "rewritten"

Failed == \E s \in Stages \ {"matching"} : stages[s] = "failed"

\* A check through the budget, the source's deadline and root included.
Fault(c, n) ==
    \/ BudgetAfter(n) # "none"
    \/ Shows(c)
    \/ c.of = "output" /\ Validated(n) # "none"

Attest ==
    /\ pc = "attest"
    /\ at <= Len(JobChecks(kind))
    /\ ~Cancelled
    /\ \E n \in Charges : ~Fault(JobChecks(kind)[at], n) /\ Spend(n)
    /\ at' = at + 1
    /\ UNCHANGED <<kind, pc, stages, files, reserved, store, capture, world, atRest, exit>>

\* Finalized, as far as the controller can tell.
Finalize ==
    /\ pc = "attest"
    /\ at = Len(JobChecks(kind)) + 1
    /\ stages' = [stages EXCEPT !["finalization"] = "succeeded"]
    /\ pc' = AfterJob
    /\ at' = 1
    /\ UNCHANGED <<kind, files, reserved, consumed, budget, store, capture, world, atRest, exit>>

AttestRefused ==
    /\ pc = "attest"
    /\ at <= Len(JobChecks(kind))
    /\ \E n \in Charges :
         /\ Cancelled \/ Fault(JobChecks(kind)[at], n)
         /\ Spend(n)
         /\ store' = IF JobChecks(kind)[at].of = "output" THEN Validated(n)
                     ELSE IF Cancelled /\ store = "none" THEN "cancelled" ELSE store
    /\ stages' = [stages EXCEPT !["finalization"] = "failed"]
    /\ pc' = AfterJob
    /\ at' = 1
    /\ UNCHANGED <<kind, files, reserved, capture, world, atRest, exit>>

\* check of _run, and of the control record.
EntryRefuses == cancelled \/ "entry" \in overdue

\* Slip: control is rechecked only if the job was finalized.
RecheckFinalizedOnly ==
    /\ pc = "recheck"
    /\ Failed \/ (~EntryRefuses /\ ~Shows(EntryRechecks[at]))
    /\ at' = IF at = Len(EntryRechecks) THEN 1 ELSE at + 1
    /\ pc' = IF at < Len(EntryRechecks) THEN pc ELSE IF Failed THEN "deliver" ELSE "seal"
    /\ UNCHANGED <<kind, stages, files, reserved, consumed, budget, store, capture, world, atRest,
                   exit>>

Recheck ==
    /\ pc = "recheck"
    /\ ~EntryRefuses /\ ~Shows(EntryRechecks[at])
    /\ at' = IF at = Len(EntryRechecks) THEN 1 ELSE at + 1
    /\ pc' = IF at < Len(EntryRechecks) THEN pc ELSE IF Failed THEN "deliver" ELSE "seal"
    /\ UNCHANGED <<kind, stages, files, reserved, consumed, budget, store, capture, world, atRest,
                   exit>>

Seal ==
    /\ pc = "seal"
    /\ ~EntryRefuses
    /\ \E n \in Charges : ~Fault(EntrySeals[at], n) /\ Spend(n)
    /\ at' = IF at = Len(EntrySeals) THEN 1 ELSE at + 1
    /\ pc' = IF at < Len(EntrySeals) THEN pc ELSE "deliver"
    /\ UNCHANGED <<kind, stages, files, reserved, store, capture, world, atRest, exit>>

\* Any exception of the entrypoint: the fixed refusal, and exit code 3.
EntryFails ==
    /\ \/ /\ pc = "recheck"
          /\ EntryRefuses \/ Shows(EntryRechecks[at])
          /\ UNCHANGED <<consumed, budget, store>>
       \/ /\ pc = "seal"
          /\ \E n \in Charges :
               /\ EntryRefuses \/ Fault(EntrySeals[at], n)
               /\ Spend(n)
               /\ store' = IF EntrySeals[at].of = "output" THEN Validated(n) ELSE store
    /\ pc' = "done"
    /\ exit' = "refused"
    /\ UNCHANGED <<kind, at, stages, files, reserved, capture, world, atRest>>

\* The last check, and the receipt on standard output; or, for run_direct,
\* the result returned to its caller.
Deliver ==
    /\ pc = "deliver"
    /\ pc' = "done"
    /\ exit' \in IF kind = "direct" THEN {IF Failed THEN "unfinalized" ELSE "finalized"}
                 ELSE IF EntryRefuses THEN {"refused"}
                 ELSE {"refused", IF Failed THEN "unfinalized" ELSE "finalized"}
    /\ UNCHANGED <<kind, at, stages, files, reserved, consumed, budget, store, capture, world,
                   atRest>>

-----------------------------------------------------------------------------
(* Time, the parent's signals, and others who share the directories.       *)

Expire ==
    /\ pc # "done"
    /\ \E d \in {"pipeline", "entry"} \ overdue : overdue' = overdue \cup {d}
    /\ UNCHANGED <<kind, pc, at, stages, files, reserved, consumed, budget, store, capture,
                   cancelled, touched, atRest, exit>>

Signal ==
    /\ pc # "done" /\ kind = "dependency"
    /\ ~cancelled
    /\ cancelled' = TRUE
    /\ UNCHANGED <<kind, pc, at, stages, files, reserved, consumed, budget, store, capture,
                   overdue, touched, atRest, exit>>

\* Bytes change unseen only where there are bytes the job has already read.
Touch(t, condition) ==
    /\ pc # "done"
    /\ Cardinality({u \in Held(kind) : touched[u] # "intact"}) < MaxTouches
    /\ touched[t] = "intact" /\ condition # "intact"
    /\ condition = "rewritten" /\ t = "source" => stages["composition"] = "succeeded"
    /\ condition = "rewritten" /\ t = "output" => \E f \in Names : files[f] = "complete"
    /\ touched' = [touched EXCEPT ![t] = condition]
    /\ UNCHANGED <<kind, pc, at, stages, files, reserved, consumed, budget, store, capture,
                   overdue, cancelled, atRest, exit>>

Job == \/ Admit \/ RefuseAdmission \/ Analyse \/ AnalysisRefused
       \/ OpenWriter \/ OpenRefused \/ FinishWriter \/ FinishRefused
       \/ Spawn \/ PipeEnds \/ Reap \/ CaptureFails \/ Settle \/ SettleRefused
       \/ Attest \/ Finalize \/ AttestRefused \/ Recheck \/ Seal \/ EntryFails \/ Deliver

Consumer == Close \/ Exit

Others == Signal \/ \E t \in Held(kind), c \in Conditions : Touch(t, c)

Next == Job \/ Consumer \/ Expire \/ Others

Spec == Init /\ [][Next]_vars

\* The job runs and time passes; nothing is assumed of the consumer.
FairSpec == Spec /\ WF_vars(Job) /\ WF_vars(Expire)

-----------------------------------------------------------------------------
(* Properties.                                                             *)

\* Exit 0 stands for what was there when the last stage ended: nothing the
\* job holds had been changed by then, nothing had refused, every artifact
\* attempted is a fact, and no consumer is left (inventory_entrypoint.py:307-319).
FinalizedMeansWhole ==
    exit = "finalized" =>
        /\ \A t \in Held(kind) : atRest[t] = "intact"
        /\ budget = "none" /\ store = "none"
        /\ \A f \in Names : files[f] # "open"
        /\ \A s \in {"composition", "inventory", "export", "finalization"} :
              stages[s] = "succeeded"
        /\ child = "none"

\* A receipt, of success or of failure, is delivered only under the control
\* record the job ran on (inventory_entrypoint.py:307-311).
ReceiptBindsControl ==
    kind = "dependency" /\ exit \in {"finalized", "unfinalized"} => atRest["control"] = "intact"

\* A captured consumer does not outlive its stage, unless its leader could not
\* be reaped, and then the job is not finalized (process_capture.py:114-130).
NoConsumerLeft ==
    /\ child \in {"running", "exited", "reaped"} => InStage({"capture"})
    /\ child = "stuck" => Failed

\* A ledger that has refused keeps its first reason, and after it no stage
\* succeeds, no artifact becomes a fact and no consumer starts: "Exhaustion
\* permanently poisons this ledger" (budget.py:22, artifacts.py:114-133).
RefusalsStick ==
    [][ /\ budget # "none" => budget' = budget
        /\ store # "none" => store' = store
        /\ budget # "none" \/ store # "none" =>
             /\ \A s \in Stages : stages'[s] = "succeeded" => stages[s] = "succeeded"
             /\ \A f \in Names : files'[f] = "complete" => files[f] = "complete"
             /\ child' = "running" => child = "running"
      ]_vars

\* The job implements its receipt: stages succeed in order, each with all its artifacts;
\* one that fails ends the job with what was retained before it; nothing is retained or
\* succeeds after a refusal; finalized is what succeeded in every stage, the matching
\* apart (dependency_job.py:98-103, direct_pipeline.py:48-61).
Receipt == INSTANCE InventoryReceipt WITH
    facts <- {f \in Names : files[f] = "complete"},
    refused <- (budget # "none" \/ store # "none")

ImplementsReceipt == Receipt!Spec

\* The job ends, whatever the consumer does: the deadline ends the wait for
\* it (process_capture.py:93-107).
Termination == <>(pc = "done")

\* A job whose matching has just run into the deadline, every other stage being
\* done, is still finalized: "Matching failure is recorded and does not fail the
\* pipeline", "A matcher that refuses, times out" (direct_pipeline.py:56, 121).
MatchingFailureIsSeparate ==
    [](kind = "direct" /\ pc = "attest" /\ at = 1 /\ stages["matching"] = "failed"
          /\ budget = "deadline"
       => [](exit # "unfinalized"))
=============================================================================
