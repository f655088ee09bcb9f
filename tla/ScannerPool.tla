---------------------------- MODULE ScannerPool ----------------------------
(***************************************************************************)
(* ExternalScannerManager (sourcebastion/external_scanners.py) and the     *)
(* conversion of its raw outputs (sourcebastion/scanner.py).               *)
(*                                                                         *)
(* One call of scan_all (raw = FALSE) or scan_all_with_raw_outputs (raw =  *)
(* TRUE) runs every enabled scanner over one tree, one after the other or  *)
(* in a thread pool, and answers only if all of them succeed. Every tool   *)
(* keeps its report in a temporary file of its own, which somebody has to  *)
(* remove. Grype may install dependencies into the tree the others read.   *)
(***************************************************************************)
EXTENDS Integers, Sequences, FiniteSets
LOCAL INSTANCE SequencesExt

CONSTANTS
    Enabled,         \* the enabled scanners in configured order
    WorkerChoices,   \* values of max_workers
    Offline,         \* SOURCEBASTION_SCAN_OFFLINE = 1: nothing is installed
    WriteFaults,     \* TRUE if writing the report of php-vuln may fail
    MaxInterrupts    \* bound on the KeyboardInterrupts

Known == {"gitleaks", "semgrep", "php-vuln", "kics", "grype"}

ASSUME PoolAssumption ==
    /\ Enabled \in Seq(Known) /\ Enabled # <<>>
    /\ \A i, j \in DOMAIN Enabled : Enabled[i] = Enabled[j] => i = j
    /\ WorkerChoices \subseteq 1..10
    /\ Offline \in BOOLEAN
    /\ WriteFaults \in BOOLEAN
    /\ MaxInterrupts \in Nat

Scanners == DOMAIN Enabled

VARIABLES
    raw,          \* are the raw outputs wanted?
    workers,      \* max_workers
    stage,        \* where the calling thread is
    position,     \* the scanner, or the output, the calling thread works on
    future,       \* per scanner: the state of its future
    saw,          \* per scanner: the tree it read held installed dependencies
    deps,         \* the tree holds installed dependencies
    disk,         \* the scanners whose temporary file exists
    created,      \* created_outputs, in completion order
    outputs,      \* the raw outputs handed to the converter
    answer,       \* the findings, one item per scanner: <<scanner, tree it saw>>
    error,        \* the scanner the ScannerExecutionError names; 0 for none
    interrupts    \* interrupts so far

poolVars == <<raw, workers, stage, position, future, saw, deps, disk, created, outputs, answer, error,
              interrupts>>

request == <<raw, workers>>
tools == <<future, saw, deps>>
results == <<outputs, answer>>

Ended == {"returned", "failed", "interrupted"}

\* One type invariant for the module.
PoolTypeOK ==
    /\ raw \in BOOLEAN
    /\ workers \in WorkerChoices
    /\ stage \in {"submit", "wait", "serial", "cancel", "drain", "clean", "leaving", "convert"}
              \cup Ended
    /\ position \in 1..Len(Enabled) + 1
    /\ future \in [Scanners -> {"idle", "queued", "running", "read", "done", "failed", "cancelled"}]
    /\ saw \in [Scanners -> BOOLEAN]
    /\ deps \in BOOLEAN
    /\ disk \subseteq Scanners
    /\ created \in Seq(Scanners)
    /\ outputs \in Seq(Scanners)
    /\ answer \in Seq(Scanners \X BOOLEAN)
    /\ error \in Scanners \cup {0}
    /\ interrupts \in 0..MaxInterrupts

PoolInit ==
    /\ raw \in BOOLEAN
    /\ workers \in WorkerChoices
    /\ stage = IF workers > 1 THEN "submit" ELSE "serial"
    /\ position = 1
    /\ future = [i \in Scanners |-> "idle"]
    /\ saw = [i \in Scanners |-> FALSE]
    /\ deps = FALSE
    /\ disk = {}
    /\ created = <<>>
    /\ outputs = <<>>
    /\ answer = <<>>
    /\ error = 0
    /\ interrupts = 0

-----------------------------------------------------------------------------
(* The tools.                                                              *)

Waiting == {i \in Scanners : future[i] = "queued"}
Working == {i \in Scanners : future[i] \in {"running", "read"}}

\* The pool has no more workers than scanners; serially the caller runs the next one.
MayRun(i) ==
    IF workers > 1
    THEN /\ future[i] = "queued"
         /\ \A j \in Waiting : i <= j
         /\ Cardinality(Working) < workers
    ELSE stage = "serial" /\ position = i /\ future[i] = "idle"

\* php-vuln opens its report once its findings are complete, the others at the start.
OpensReportLast(i) == Enabled[i] = "php-vuln"

Start(i) ==
    /\ MayRun(i)
    /\ future' = [future EXCEPT ![i] = "running"]
    /\ disk' = IF OpensReportLast(i) THEN disk ELSE disk \cup {i}
    /\ UNCHANGED <<request, stage, position, saw, deps, created, results, error, interrupts>>

\* The tool reads the tree; grype first installs what the manifests name.
ReadTree(i) ==
    /\ future[i] = "running"
    /\ deps' = (deps \/ (Enabled[i] = "grype" /\ ~Offline))
    /\ saw' = [saw EXCEPT ![i] = deps']
    /\ future' = [future EXCEPT ![i] = "read"]
    /\ UNCHANGED <<request, stage, position, disk, created, results, error, interrupts>>

Succeed(i) ==
    /\ future[i] = "read"
    /\ future' = [future EXCEPT ![i] = "done"]
    /\ disk' = disk \cup {i}
    /\ created' = IF raw THEN Append(created, i) ELSE created
    /\ position' = IF workers > 1 THEN position ELSE position + 1
    /\ UNCHANGED <<request, stage, saw, deps, results, error, interrupts>>

\* Whatever goes wrong, the tool removes its own report, except php-vuln, whose
\* report stays when the write itself fails.
Fail(i) ==
    /\ future[i] \in {"running", "read"}
    /\ future' = [future EXCEPT ![i] = "failed"]
    /\ \/ disk' = disk \ {i}
       \/ WriteFaults /\ OpensReportLast(i) /\ future[i] = "read" /\ disk' = disk \cup {i}
    /\ UNCHANGED <<request, stage, position, saw, deps, created, results, error, interrupts>>

-----------------------------------------------------------------------------
(* _scan_parallel: submit, wait, and the finally clause.                   *)

SubmitNext ==
    /\ stage = "submit"
    /\ future' = [future EXCEPT ![position] = "queued"]
    /\ IF position = Len(Enabled)
       THEN stage' = "wait" /\ position' = 1
       ELSE stage' = stage /\ position' = position + 1
    /\ UNCHANGED <<request, saw, deps, disk, created, results, error, interrupts>>

\* What the code makes of the results of all the futures, in configured order.
Findings == [i \in Scanners |-> <<i, saw[i]>>]

RawOutputs == IF raw THEN [i \in Scanners |-> i] ELSE <<>>

Gather ==
    /\ \/ stage = "wait" /\ \A i \in Scanners : future[i] = "done"
       \/ stage = "serial" /\ position > Len(Enabled)
    /\ answer' = Findings
    /\ outputs' = RawOutputs
    /\ stage' = IF raw THEN "convert" ELSE "returned"
    /\ position' = 1
    /\ UNCHANGED <<request, tools, disk, created, error, interrupts>>

\* as_completed yields a failed future: its error leaves the try.
SeeFailure ==
    /\ stage = "wait"
    /\ \E i \in Scanners : future[i] = "failed" /\ error' = i
    /\ stage' = "cancel"
    /\ UNCHANGED <<request, position, tools, disk, created, results, interrupts>>

\* shutdown drains the queue while the workers still take from it.
CancelRest ==
    /\ stage = "cancel"
    /\ \E i \in Waiting :
         /\ \A j \in Waiting : i <= j
         /\ future' = [future EXCEPT ![i] = "cancelled"]
    /\ UNCHANGED <<request, stage, position, saw, deps, disk, created, results, error, interrupts>>

CancelRestEnd ==
    /\ stage = "cancel"
    /\ Waiting = {}
    /\ stage' = "drain"
    /\ UNCHANGED <<request, position, tools, disk, created, results, error, interrupts>>

\* Slip: the cleanup waits for a result of every future, cancelled ones included.
DrainWaitsForResults ==
    /\ stage = "drain"
    /\ \A i \in Scanners : future[i] = "done"
    /\ stage' = "clean"
    /\ UNCHANGED <<request, position, tools, disk, created, results, error, interrupts>>

Drain ==
    /\ stage = "drain"
    /\ Working = {}
    /\ stage' = "clean"
    /\ UNCHANGED <<request, position, tools, disk, created, results, error, interrupts>>

Clean ==
    /\ stage = "clean"
    /\ disk' = IF raw THEN disk \ ToSet(created) ELSE disk
    /\ stage' = IF error = 0 THEN "interrupted" ELSE "failed"
    /\ UNCHANGED <<request, position, tools, created, results, error, interrupts>>

\* The serial loop removes the outputs of the scanners before the failed one.
SerialFailure ==
    /\ stage = "serial" /\ position <= Len(Enabled)
    /\ future[position] = "failed"
    /\ error' = position
    /\ disk' = IF raw THEN disk \ (1..position - 1) ELSE disk
    /\ stage' = "failed"
    /\ UNCHANGED <<request, position, tools, created, results, interrupts>>

-----------------------------------------------------------------------------
(* The conversion of the raw outputs (scan_to_gitlab_format,               *)
(* scan_to_github_format), which removes every one of them.                *)

Convert ==
    /\ stage = "convert" /\ position <= Len(outputs)
    /\ disk' = disk \ {outputs[position]}
    /\ position' = position + 1
    /\ UNCHANGED <<request, stage, tools, created, results, error, interrupts>>

\* Slip: only the output at hand is removed.
ConvertFailsForgetsRest ==
    /\ stage = "convert" /\ position <= Len(outputs)
    /\ disk' = disk \ {outputs[position]}
    /\ error' = outputs[position]
    /\ stage' = "failed"
    /\ UNCHANGED <<request, position, tools, created, results, interrupts>>

ConvertFails ==
    /\ stage = "convert" /\ position <= Len(outputs)
    /\ disk' = disk \ ToSet(outputs)
    /\ error' = outputs[position]
    /\ stage' = "failed"
    /\ UNCHANGED <<request, position, tools, created, results, interrupts>>

Converted ==
    /\ stage = "convert" /\ position > Len(outputs)
    /\ stage' = "returned"
    /\ UNCHANGED <<request, position, tools, disk, created, results, error, interrupts>>

-----------------------------------------------------------------------------
(* KeyboardInterrupt in the calling thread.                                *)

Interrupted == interrupts < MaxInterrupts /\ interrupts' = interrupts + 1

\* Inside the try of _scan_parallel: the finally clause cleans up.
InterruptPool ==
    /\ stage \in {"submit", "wait"}
    /\ Interrupted
    /\ stage' = "cancel"
    /\ UNCHANGED <<request, position, tools, disk, created, results, error>>

\* Inside the finally clause: the rest of it is skipped, and the interpreter
\* waits for the workers, which run what is still queued.
InterruptCleanup ==
    /\ stage \in {"cancel", "drain", "clean"}
    /\ Interrupted
    /\ stage' = "leaving"
    /\ UNCHANGED <<request, position, tools, disk, created, results, error>>

Left ==
    /\ stage = "leaving"
    /\ Waiting \cup Working = {}
    /\ stage' = "interrupted"
    /\ UNCHANGED <<request, position, tools, disk, created, results, error, interrupts>>

\* The serial loop handles no interrupt: only the running tool removes its report,
\* and php-vuln not even that if it is hit while writing.
InterruptSerial ==
    /\ stage = "serial" /\ position <= Len(Enabled)
    /\ future[position] # "failed"
    /\ Interrupted
    /\ future' = [future EXCEPT ![position] = "cancelled"]
    /\ \/ disk' = disk \ {position}
       \/ OpensReportLast(position) /\ future[position] = "read" /\ disk' = disk \cup {position}
    /\ stage' = "interrupted"
    /\ UNCHANGED <<request, position, saw, deps, created, results, error>>

\* The finally clause of the conversion removes the output at hand only; between
\* two outputs nothing is removed.
InterruptConversion ==
    /\ stage = "convert" /\ position <= Len(outputs)
    /\ Interrupted
    /\ disk' \in {disk, disk \ {outputs[position]}}
    /\ stage' = "interrupted"
    /\ UNCHANGED <<request, position, tools, created, results, error>>

-----------------------------------------------------------------------------
Tools == \E i \in Scanners : Start(i) \/ ReadTree(i) \/ Succeed(i) \/ Fail(i)

Caller ==
    \/ SubmitNext \/ Gather \/ SeeFailure \/ CancelRest \/ CancelRestEnd \/ Drain \/ Clean
    \/ SerialFailure \/ Convert \/ ConvertFails \/ Converted \/ Left

Interrupts ==
    InterruptPool \/ InterruptCleanup \/ InterruptSerial \/ InterruptConversion

PoolNext == Tools \/ Caller \/ Interrupts

PoolSpec == PoolInit /\ [][PoolNext]_poolVars

\* Both sides are scheduled, and every tool ends, at its time budget at the latest.
PoolFairSpec == PoolSpec /\ WF_poolVars(Tools) /\ WF_poolVars(Caller)
-----------------------------------------------------------------------------
(* Properties.                                                             *)

\* external_scanners.py:2069: "Completion order must not change findings or raw-output
\* ordering": the findings of a pooled run are those of the serial one, in configured
\* order and each from the tree the serial loop shows its scanner (the tree as it was
\* checked out, with the dependencies from grype on).
AnswerIsSerial ==
    stage = "returned" =>
        answer = [i \in Scanners |-> <<i, ~Offline /\ \E j \in 1..i : Enabled[j] = "grype">>]

\* Reports of tools that end after the failure are removed too: a call that wants
\* raw outputs leaves no file behind however it ends, unless it is interrupted
\* where the code catches nothing (serially, in the cleanup, in the conversion),
\* except that php-vuln leaves a report it could not write (external_scanners.py:1819).
NoOutputLeftBehind ==
    raw /\ stage \in Ended =>
        \/ disk \subseteq {i \in Scanners : OpensReportLast(i) /\ future[i] = "failed"}
        \/ stage = "interrupted" /\ (workers = 1 \/ interrupts > 1 \/ error # 0 \/ outputs # <<>>)

\* The call always ends.
PoolTermination == <>(stage \in Ended)
=============================================================================
