------------------------------ MODULE ScanHistory ------------------------------
(***************************************************************************)
(* SecurityScanner.scan (sourcebastion/scanner.py) and the storage it      *)
(* reads the previous findings from and writes the new ones to             *)
(* (sourcebastion/storage.py): one JSON report and one scan record, both   *)
(* written in place, or two SQL tables, each with a commit of its own. The *)
(* report is at --output (or output_file of the configuration); a scan with*)
(* neither reads vulnerabilities.json in the tree and writes nothing. A    *)
(* scan's timestamp is its number. A write may fail at any step, and the   *)
(* process may be killed between two.                                      *)
(***************************************************************************)
EXTENDS ScanFindings

CONSTANTS
    IgnoreRules,   \* records: the findings a rule matches, and its last scan
    Backends,      \* storage backends to run with, "json" or "sql"
    Paths,         \* files a report may be at
    InTree,        \* the one of them that is vulnerabilities.json in the tree
    Folder,        \* per path: the directory it is in
    NoPath,        \* no output was configured
    MaxScans       \* bound on the scans ever begun

ASSUME HistoryAssumption ==
    /\ \A r \in IgnoreRules : r.on \subseteq Findings /\ r.until \in Nat
    /\ Backends \subseteq {"json", "sql"}
    /\ InTree \in Paths
    /\ DOMAIN Folder = Paths
    /\ NoPath \notin Paths
    /\ MaxScans \in Nat

Timestamps == 1..MaxScans

Folders == {Folder[p] : p \in Paths}

\* Findings with their first_seen; 0 is a finding that is not there.
Seen == [Findings -> 0..MaxScans]

Nothing == [f \in Findings |-> 0]

VARIABLES
    backend,     \* SOURCEBASTION_STORAGE_BACKEND
    step,        \* what scan is at
    now,         \* the number of the scan, its scan_timestamp
    results_path,\* where it reads the previous findings, and writes its own if it does
    previous,    \* what _load_previous_findings returned
    complete,    \* complete_issues, with their first_seen
    fresh,       \* those of trend "new"
    resolved,    \* the findings resolved_count counts
    path,        \* per path: the file there is absent, torn, whole, or another's
    report,      \* per path: the findings of the report
    record,      \* per directory: the scan whose record scan_record.json holds, or 0
    rows,        \* the table findings
    recorded,    \* the table scan_records
    stored,      \* history, per path: the findings of the last scan that stored them
    cut          \* history, per path: a write since then was cut short

historyVars == <<backend, step, now, results_path, previous, complete, fresh, resolved,
                 path, report, record, rows, recorded, stored, cut>>

tracking == <<previous, complete, fresh, resolved>>
files == <<path, report, record>>
tables == <<rows, recorded>>

HistoryTypeOK ==
    /\ backend \in Backends
    /\ step \in {"idle", "scan", "tracked", "report", "filled", "record", "rows",
                 "returned", "raised"}
    /\ now \in 0..MaxScans
    /\ results_path \in Paths
    /\ previous \in Seen
    /\ complete \in Seen
    /\ fresh \subseteq Findings
    /\ resolved \subseteq Findings
    /\ path \in [Paths -> {"absent", "torn", "whole", "foreign"}]
    /\ report \in [Paths -> Seen]
    /\ record \in [Folders -> 0..MaxScans]
    /\ rows \in Seen
    /\ recorded \subseteq Timestamps
    /\ stored \in [Paths -> Seen]
    /\ cut \in [Paths -> BOOLEAN]

\* With SQL storage nothing is ever written to a path, but a file may be there.
HistoryInit ==
    /\ backend \in Backends
    /\ step = "idle"
    /\ now = 0
    /\ results_path = InTree
    /\ previous = Nothing
    /\ complete = Nothing
    /\ fresh = {}
    /\ resolved = {}
    /\ path \in [Paths -> IF backend = "json" THEN {"absent"} ELSE {"absent", "foreign"}]
    /\ report = [p \in Paths |-> Nothing]
    /\ record = [d \in Folders |-> 0]
    /\ rows = Nothing
    /\ recorded = {}
    /\ stored = [p \in Paths |-> Nothing]
    /\ cut = [p \in Paths |-> FALSE]

Present(seen) == {f \in Findings : seen[f] # 0}

-----------------------------------------------------------------------------
(* A scan.                                                                 *)

ResultsPath(output) == IF output = NoPath THEN InTree ELSE output

\* A report that cannot be read is no history, and neither is any history if
\* there is nothing at the path.
LoadPreviousFindings(p) ==
    CASE path[p] \in {"absent", "torn"} -> Nothing
      [] path[p] = "whole"              -> report[p]
      [] path[p] = "foreign"            -> rows

\* Slip: the history is that of the tree, wherever the report goes.
ScanBeginInTree(output) ==
    /\ step = "idle"
    /\ now < MaxScans
    /\ now' = now + 1
    /\ results_path' = ResultsPath(output)
    /\ previous' = LoadPreviousFindings(InTree)
    /\ complete' = Nothing
    /\ fresh' = {}
    /\ resolved' = {}
    /\ step' = "scan"
    /\ UNCHANGED <<backend, files, tables, stored, cut>>

ScanBegin(output) ==
    /\ step = "idle"
    /\ now < MaxScans
    /\ now' = now + 1
    /\ results_path' = ResultsPath(output)
    /\ previous' = LoadPreviousFindings(results_path')
    /\ complete' = Nothing
    /\ fresh' = {}
    /\ resolved' = {}
    /\ step' = "scan"
    /\ UNCHANGED <<backend, files, tables, stored, cut>>

IsActive(r) == now <= r.until

Suppressed(f) == \E r \in IgnoreRules : IsActive(r) /\ f \in r.on

FirstSeen(f) == IF previous[f] # 0 THEN previous[f] ELSE now

\* The scanners return what they find; ignore rules, then _apply_scan_tracking.
Track(found) ==
    /\ step = "scan"
    /\ LET active == {f \in found : ~Suppressed(f)}
       IN  /\ complete' = [f \in Findings |-> IF f \in active THEN FirstSeen(f) ELSE 0]
           /\ fresh' = active \ Present(previous)
           /\ resolved' = Present(previous) \ active
    /\ step' = "tracked"
    /\ UNCHANGED <<backend, now, results_path, previous, files, tables, stored, cut>>

\* A scanner, the licence check or the policy fails: nothing has been written.
ScannersFail ==
    /\ step = "scan"
    /\ step' = "raised"
    /\ UNCHANGED <<backend, now, results_path, tracking, files, tables, stored, cut>>

\* No output was configured.
StoreNothing ==
    /\ step = "tracked"
    /\ step' = "returned"
    /\ UNCHANGED <<backend, now, results_path, tracking, files, tables, stored, cut>>

-----------------------------------------------------------------------------
(* JsonFileBackend.write_findings                                          *)

OpenReport ==
    /\ step = "tracked" /\ backend = "json"
    /\ step' = "report"
    /\ path' = [path EXCEPT ![results_path] = "torn"]
    /\ report' = [report EXCEPT ![results_path] = Nothing]
    /\ cut' = [cut EXCEPT ![results_path] = TRUE]
    /\ UNCHANGED <<backend, now, results_path, tracking, record, tables, stored>>

FillReport ==
    /\ step = "report"
    /\ step' = "filled"
    /\ path' = [path EXCEPT ![results_path] = "whole"]
    /\ report' = [report EXCEPT ![results_path] = complete]
    /\ stored' = [stored EXCEPT ![results_path] = complete]
    /\ cut' = [cut EXCEPT ![results_path] = FALSE]
    /\ UNCHANGED <<backend, now, results_path, tracking, record, tables>>

OpenRecord ==
    /\ step = "filled"
    /\ step' = "record"
    /\ record' = [record EXCEPT ![Folder[results_path]] = 0]
    /\ UNCHANGED <<backend, now, results_path, tracking, path, report, tables, stored, cut>>

FillRecord ==
    /\ step = "record"
    /\ step' = "returned"
    /\ record' = [record EXCEPT ![Folder[results_path]] = now]
    /\ UNCHANGED <<backend, now, results_path, tracking, path, report, tables, stored, cut>>

-----------------------------------------------------------------------------
(* SqlBackend.write_findings                                               *)

CommitRecord ==
    /\ step = "tracked" /\ backend = "sql"
    /\ step' = "rows"
    /\ recorded' = recorded \cup {now}
    /\ UNCHANGED <<backend, now, results_path, tracking, files, rows, stored, cut>>

\* merge updates and inserts; no row is ever deleted.
CommitFindings ==
    /\ step = "rows"
    /\ step' = "returned"
    /\ rows' = [f \in Findings |-> IF complete[f] # 0 THEN complete[f] ELSE rows[f]]
    /\ stored' = [stored EXCEPT ![results_path] = complete]
    /\ UNCHANGED <<backend, now, results_path, tracking, files, recorded, cut>>

StoreFails ==
    /\ step \in {"tracked", "report", "filled", "record", "rows"}
    /\ step' = "raised"
    /\ UNCHANGED <<backend, now, results_path, tracking, files, tables, stored, cut>>

Store ==
    \/ OpenReport \/ FillReport \/ OpenRecord \/ FillRecord
    \/ CommitRecord \/ CommitFindings \/ StoreFails

\* The caller has the result, or the exception, or is killed.
ScanEnd ==
    /\ step # "idle"
    /\ step' = "idle"
    /\ UNCHANGED <<backend, now, results_path, tracking, files, tables, stored, cut>>

HistoryNext ==
    \/ \E output \in Paths \cup {NoPath} : ScanBegin(output)
    \/ \E found \in SUBSET Findings : Track(found)
    \/ ScannersFail
    \/ StoreNothing
    \/ Store
    \/ ScanEnd

HistorySpec == HistoryInit /\ [][HistoryNext]_historyVars

-----------------------------------------------------------------------------
(* Properties.                                                             *)

\* What a scan calls new and resolved is the difference to the last scan that
\* stored its findings for the path this one reads (its own --output, or without
\* one the report in the tree), and a finding keeps the first_seen it had there:
\* "what changed since last scan?" (cli.py:96-113, scanner.py:134-153, 191-236).
TrendSinceLastScan ==
    step = "tracked" /\ ~cut[results_path] =>
        LET last == stored[results_path]
        IN  /\ fresh = Present(complete) \ Present(last)
            /\ resolved = Present(last) \ Present(complete)
            /\ \A f \in Present(complete) \cap Present(last) : complete[f] = last[f]
=============================================================================
