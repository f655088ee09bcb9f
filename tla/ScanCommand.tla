------------------------------ MODULE ScanCommand ------------------------------
(***************************************************************************)
(* The command sourcebastion scan (sourcebastion/cli.py), run again and    *)
(* again over a changing tree: the scan, the baseline, Jira, and the exit  *)
(* code its gates decide. The scan and the synchronisation are ScanHistory *)
(* and JiraSync; this module says in which order they run and what one is  *)
(* given of the other. Notifications are sent and forgotten.               *)
(***************************************************************************)
EXTENDS ScanHistory, JiraSync

CONSTANTS
    Options,      \* records: output (a path or NoPath), level, baseline, jira, mode
    Baseline,     \* findings of the baseline file
    Threshold,    \* --baseline-threshold
    PolicyRules   \* records: the findings a rule counts, max_count, action

ASSUME CommandAssumption ==
    /\ \A o \in Options : /\ o.output \in Paths \cup {NoPath}
                          /\ {o.baseline, o.jira} \subseteq BOOLEAN
                          /\ o.level \in 0..4
                          /\ o.mode \in {"legacy", "shadow", "cedar"}
    /\ Baseline \subseteq Findings
    /\ Threshold \in Nat
    /\ \A r \in PolicyRules : /\ r.on \subseteq Findings /\ r.max \in Nat
                              /\ r.action \in {"fail", "warn", "ignore"}

VARIABLES
    pc,       \* "idle", "scan", "jira", "gate"
    option,   \* how the command was called
    given,    \* results["issues"]
    exit      \* its last exit code; -1 while it runs or if it was killed

vars == <<pc, option, given, exit, historyVars, syncVars>>

TypeOK ==
    /\ pc \in {"idle", "scan", "jira", "gate"}
    /\ option \in Options
    /\ given \subseteq Findings
    /\ exit \in {-1, 0, 1, 2}
    /\ HistoryTypeOK
    /\ SyncTypeOK

Init ==
    /\ pc = "idle"
    /\ option \in Options
    /\ given = {}
    /\ exit = -1
    /\ HistoryInit
    /\ SyncInit

Start(o) ==
    /\ pc = "idle"
    /\ pc' = "scan"
    /\ option' = o
    /\ given' = {}
    /\ exit' = -1
    /\ ScanBegin(o.output)
    /\ UNCHANGED syncVars

Scan ==
    /\ pc = "scan"
    /\ \/ \E found \in SUBSET Findings : Track(found)
       \/ ScannersFail
       \/ option.output # NoPath /\ Store
       \/ option.output = NoPath /\ StoreNothing
    /\ UNCHANGED <<pc, option, given, exit, syncVars>>

\* Slip: what is new since the last report, as notifications would have it.
ReportableNew == {f \in fresh : option.baseline \/ Level[f] >= option.level}

\* The display filter, or the findings the baseline does not have.
Reportable ==
    IF option.baseline
    THEN {f \in Present(complete) : Fingerprint[f] \notin FingerprintsOf(Baseline)}
    ELSE {f \in Present(complete) : Level[f] >= option.level}

\* jira_should_sync: nothing is synchronised without a critical or high finding.
ShouldSync == option.jira /\ Reportable \cap Severe # {}

Report ==
    /\ pc = "scan" /\ step = "returned"
    /\ given' = Reportable
    /\ pc' = IF ShouldSync THEN "jira" ELSE "gate"
    /\ IF ShouldSync THEN SyncBegin(Reportable) ELSE UNCHANGED syncVars
    /\ ScanEnd
    /\ UNCHANGED <<option, exit>>

Synchronise ==
    /\ pc = "jira"
    /\ SyncStep
    /\ UNCHANGED <<pc, option, given, exit, historyVars>>

Synchronised ==
    /\ pc = "jira" /\ sync = "returned"
    /\ pc' = "gate"
    /\ SyncEnd
    /\ UNCHANGED <<option, given, exit, historyVars>>

\* Any exception, an unreadable baseline among them: exit code 1.
Raise ==
    /\ \/ pc = "scan" /\ step = "raised" /\ ScanEnd /\ UNCHANGED syncVars
       \/ pc = "scan" /\ step = "returned" /\ option.baseline /\ ScanEnd /\ UNCHANGED syncVars
       \/ pc = "jira" /\ sync = "raised" /\ SyncEnd /\ UNCHANGED historyVars
    /\ pc' = "idle"
    /\ exit' = 1
    /\ UNCHANGED <<option, given>>

\* Slip: the policy counts what the report shows.
PolicyFailedOnReported ==
    \E r \in PolicyRules : r.action = "fail" /\ Cardinality(r.on \cap given) > r.max

\* PolicyEngine.evaluate over the complete findings.
PolicyFailed ==
    \E r \in PolicyRules :
        r.action = "fail" /\ Cardinality(r.on \cap Present(complete)) > r.max

OverThreshold == option.baseline /\ Cardinality(given) > Threshold

\* The gates in the order of the code. The answer of the Cedar engine, which
\* any fault of it makes "error", is not looked at in mode "shadow".
Gate ==
    /\ pc = "gate"
    /\ pc' = "idle"
    /\ \E cedar \in {"passed", "failed", "error"} :
         exit' = IF option.mode = "cedar" /\ cedar = "error" THEN 2
                 ELSE IF \/ option.mode = "cedar" /\ cedar = "failed"
                         \/ option.mode # "cedar" /\ PolicyFailed
                         \/ OverThreshold
                      THEN 1 ELSE 0
    /\ UNCHANGED <<option, given, historyVars, syncVars>>

Kill ==
    /\ pc # "idle"
    /\ pc' = "idle"
    /\ IF pc = "scan" THEN ScanEnd /\ UNCHANGED syncVars
       ELSE IF pc = "jira" THEN SyncCrash /\ UNCHANGED historyVars
       ELSE UNCHANGED <<historyVars, syncVars>>
    /\ UNCHANGED <<option, given, exit>>

Next ==
    \/ \E o \in Options : Start(o)
    \/ Scan \/ Report \/ Synchronise \/ Synchronised \/ Raise \/ Gate \/ Kill

Spec == Init /\ [][Next]_vars

-----------------------------------------------------------------------------
(* Properties.                                                             *)

\* TrendSinceLastScan, for the reports of the JSON backend: a report is compared
\* with the last one written where it looks, never with one at another --output.
TrendSinceLastReport == backend = "json" => TrendSinceLastScan

\* After exit code 0 the output holds every finding no rule ignores, whatever was
\* filtered from the report or is in the baseline, together with the record of
\* that scan, and no failing policy rule matches them (scanner.py:257-337).
ZeroMeansStoredAndGated ==
    exit = 0 =>
        /\ option.output # NoPath /\ backend = "json" =>
              /\ path[option.output] = "whole" /\ report[option.output] = complete
              /\ record[Folder[option.output]] = now
        /\ option.output # NoPath /\ backend = "sql" =>
              /\ now \in recorded
              /\ \A f \in Present(complete) : rows[f] = complete[f]
        /\ option.mode # "cedar" =>
              \A r \in PolicyRules : r.action = "fail" =>
                  Cardinality({f \in r.on : complete[f] # 0}) <= r.max

\* An issue is closed only if every finding of its rule and file that the scan
\* detected is one the command was told not to show: in the baseline file, or
\* below --severity. "No longer detected", as the comment on the issue says
\* (jira_sync.py:297), is more than the code knows: what it compares with is
\* the filtered list (cli.py:86-94, 175-180, jira_sync.py:366-384).
ClosedMeansGoneOrHidden ==
    [][\A k \in Keys :
         issues[k].status = "open" /\ issues'[k].status = "done" =>
             \A f \in Present(complete) \cap Severe :
                 Fingerprint[f] = issues[k].of =>
                     IF option.baseline THEN Fingerprint[f] \in FingerprintsOf(Baseline)
                     ELSE Level[f] < option.level
      ]_vars

\* After a command in which no call to Jira failed, an issue is open if and only if
\* a severe finding of its fingerprint was detected: "Closes issues when a finding
\* is no longer detected in the latest scan" (docs/integrations.md:33).
IssuesFollowFindings ==
    option.jira /\ exit = 0 /\ lost = {} /\ ~failed =>
        {issues[k].of : k \in {j \in Keys : issues[j].status = "open"}}
            = FingerprintsOf(Present(complete) \cap Severe)
=============================================================================
