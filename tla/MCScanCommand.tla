----------------------------- MODULE MCScanCommand -----------------------------
(***************************************************************************)
(* Small instances of ScanCommand for TLC.                                 *)
(***************************************************************************)
EXTENDS ScanCommand

\* Two lines of one rule and file, and a finding of another.
MCFindings == {"a1", "a2", "b"}
MCFingerprint == [f \in MCFindings |-> IF f = "b" THEN "b" ELSE "a"]
MCLevel == [f \in MCFindings |-> IF f = "b" THEN 4 ELSE 3]

Option(output, level, baseline, jira, mode) ==
    [output |-> output, level |-> level, baseline |-> baseline, jira |-> jira, mode |-> mode]

MCOptions ==
    { Option("report.json", 0, FALSE, TRUE, "legacy"),
      Option("vulnerabilities.json", 4, FALSE, FALSE, "shadow"),
      Option(NoPath, 3, TRUE, TRUE, "cedar") }

MCJiraOptions == { Option("vulnerabilities.json", 0, FALSE, TRUE, "legacy") }

\* One directory, whose scan_record.json both reports share.
MCPaths == {"report.json", "vulnerabilities.json"}
MCFolder == [p \in MCPaths |-> "tree"]

\* A rule that lapses after the first scan.
MCIgnoreRules == { [on |-> {"a2"}, until |-> 1] }

MCPolicyRules == { [on |-> {"a1"}, max |-> 0, action |-> "fail"],
                   [on |-> {"b"}, max |-> 0, action |-> "warn"] }
=============================================================================
