----------------------------- MODULE MCScanPlan -----------------------------
(***************************************************************************)
(* Small instances of ScanPlan for TLC.                                    *)
(***************************************************************************)
EXTENDS ScanPlan

Planned(name, mode) ==
    [name |-> name, mode |-> mode, covered |-> FALSE, deleted |-> FALSE, units |-> FALSE]

Covering(name) == [Planned(name, "partial") EXCEPT !.covered = TRUE]
Deleting(name) == [Planned(name, "partial") EXCEPT !.deleted = TRUE]
Units == [Planned("kics", "partial") EXCEPT !.units = TRUE, !.deleted = TRUE]

\* One plan whose scanners are all asked, with a reuse between them.
MCReusePlans ==
    { << Planned("custom_php", "full"), Planned("gitleaks", "reuse"), Planned("grype", "full"),
         Planned("kics", "full") >> }

\* Full, partial, deletions only, unsupported partial mode, and one reuse in
\* the middle of a plan.
MCPooledPlans ==
    { << Planned("custom_php", "full"), Planned("gitleaks", "full"), Planned("semgrep", "full") >>,
      << Covering("gitleaks"), Covering("grype"), Units, Covering("semgrep") >>,
      << Deleting("custom_php"), Planned("gitleaks", "full"), Planned("kics", "reuse"),
         Covering("semgrep") >> }

MCPlans == MCPooledPlans \cup MCReusePlans

Found(count, size, defects) ==
    [NoResult EXCEPT !.kind = "list", !.count = count, !.bytes = size, !.defects = defects]

\* Two answers that fit once but not twice, one out of scope, one failure.
FewOutcomes ==
    { Found(1, 1, {}), Found(2, 1, {}), Found(1, 1, {"outOfScope"}), Raised("timeout") }

\* Every kind of answer the loop tells apart.
AllOutcomes ==
    { Found(0, 0, {}), Found(1, 2, {}), Found(2, 1, {}), Found(1, 1, {"outOfScope"}),
      Found(1, 1, {"unsized"}), Found(1, 1, {"foreign", "duplicate"}), Found(2, 1, {"duplicate"}),
      [NoResult EXCEPT !.kind = "garbage"], Raised("execution_failed") }

\* The pooled plans get two workers and few answers; the other one runs in the
\* main thread, where every kind of answer fits.
MCWorkers == [p \in MCPlans |-> IF p \in MCPooledPlans THEN 2 ELSE 1]
MCOutcomes == [p \in MCPlans |-> IF p \in MCPooledPlans THEN FewOutcomes ELSE AllOutcomes]

MCReuseWorkers == [p \in MCReusePlans |-> 2]
MCReuseOutcomes == [p \in MCReusePlans |-> FewOutcomes]
=============================================================================
