---------------------------- MODULE PlanVerdicts ----------------------------
(***************************************************************************)
(* What contract-scan promises about one plan, with no threads in it       *)
(* (docs/sourcebastion-scan-contract.md): verdicts are given one at a time *)
(* in plan order and never revised; after a stop every later component is  *)
(* cancelled; the accepted findings stay within the plan's limit; and what *)
(* is published answers every component of the plan.                       *)
(***************************************************************************)
EXTENDS Integers, Sequences

CONSTANTS
    Plans,        \* the plans
    Asked(_),     \* is a component's scanner asked at all?
    MaxFindings   \* the plan's findings limit

VARIABLES
    plan,       \* the plan being answered
    verdicts,   \* the verdicts given so far
    total,      \* findings in the complete verdicts
    stopped,    \* an interrupt or the deadline has ended the scan
    published   \* the answer has replaced the result file

avars == <<plan, verdicts, total, stopped, published>>

Init ==
    /\ plan \in Plans
    /\ verdicts = <<>>
    /\ total = 0
    /\ stopped = FALSE
    /\ published = FALSE

\* A stop is reported on the component it hits and on every later one.
StopDiagnostics == {"cancelled", "execution_limit_exceeded"}

Empty(v) == v.count = 0

Cancelled(v) == v.status = "failed" /\ v.diagnostic = "cancelled"

Skipped(c, v) ==
    /\ c.mode = "reuse" => v.status = "not_run" /\ v.diagnostic = "component_unchanged"
    /\ c.mode # "reuse" /\ c.name = "grype" =>
           v.status = "not_run" /\ v.diagnostic = "unsupported_mode"
    /\ c.mode # "reuse" /\ c.name # "grype" => v.status = "complete" /\ v.diagnostic = "none"

Answered(v) ==
    \/ v.status = "complete" /\ v.diagnostic = "none"
    \/ v.status = "failed" /\ v.diagnostic # "none" /\ Empty(v)

\* The verdict on the next component of the plan.
Decide ==
    /\ ~published
    /\ Len(verdicts) < Len(plan)
    /\ Len(verdicts') = Len(verdicts) + 1
    /\ LET c == plan[Len(verdicts) + 1]
           v == verdicts'[Len(verdicts) + 1]
       IN  /\ verdicts' = Append(verdicts, v)
           /\ v.name = c.name
           /\ stopped => Cancelled(v) /\ Empty(v)
           /\ ~stopped /\ ~Asked(c) => Skipped(c, v) /\ Empty(v)
           /\ ~stopped /\ Asked(c) => Answered(v)
           /\ total' = total + v.count
           /\ total' <= MaxFindings
           /\ stopped' = (stopped \/ v.diagnostic \in StopDiagnostics)
    /\ UNCHANGED <<plan, published>>

\* Nothing is published before every component has its verdict, nor with a
\* verdict other than "not run" on a component the plan reuses.
Publish ==
    /\ ~published
    /\ Len(verdicts) = Len(plan)
    /\ \A i \in DOMAIN plan : plan[i].mode = "reuse" => verdicts[i].status = "not_run"
    /\ published' = TRUE
    /\ UNCHANGED <<plan, verdicts, total, stopped>>

Next == Decide \/ Publish

Spec == Init /\ [][Next]_avars
=============================================================================
