--------------------------- MODULE ScanPlanProofs ---------------------------
(***************************************************************************)
(* Theorems about ScanPlan, for every plan, every set of scanner answers,  *)
(* every number of workers and every limit.                                *)
(***************************************************************************)
EXTENDS ScanPlan, WellFoundedInduction, TLAPS

-----------------------------------------------------------------------------
(* Facts about the operators.                                              *)

\* A plan is a sequence of planned components.
LEMMA PlanFacts ==
    ASSUME plan \in Plans
    PROVE  /\ plan \in Seq(PlannedComponents)
           /\ Len(plan) \in Nat
           /\ DOMAIN plan = 1..Len(plan)
           /\ \A i \in DOMAIN plan : plan[i] \in PlannedComponents
           /\ Len(plan) > 0
<1>1. plan \in Seq(PlannedComponents) /\ plan # <<>>
  BY ConstantsAssumption DEF ValidScanPlan
<1>. QED  BY <1>1

\* The entries the loop makes are entries, whatever its check chain says.
LEMMA EntryTypes ==
    ASSUME NEW c \in PlannedComponents, NEW r \in Results
    PROVE  /\ UnaskedEntry(c) \in Entries
           /\ CompleteEntry(c, r) \in Entries
           /\ Diagnose(c, r) \in DiagnosticCodes \cup {"none"}
           /\ \A d \in DiagnosticCodes : EntryFor(c, "failed", d) \in Entries
<1>1. c.name \in Names
  BY DEF PlannedComponents
<1>2. \A s \in {"complete", "failed", "not_run"}, d \in DiagnosticCodes \cup {"none"} :
         EntryFor(c, s, d) \in Entries
  BY <1>1 DEF EntryFor, Entries
<1>3. UnaskedEntry(c) \in Entries
  BY <1>2 DEF UnaskedEntry, DiagnosticCodes
<1>4. CompleteEntry(c, r) \in Entries
  BY <1>1 DEF CompleteEntry, Entries, Results
<1>5. Diagnose(c, r) \in DiagnosticCodes \cup {"none"}
  <2>1. r.code \in ScannerCodes \cup {"none"}
    BY DEF Results
  <2>2. r.kind = "raised" => Diagnose(c, r) = r.code
    BY DEF Diagnose
  <2>3. r.kind # "raised" => Diagnose(c, r) \in DiagnosticCodes \cup {"none"}
    BY DEF Diagnose, DiagnosticCodes, ScannerCodes
  <2>. QED  BY <2>1, <2>2, <2>3 DEF DiagnosticCodes
<1>. QED  BY <1>2, <1>3, <1>4, <1>5

LEMMA ResultTypes ==
    /\ NoResult \in Results
    /\ \A code \in ScannerCodes : Raised(code) \in Results
    /\ \A p \in Plans : \A o \in Outcomes[p], b \in BOOLEAN : [o EXCEPT !.late = b] \in Results
<1>1. NoResult \in Results
  BY DEF NoResult, Results
<1>2. \A code \in ScannerCodes : Raised(code) \in Results
  BY DEF Raised, NoResult, Results
<1>3. ASSUME NEW o \in Results, NEW b \in BOOLEAN
      PROVE  [o EXCEPT !.late = b] \in Results
  BY DEF Results
<1>. QED  BY <1>1, <1>2, <1>3, ConstantsAssumption

-----------------------------------------------------------------------------
(* Type correctness.                                                       *)

LEMMA TypeInit == Init => TypeOK
<1>. SUFFICES ASSUME Init PROVE TypeOK
  OBVIOUS
<1>1. Len(plan) \in Nat /\ 1 \in 1..Len(plan) + 1
  BY PlanFacts DEF Init
<1>2. /\ job \in [DOMAIN plan -> {"idle", "queued", "running", "done", "cancelled"}]
      /\ result \in [DOMAIN plan -> Results]
  BY ResultTypes DEF Init
<1>3. at \in 1..Len(plan) + 1 /\ entries \in Seq(Entries) /\ exit \in Exits
  BY <1>1 DEF Init, Exits
<1>. QED  BY <1>2, <1>3 DEF Init, TypeOK

LEMMA TypeNext == TypeOK /\ [Next]_vars => TypeOK'
<1>. SUFFICES ASSUME TypeOK, [Next]_vars PROVE TypeOK'
  OBVIOUS
<1>. USE DEF totals, files
<1>a. /\ Len(plan) \in Nat
      /\ DOMAIN plan = 1..Len(plan)
      /\ \A i \in DOMAIN plan : plan[i] \in PlannedComponents
      /\ Len(plan) > 0
  BY PlanFacts DEF TypeOK
<1>b. Asking => at \in DOMAIN plan
  BY <1>a DEF TypeOK, Asking
<1>c. Asking => plan[at] \in PlannedComponents /\ result[at] \in Results
  BY <1>a, <1>b DEF TypeOK
<1>1. CASE Admit
  BY <1>1 DEF TypeOK, Admit
<1>2. CASE Submit
  <2>1. job' \in [DOMAIN plan -> {"idle", "queued", "running", "done", "cancelled"}]
    BY <1>2 DEF TypeOK, Submit
  <2>2. at <= Len(plan) /\ (at' = 1 \/ at' = at + 1)
    BY <1>2 DEF Submit
  <2>3. at \in 1..Len(plan) + 1
    BY DEF TypeOK
  <2>4. at' \in 1..Len(plan) + 1
    BY <1>a, <2>2, <2>3
  <2>. QED  BY <1>2, <2>1, <2>4 DEF TypeOK, Submit
<1>3. CASE RecordUnasked
  <2>1. UnaskedEntry(plan[at]) \in Entries
    BY <1>3, <1>a, EntryTypes, ResultTypes DEF RecordUnasked, TypeOK
  <2>. QED  BY <1>3, <1>a, <2>1 DEF TypeOK, RecordUnasked
<1>4. CASE CollectComplete
  <2>1. at \in DOMAIN plan /\ plan[at] \in PlannedComponents /\ result[at] \in Results
    BY <1>4, <1>b, <1>c DEF CollectComplete
  <2>2. CompleteEntry(plan[at], result[at]) \in Entries
    BY <2>1, EntryTypes
  <2>3. result[at].count \in Nat /\ result[at].bytes \in Nat
    BY <2>1 DEF Results
  <2>a. findings \in Nat /\ bytes \in Nat
    BY DEF TypeOK
  <2>b. findings' = findings + result[at].count /\ bytes' = bytes + result[at].bytes
    BY <1>4 DEF CollectComplete
  <2>4. findings' \in Nat /\ bytes' \in Nat
    BY <2>3, <2>a, <2>b
  <2>5. entries' \in Seq(Entries) /\ at' \in 1..Len(plan) + 1
    BY <1>4, <1>a, <1>b, <2>2 DEF TypeOK, CollectComplete
  <2>. QED  BY <1>4, <2>4, <2>5 DEF TypeOK, CollectComplete
<1>5. CASE CollectFailed
  <2>1. at \in DOMAIN plan /\ plan[at] \in PlannedComponents /\ result[at] \in Results
    BY <1>5, <1>b, <1>c DEF CollectFailed
  <2>. DEFINE d == Diagnose(plan[at], result[at])
  <2>2. EntryFor(plan[at], "failed", d) \in Entries
    BY <1>5, <2>1, EntryTypes DEF CollectFailed
  <2>3. /\ entries' = Append(entries, EntryFor(plan[at], "failed", d))
        /\ cancelled' \in BOOLEAN
        /\ pc' \in {"cancel", "collect"}
        /\ at' = at + 1
        /\ UNCHANGED <<plan, job, result, findings, bytes, expired, temp, target, exit>>
    BY <1>5 DEF CollectFailed, Asking
  <2>. HIDE DEF d
  <2>. QED  BY <1>a, <2>1, <2>2, <2>3 DEF TypeOK
<1>6. CASE CancelNext
  BY <1>6 DEF TypeOK, CancelNext, Queued
<1>7. CASE CancelEnd
  BY <1>7 DEF TypeOK, CancelEnd
<1>8. CASE LeavePool
  BY <1>8 DEF TypeOK, LeavePool
<1>9. CASE SealAccepted
  BY <1>9 DEF TypeOK, SealAccepted
<1>10. CASE SealRefused
  BY <1>10 DEF TypeOK, SealRefused, Exits
<1>11. CASE OpenTemp
  BY <1>11 DEF TypeOK, OpenTemp
<1>12. CASE FlushTemp
  BY <1>12 DEF TypeOK, FlushTemp
<1>13. CASE Replace
  <2>1. /\ target' = temp /\ temp' = "none" /\ pc' = "report"
        /\ UNCHANGED <<plan, at, job, result, entries, findings, bytes, cancelled, expired, exit>>
    BY <1>13 DEF Replace
  <2>. QED  BY <2>1 DEF TypeOK
<1>14. CASE AbortEnd
  BY <1>14 DEF TypeOK, AbortEnd, Exits
<1>15. ASSUME NEW i \in DOMAIN plan, StartScan(i) PROVE TypeOK'
  BY <1>15 DEF TypeOK, StartScan
<1>16. ASSUME NEW i \in DOMAIN plan, StartPastDeadline(i) PROVE TypeOK'
  BY <1>16, ResultTypes DEF TypeOK, StartPastDeadline, ScannerCodes
<1>17. ASSUME NEW i \in DOMAIN plan, Finish(i) PROVE TypeOK'
  <2>1. PICK o \in Outcomes[plan] : result' = [result EXCEPT ![i] = [o EXCEPT !.late = (expired /\ o.kind # "raised")]]
    BY <1>17 DEF Finish
  <2>2. [o EXCEPT !.late = (expired /\ o.kind # "raised")] \in Results
    BY ResultTypes DEF TypeOK
  <2>. QED  BY <1>17, <2>1, <2>2 DEF TypeOK, Finish
<1>18. CASE RefusePlan
  BY <1>18 DEF TypeOK, RefusePlan, Exits
<1>19. CASE Expire
  BY <1>19 DEF TypeOK, Expire
<1>20. CASE Interrupt
  <2>1. at \in DOMAIN plan /\ plan[at] \in PlannedComponents
    BY <1>20, <1>b, <1>c DEF Interrupt
  <2>2. EntryFor(plan[at], "failed", "cancelled") \in Entries
    BY <2>1, EntryTypes, ResultTypes DEF DiagnosticCodes
  <2>. QED  BY <1>20, <1>a, <2>1, <2>2 DEF TypeOK, Interrupt
<1>21. CASE SealAfterClockStep
  BY <1>21 DEF TypeOK, SealAfterClockStep, Exits
<1>22. CASE WriteFails
  BY <1>22 DEF TypeOK, WriteFails, Exits
<1>23. CASE Abort
  BY <1>23 DEF TypeOK, Abort
<1>24. CASE Kill
  BY <1>24 DEF TypeOK, Kill, Exits
<1>25. CASE Report \/ ReportFails
  <2>1. /\ pc' = "exited" /\ exit' \in Exits
        /\ UNCHANGED <<plan, at, job, result, entries, findings, bytes, cancelled, expired,
                      temp, target>>
    BY <1>25 DEF Report, ReportFails, Exits
  <2>. QED  BY <2>1 DEF TypeOK
<1>26. CASE UNCHANGED vars
  BY <1>26 DEF TypeOK, vars
<1>. QED
  BY <1>1, <1>2, <1>3, <1>4, <1>5, <1>6, <1>7, <1>8, <1>9, <1>10, <1>11, <1>12, <1>13,
     <1>14, <1>15, <1>16, <1>17, <1>18, <1>19, <1>20, <1>21, <1>22, <1>23, <1>24, <1>25, <1>26
     DEF Next, Main, Workers, Environment

\* Every variable of the scan keeps its type in every reachable state.
THEOREM TypeCorrect == Spec => []TypeOK
BY TypeInit, TypeNext, PTL DEF Spec
-----------------------------------------------------------------------------
(* Where the main thread is and how many entries it has made.              *)

Position ==
    /\ Len(entries) <= Len(plan)
    /\ pc = "admit" => at = 1
    /\ pc \in {"admit", "submit"} => entries = <<>> /\ findings = 0 /\ ~cancelled
    /\ pc \in {"collect", "cancel", "seal", "write", "replace", "report"} => at = Len(entries) + 1
    /\ pc \in {"seal", "write", "replace", "report"} => Len(entries) = Len(plan)
    /\ pc = "cancel" => cancelled

\* The action makes the entry of the component the loop has reached.
Appends(e) == entries' = Append(entries, e) /\ at' = at + 1 /\ plan' = plan

LEMMA AppendKeepsPosition ==
    ASSUME TypeOK, Position, NEW e, Appends(e),
           pc = "collect", at <= Len(plan), pc' \in {"collect", "cancel"},
           pc' = "cancel" => cancelled'
    PROVE  /\ Position'
           /\ Len(entries') = Len(entries) + 1
           /\ entries'[Len(entries) + 1] = e
           /\ at = Len(entries) + 1
<1>1. entries \in Seq(Entries) /\ at = Len(entries) + 1
  BY DEF TypeOK, Position
<1>2. Len(entries') = Len(entries) + 1 /\ entries'[Len(entries) + 1] = e
  BY <1>1 DEF Appends
<1>3. Len(plan) \in Nat /\ Len(entries) \in Nat
  BY <1>1, PlanFacts DEF TypeOK
<1>4. Position'
  BY <1>1, <1>2, <1>3 DEF Position, Appends
<1>. QED  BY <1>1, <1>2, <1>4

LEMMA PositionInit == Init => Position
<1>. SUFFICES ASSUME Init PROVE Position
  OBVIOUS
<1>1. Len(plan) > 0 /\ Len(plan) \in Nat
  BY PlanFacts DEF Init
<1>. QED  BY <1>1 DEF Init, Position

LEMMA PositionNext == TypeOK /\ Position /\ [Next]_vars => Position'
<1>. SUFFICES ASSUME TypeOK, Position, [Next]_vars PROVE Position'
  OBVIOUS
<1>. USE DEF totals, files
<1>a. Len(plan) \in Nat /\ Len(plan) > 0 /\ entries \in Seq(Entries)
  BY PlanFacts DEF TypeOK
<1>1. CASE Admit
  BY <1>1, <1>a DEF Admit, Position
<1>2. CASE Submit
  BY <1>2, <1>a DEF Submit, Position
<1>3. CASE RecordUnasked
  BY <1>3, AppendKeepsPosition DEF RecordUnasked, Appends
<1>4. CASE CollectComplete
  BY <1>4, AppendKeepsPosition DEF CollectComplete, Asking, Appends
<1>5. CASE CollectFailed
  <2>. DEFINE e == EntryFor(plan[at], "failed", Diagnose(plan[at], result[at]))
  <2>1. Appends(e)
    BY <1>5 DEF CollectFailed, Appends
  <2>2. /\ pc = "collect" /\ at <= Len(plan)
        /\ pc' = IF cancelled' THEN "cancel" ELSE pc
    BY <1>5 DEF CollectFailed, Asking
  <2>. HIDE DEF e
  <2>. QED  BY <2>1, <2>2, AppendKeepsPosition
<1>6. CASE Interrupt
  BY <1>6, AppendKeepsPosition DEF Interrupt, Asking, Appends
<1>7. CASE LeavePool
  BY <1>7, <1>a DEF LeavePool, Position, TypeOK
<1>8. CASE CancelNext \/ CancelEnd
  BY <1>8 DEF CancelNext, CancelEnd, Position
<1>9. CASE SealAccepted \/ SealRefused \/ SealAfterClockStep
  BY <1>9 DEF SealAccepted, SealRefused, SealAfterClockStep, Position
<1>10. CASE OpenTemp \/ FlushTemp \/ Replace \/ WriteFails \/ Report \/ ReportFails
  BY <1>10 DEF OpenTemp, FlushTemp, Replace, WriteFails, Report, ReportFails, Position
<1>11. CASE RefusePlan \/ Expire \/ Abort \/ AbortEnd \/ Kill
  BY <1>11 DEF RefusePlan, Expire, Abort, AbortEnd, Kill, Position
<1>12. CASE Workers
  BY <1>12 DEF Workers, StartScan, StartPastDeadline, Finish, Position
<1>13. CASE UNCHANGED vars
  BY <1>13 DEF vars, Position
<1>. QED
  BY <1>1, <1>2, <1>3, <1>4, <1>5, <1>6, <1>7, <1>8, <1>9, <1>10, <1>11, <1>12, <1>13
     DEF Next, Main, Environment

-----------------------------------------------------------------------------
(* Which futures may still be waiting or running.                          *)

Quiet ==
    /\ pc \in {"seal", "write", "replace", "report"} => Queued \cup Running = {}
    /\ exit \in {"ok", "incomplete"} => Queued \cup Running = {}
    /\ exit # "none" => pc = "exited"
    /\ cancelled /\ pc = "collect" => Queued = {}
    /\ ~Pooled => Queued = {} /\ pc # "submit"

\* No job starts to wait or to run in this step.
Calms == Queued' \subseteq Queued /\ Running' \subseteq Running

LEMMA UnchangedIsCalm ==
    ASSUME plan' = plan, job' = job
    PROVE  Queued' = Queued /\ Running' = Running
BY DEF Queued, Running

LEMMA QuietInit == Init => Quiet
BY DEF Init, Quiet, Queued, Running

LEMMA QuietNext == TypeOK /\ Position /\ Quiet /\ [Next]_vars => Quiet'
<1>. SUFFICES ASSUME TypeOK, Position, Quiet, [Next]_vars PROVE Quiet'
  OBVIOUS
<1>. USE DEF totals, files
<1>1. CASE Admit
  BY <1>1, UnchangedIsCalm DEF Admit, Quiet, Pooled
<1>2. CASE Submit
  <2>1. Pooled /\ ~cancelled
    BY <1>2 DEF Submit, Quiet, Position
  <2>2. Pooled' /\ ~cancelled' /\ exit' = exit /\ pc' \in {"submit", "collect"}
    BY <1>2, <2>1 DEF Submit, Pooled
  <2>3. exit = "none"
    BY <1>2 DEF Submit, Quiet
  <2>. QED  BY <2>2, <2>3 DEF Quiet
<1>3. CASE RecordUnasked
  BY <1>3, UnchangedIsCalm DEF RecordUnasked, Quiet, Pooled
<1>4. CASE CollectComplete
  BY <1>4, UnchangedIsCalm DEF CollectComplete, Quiet, Pooled
<1>5. CASE CollectFailed
  <2>1. /\ pc = "collect" /\ pc' = (IF cancelled' THEN "cancel" ELSE pc)
        /\ exit' = exit /\ Queued' = Queued /\ plan' = plan
    BY <1>5, UnchangedIsCalm DEF CollectFailed, Asking
  <2>. QED  BY <2>1 DEF Quiet, Pooled
<1>6. CASE Interrupt
  <2>1. pc = "collect" /\ pc' = "cancel" /\ exit' = exit /\ plan' = plan
    BY <1>6 DEF Interrupt, Asking
  <2>2. ~Pooled => Queued' = {}
    BY <1>6 DEF Interrupt, Quiet, Queued, TypeOK
  <2>. QED  BY <2>1, <2>2 DEF Quiet, Pooled
<1>7. CASE CancelNext
  <2>1. Queued' \subseteq Queued
    BY <1>7 DEF CancelNext, Queued, TypeOK
  <2>. QED  BY <1>7, <2>1 DEF CancelNext, Quiet, Pooled
<1>8. CASE CancelEnd
  BY <1>8, UnchangedIsCalm DEF CancelEnd, Quiet, Pooled
<1>9. CASE LeavePool
  BY <1>9, UnchangedIsCalm DEF LeavePool, Quiet, Pooled
<1>10. CASE SealAccepted \/ SealRefused \/ SealAfterClockStep
  BY <1>10, UnchangedIsCalm DEF SealAccepted, SealRefused, SealAfterClockStep, Quiet, Pooled
<1>11. CASE OpenTemp \/ FlushTemp \/ Replace \/ WriteFails \/ Report \/ ReportFails
  BY <1>11, UnchangedIsCalm
     DEF OpenTemp, FlushTemp, Replace, WriteFails, Report, ReportFails, Quiet, Pooled
<1>12. CASE RefusePlan \/ Expire \/ Abort \/ AbortEnd \/ Kill
  BY <1>12, UnchangedIsCalm DEF RefusePlan, Expire, Abort, AbortEnd, Kill, Quiet, Pooled
<1>13. ASSUME NEW i \in DOMAIN plan, StartScan(i) \/ StartPastDeadline(i) PROVE Quiet'
  <2>1. /\ MayStart(i) /\ UNCHANGED <<plan, pc, exit, cancelled>> /\ pc # "exited"
        /\ \E s \in {"running", "done"} : job' = [job EXCEPT ![i] = s]
    BY <1>13 DEF StartScan, StartPastDeadline
  <2>2. Queued' \subseteq Queued
    BY <2>1 DEF Queued, TypeOK
  <2>3. exit = "none"
    BY <2>1 DEF Quiet
  <2>4. pc \notin {"seal", "write", "replace", "report"}
    BY <2>1 DEF MayStart, Quiet, Queued
  <2>. QED  BY <2>1, <2>2, <2>3, <2>4 DEF Quiet, Pooled
<1>14. ASSUME NEW i \in DOMAIN plan, Finish(i) PROVE Quiet'
  <2>1. Queued' \subseteq Queued /\ Running' \subseteq Running
    BY <1>14 DEF Finish, Queued, Running, TypeOK
  <2>. QED  BY <1>14, <2>1 DEF Finish, Quiet, Pooled
<1>15. CASE UNCHANGED vars
  BY <1>15, UnchangedIsCalm DEF vars, Quiet, Pooled
<1>. QED
  BY <1>1, <1>2, <1>3, <1>4, <1>5, <1>6, <1>7, <1>8, <1>9, <1>10, <1>11, <1>12, <1>13,
     <1>14, <1>15 DEF Next, Main, Workers, Environment

\* No scanner waits or runs when the envelope is sealed, written or reported.
THEOREM Quiescence == Spec => []QuiescentWhenSealed
<1>1. Quiet => QuiescentWhenSealed
  BY DEF Quiet, QuiescentWhenSealed
<1>. QED
  BY <1>1, TypeInit, TypeNext, PositionInit, PositionNext, QuietInit, QuietNext, PTL DEF Spec

\* After a cancel pass no worker starts a scanner that was still waiting.
THEOREM CancelledScannersStayOff == Spec => NoStartAfterCancel
<1>. DEFINE Off == cancelled /\ pc \in {"collect", "seal", "write", "replace", "report"}
                     => Running' \subseteq Running
<1>1. ASSUME TypeOK, Quiet, [Next]_vars PROVE [Off]_vars
  <2>. USE DEF totals, files
  <2>1. ASSUME NEW i \in DOMAIN plan, StartScan(i) \/ StartPastDeadline(i) PROVE Off
    <3>1. MayStart(i)
      BY <2>1 DEF StartScan, StartPastDeadline
    <3>2. CASE Pooled
      <4>1. i \in Queued
        BY <3>1, <3>2 DEF MayStart, Queued
      <4>2. Queued # {} /\ Queued \cup Running # {}
        BY <4>1
      <4>3. ~(cancelled /\ pc = "collect") /\ pc \notin {"seal", "write", "replace", "report"}
        BY <1>1, <4>2 DEF Quiet
      <4>. QED  BY <4>3
    <3>3. CASE ~Pooled
      BY <3>1, <3>3 DEF MayStart
    <3>. QED  BY <3>2, <3>3
  <2>2. ASSUME NEW i \in DOMAIN plan, Finish(i) PROVE Off
    BY <2>2 DEF Finish, Running, TypeOK
  <2>3. CASE Submit \/ CancelNext
    BY <2>3 DEF Submit, CancelNext, Queued, Running, TypeOK
  <2>8. CASE Interrupt
    BY <2>8 DEF Interrupt, Asking
  <2>4. CASE Admit \/ RecordUnasked \/ CollectComplete \/ CollectFailed \/ CancelEnd \/ LeavePool
    BY <2>4, UnchangedIsCalm DEF Admit, RecordUnasked, CollectComplete, CollectFailed, CancelEnd, LeavePool
  <2>5. CASE SealAccepted \/ SealRefused \/ SealAfterClockStep \/ OpenTemp \/ FlushTemp \/ Replace
    BY <2>5, UnchangedIsCalm DEF SealAccepted, SealRefused, SealAfterClockStep, OpenTemp, FlushTemp, Replace
  <2>6. CASE \/ AbortEnd \/ RefusePlan \/ Expire \/ WriteFails \/ Report \/ ReportFails
             \/ Abort \/ Kill
    BY <2>6, UnchangedIsCalm
       DEF AbortEnd, RefusePlan, Expire, WriteFails, Report, ReportFails, Abort, Kill
  <2>7. CASE UNCHANGED vars
    BY <2>7
  <2>. HIDE DEF Off
  <2>9. CASE Workers
    BY <2>1, <2>2, <2>9 DEF Workers
  <2>. QED
    BY <1>1, <2>3, <2>4, <2>5, <2>6, <2>7, <2>8, <2>9 DEF Next, Main, Environment
<1>. QED
  BY <1>1, TypeInit, TypeNext, PositionInit, PositionNext, QuietInit, QuietNext, PTL
     DEF Spec, NoStartAfterCancel
-----------------------------------------------------------------------------
(* Entries carry what their own scanner returned, within the limits.       *)

AnswersKnown ==
    \A i \in DOMAIN plan :
        job[i] = "done" => /\ result[i].kind \in {"list", "garbage", "raised"}
                           /\ result[i].kind = "raised" => result[i].code # "none"

\* An answer that passes the whole check chain is a list without a defect that
\* the validator would refuse, and fits under both limits.
LEMMA NoDiagnosis ==
    ASSUME NEW c \in PlannedComponents, NEW r \in Results, Runnable(c),
           Diagnose(c, r) = "none",
           r.kind \in {"list", "garbage", "raised"}, r.kind = "raised" => r.code # "none",
           findings \in Nat, bytes \in Nat
    PROVE  /\ r.kind = "list" /\ ~r.late
           /\ EntryAccepted(c, CompleteEntry(c, r))
           /\ findings + r.count <= MaxFindings
           /\ bytes + r.bytes <= MaxBytes
<1>1. r.kind # "raised"
  BY DEF Diagnose
<1>2. r.kind = "list" /\ ~r.late
  BY <1>1 DEF Diagnose
<1>3. /\ "unsized" \notin r.defects /\ "foreign" \notin r.defects /\ "duplicate" \notin r.defects
      /\ c.mode = "partial" => "outOfScope" \notin r.defects
      /\ ~(findings + r.count > MaxFindings) /\ ~(bytes + r.bytes > MaxBytes)
  BY <1>1 DEF Diagnose
<1>4. c.mode # "reuse"
  BY DEF Runnable
<1>5. EntryAccepted(c, CompleteEntry(c, r))
  BY <1>3, <1>4 DEF EntryAccepted, CompleteEntry
<1>6. r.count \in Nat /\ r.bytes \in Nat /\ MaxFindings \in Nat /\ MaxBytes \in Nat
  BY ConstantsAssumption DEF Results
<1>. QED  BY <1>2, <1>3, <1>5, <1>6

\* A step that makes no entry and disturbs no answer given.
LEMMA AnswersStand ==
    ASSUME EntriesFaithful, AnswersKnown, plan' = plan, entries' = entries,
           \A i \in DOMAIN plan : job'[i] = "done" => job[i] = "done" /\ result'[i] = result[i],
           \A i \in DOMAIN entries : job[i] = "done" => job'[i] = "done" /\ result'[i] = result[i]
    PROVE  EntriesFaithful' /\ AnswersKnown'
<1>1. EntriesFaithful'
  BY DEF EntriesFaithful, Runnable, CompleteEntry, EntryAccepted
<1>2. AnswersKnown'
  BY DEF AnswersKnown
<1>. QED  BY <1>1, <1>2

\* A step that makes one entry, which is faithful, and disturbs no answer given.
LEMMA AppendFaithful ==
    ASSUME TypeOK, EntriesFaithful, NEW e, Appends(e), at = Len(entries) + 1, result' = result,
           \A i \in DOMAIN entries : job'[i] = job[i],
           e.status = "complete" =>
               \/ ~Runnable(plan[at]) /\ plan[at].mode = "partial" /\ e.count = 0
               \/ /\ job'[at] = "done" /\ result[at].kind = "list" /\ ~result[at].late
                  /\ e = CompleteEntry(plan[at], result[at])
                  /\ EntryAccepted(plan[at], e)
    PROVE  EntriesFaithful'
<1>1. entries \in Seq(Entries)
  BY DEF TypeOK
<1>2. /\ DOMAIN entries' = DOMAIN entries \cup {at}
      /\ \A i \in DOMAIN entries : entries'[i] = entries[i] /\ i # at
      /\ entries'[at] = e
  BY <1>1 DEF Appends
<1>3. ASSUME NEW i \in DOMAIN entries, entries'[i].status = "complete"
      PROVE  \/ ~Runnable(plan[i]) /\ plan[i].mode = "partial" /\ entries'[i].count = 0
             \/ /\ job'[i] = "done" /\ result[i].kind = "list" /\ ~result[i].late
                /\ entries'[i] = CompleteEntry(plan[i], result[i])
                /\ EntryAccepted(plan[i], entries'[i])
  BY <1>2, <1>3 DEF EntriesFaithful
<1>. QED
  BY <1>2, <1>3 DEF EntriesFaithful, Appends, Runnable, CompleteEntry, EntryAccepted

Faithful == EntriesFaithful /\ AnswersKnown

LEMMA FaithfulInit == Init => Faithful
BY DEF Init, Faithful, EntriesFaithful, AnswersKnown

LEMMA FaithfulNext == TypeOK /\ Position /\ Faithful /\ [Next]_vars => Faithful'
<1>. SUFFICES ASSUME TypeOK, Position, Faithful, [Next]_vars PROVE Faithful'
  OBVIOUS
<1>. USE DEF totals, files
<1>a. /\ Len(plan) \in Nat /\ DOMAIN plan = 1..Len(plan)
      /\ \A i \in DOMAIN plan : plan[i] \in PlannedComponents
      /\ Len(entries) \in Nat /\ DOMAIN entries = 1..Len(entries)
      /\ Len(entries) <= Len(plan)
  BY PlanFacts DEF TypeOK, Position
<1>b. EntriesFaithful /\ AnswersKnown
  BY DEF Faithful
<1>c. pc = "collect" /\ at <= Len(plan) => at = Len(entries) + 1 /\ at \in DOMAIN plan
  BY <1>a DEF Position
<1>d. pc \in {"admit", "submit"} => DOMAIN entries = {}
  BY DEF Position
<1>1. CASE UNCHANGED <<plan, job, result, entries>>
  BY <1>1, <1>b, AnswersStand DEF Faithful
<1>2. CASE Submit
  <2>1. \A i \in DOMAIN plan : job'[i] = "done" => job[i] = "done"
    BY <1>2 DEF Submit, TypeOK
  <2>. QED  BY <1>2, <1>b, <1>d, <2>1, AnswersStand DEF Submit, Faithful
<1>3. CASE RecordUnasked
  <2>. DEFINE e == UnaskedEntry(plan[at])
  <2>1. Appends(e) /\ pc = "collect" /\ at <= Len(plan) /\ job' = job /\ result' = result
    BY <1>3 DEF RecordUnasked, Appends
  <2>2. e.status = "complete" =>
          ~Runnable(plan[at]) /\ plan[at].mode = "partial" /\ e.count = 0
    <3>1. plan[at] \in PlannedComponents
      BY <2>1, <1>a, <1>c
    <3>2. cancelled \/ ~Runnable(plan[at])
      BY <1>3 DEF RecordUnasked
    <3>3. e.status = "complete" => ~cancelled /\ plan[at].mode # "reuse" /\ e.count = 0
      BY DEF UnaskedEntry, EntryFor
    <3>. QED  BY <3>1, <3>2, <3>3 DEF Runnable, PlannedComponents
  <2>. HIDE DEF e
  <2>3. EntriesFaithful'
    BY <2>1, <2>2, <1>b, <1>c, AppendFaithful
  <2>4. AnswersKnown'
    BY <2>1, <1>b DEF AnswersKnown, Appends
  <2>. QED  BY <2>3, <2>4 DEF Faithful
<1>4. CASE CollectComplete
  <2>. DEFINE e == CompleteEntry(plan[at], result[at])
  <2>1. /\ Appends(e) /\ pc = "collect" /\ at <= Len(plan) /\ Runnable(plan[at])
        /\ job' = job /\ result' = result /\ job[at] = "done"
        /\ Diagnose(plan[at], result[at]) = "none"
    BY <1>4 DEF CollectComplete, Asking, Appends
  <2>2. /\ at \in DOMAIN plan /\ plan[at] \in PlannedComponents /\ result[at] \in Results
        /\ result[at].kind \in {"list", "garbage", "raised"}
        /\ result[at].kind = "raised" => result[at].code # "none"
        /\ findings \in Nat /\ bytes \in Nat
    BY <2>1, <1>a, <1>b, <1>c DEF AnswersKnown, TypeOK
  <2>3. result[at].kind = "list" /\ ~result[at].late /\ EntryAccepted(plan[at], e)
    BY <2>1, <2>2, NoDiagnosis
  <2>. HIDE DEF e
  <2>4. EntriesFaithful'
    BY <2>1, <2>3, <1>b, <1>c, AppendFaithful DEF e
  <2>5. AnswersKnown'
    BY <2>1, <1>b DEF AnswersKnown, Appends
  <2>. QED  BY <2>4, <2>5 DEF Faithful
<1>5. CASE CollectFailed
  <2>. DEFINE e == EntryFor(plan[at], "failed", Diagnose(plan[at], result[at]))
  <2>1. /\ Appends(e) /\ pc = "collect" /\ at <= Len(plan)
        /\ job' = job /\ result' = result
    BY <1>5 DEF CollectFailed, Asking, Appends
  <2>2. e.status # "complete"
    BY DEF EntryFor
  <2>. HIDE DEF e
  <2>3. EntriesFaithful'
    BY <2>1, <2>2, <1>b, <1>c, AppendFaithful
  <2>4. AnswersKnown'
    BY <2>1, <1>b DEF AnswersKnown, Appends
  <2>. QED  BY <2>3, <2>4 DEF Faithful
<1>6. CASE Interrupt
  <2>. DEFINE e == EntryFor(plan[at], "failed", "cancelled")
  <2>1. /\ Appends(e) /\ pc = "collect" /\ at <= Len(plan) /\ result' = result
        /\ job' = job \/ job' = [job EXCEPT ![at] = "cancelled"]
    BY <1>6 DEF Interrupt, Asking, Appends
  <2>2. e.status # "complete"
    BY DEF EntryFor
  <2>3. \A i \in DOMAIN entries : i # at /\ job'[i] = job[i]
    BY <2>1, <1>a, <1>c DEF TypeOK
  <2>. HIDE DEF e
  <2>4. EntriesFaithful'
    BY <2>1, <2>2, <2>3, <1>b, <1>c, AppendFaithful
  <2>5. AnswersKnown'
    BY <2>1, <1>b DEF AnswersKnown, Appends, TypeOK
  <2>. QED  BY <2>4, <2>5 DEF Faithful
<1>7. CASE CancelNext
  <2>1. \A i \in DOMAIN plan : job'[i] = "done" <=> job[i] = "done"
    BY <1>7 DEF CancelNext, Queued, TypeOK
  <2>. QED  BY <1>7, <1>a, <1>b, <2>1, AnswersStand DEF CancelNext, Faithful
<1>8. ASSUME NEW i \in DOMAIN plan, StartScan(i) PROVE Faithful'
  <2>1. job[i] # "done"
    BY <1>8 DEF StartScan, MayStart
  <2>2. \A j \in DOMAIN plan : job'[j] = "done" <=> job[j] = "done"
    BY <1>8, <2>1 DEF StartScan, TypeOK
  <2>. QED  BY <1>8, <1>a, <1>b, <2>2, AnswersStand DEF StartScan, Faithful
<1>9. ASSUME NEW i \in DOMAIN plan, StartPastDeadline(i) \/ Finish(i) PROVE Faithful'
  <2>1. /\ job[i] # "done" /\ job' = [job EXCEPT ![i] = "done"]
        /\ UNCHANGED <<plan, entries>>
    BY <1>9 DEF StartPastDeadline, MayStart, Finish
  <2>2. PICK r : /\ result' = [result EXCEPT ![i] = r]
                 /\ r.kind \in {"list", "garbage", "raised"}
                 /\ r.kind = "raised" => r.code # "none"
    <3>1. CASE StartPastDeadline(i)
      <4>1. PICK code \in {"timeout", "not_installed"} :
              result' = [result EXCEPT ![i] = Raised(code)]
        BY <3>1 DEF StartPastDeadline
      <4>2. Raised(code).kind = "raised" /\ Raised(code).code # "none"
        BY DEF Raised, NoResult
      <4>. QED  BY <4>1, <4>2
    <3>2. CASE Finish(i)
      <4>1. PICK o \in Outcomes[plan] :
              result' = [result EXCEPT ![i] = [o EXCEPT !.late = (expired /\ o.kind # "raised")]]
        BY <3>2 DEF Finish
      <4>2. o \in Results /\ o.kind # "none" /\ (o.kind = "raised" => o.code # "none")
        BY ConstantsAssumption DEF TypeOK
      <4>. DEFINE r == [o EXCEPT !.late = (expired /\ o.kind # "raised")]
      <4>3. r.kind = o.kind /\ r.code = o.code
        BY <4>2 DEF Results
      <4>4. o.kind \in {"list", "garbage", "raised"}
        BY <4>2 DEF Results
      <4>. HIDE DEF r
      <4>. QED  BY <4>1, <4>2, <4>3, <4>4 DEF r
    <3>. QED  BY <1>9, <3>1, <3>2
  <2>3. AnswersKnown'
    BY <2>1, <2>2, <1>b DEF AnswersKnown, TypeOK
  <2>4. \A j \in DOMAIN entries : job[j] = "done" => job'[j] = "done" /\ result'[j] = result[j]
    BY <2>1, <2>2, <1>a DEF TypeOK
  <2>5. EntriesFaithful'
    BY <2>1, <2>4, <1>b DEF EntriesFaithful, Runnable, CompleteEntry, EntryAccepted
  <2>. QED  BY <2>3, <2>5 DEF Faithful
<1>10. CASE Admit \/ CancelEnd \/ LeavePool \/ AbortEnd \/ RefusePlan \/ Expire \/ Abort \/ Kill
  BY <1>1, <1>10 DEF Admit, CancelEnd, LeavePool, AbortEnd, RefusePlan, Expire, Abort, Kill
<1>11. CASE \/ SealAccepted \/ SealRefused \/ SealAfterClockStep \/ OpenTemp \/ FlushTemp
            \/ Replace \/ WriteFails \/ Report \/ ReportFails \/ UNCHANGED vars
  BY <1>1, <1>11 DEF SealAccepted, SealRefused, SealAfterClockStep, OpenTemp, FlushTemp,
                     Replace, WriteFails, Report, ReportFails, vars
<1>12. CASE Workers
  BY <1>8, <1>9, <1>12 DEF Workers
<1>. QED
  BY <1>2, <1>3, <1>4, <1>5, <1>6, <1>7, <1>10, <1>11, <1>12 DEF Next, Main, Environment

\* For every plan, set of answers and number of workers, and whatever the order in
\* which the scanners end, a complete entry carries its own scanner's answer.
THEOREM Fidelity == Spec => []EntriesFaithful
<1>1. Faithful => EntriesFaithful
  BY DEF Faithful
<1>. QED
  BY <1>1, TypeInit, TypeNext, PositionInit, PositionNext, FaithfulInit, FaithfulNext, PTL DEF Spec
-----------------------------------------------------------------------------
(* The envelope and the result file.                                       *)

Sealed ==
    /\ pc # "exited" => exit = "none"
    /\ pc \notin {"report", "aborting", "exited"} => target = "old"
    /\ pc \in {"write", "replace"} => ValidateResultEnvelope(plan, entries)
    /\ pc = "replace" => temp = "full"
    /\ pc = "report" => target = "full"
    /\ target \in {"old", "full"}
    /\ target = "full" => ValidateResultEnvelope(plan, entries)
    /\ exit \in {"ok", "incomplete"} => target = "full"
    /\ exit \in RefusedExits => target = "old"
    /\ exit = "ok" => ~Incomplete(plan, entries)

LEMMA SealedInit == Init => Sealed
BY DEF Init, Sealed

LEMMA SealedNext == Sealed /\ [Next]_vars => Sealed'
<1>. SUFFICES ASSUME Sealed, [Next]_vars PROVE Sealed'
  OBVIOUS
<1>. USE DEF totals, files
<1>1. CASE /\ pc \notin {"report", "aborting", "exited"} /\ pc' \in {"submit", "collect", "cancel", "seal"}
           /\ UNCHANGED <<target, exit>>
  BY <1>1 DEF Sealed, RefusedExits
<1>2. CASE SealAccepted
  BY <1>2 DEF SealAccepted, Sealed, RefusedExits
<1>3. CASE OpenTemp \/ FlushTemp
  BY <1>3 DEF OpenTemp, FlushTemp, Sealed, RefusedExits
<1>4. CASE Replace
  <2>1. /\ target' = "full" /\ pc' = "report" /\ plan' = plan /\ entries' = entries
        /\ exit' = "none"
        /\ ValidateResultEnvelope(plan, entries)
    BY <1>4 DEF Replace, Sealed
  <2>. QED  BY <2>1 DEF Sealed, RefusedExits
<1>5. CASE Report
  <2>1. /\ target' = "full" /\ pc' = "exited" /\ plan' = plan /\ entries' = entries
        /\ exit' = IF Incomplete(plan, entries) THEN "incomplete" ELSE "ok"
        /\ ValidateResultEnvelope(plan, entries)
    BY <1>5 DEF Report, Sealed
  <2>. QED  BY <2>1 DEF Sealed, RefusedExits
<1>6. CASE SealRefused \/ SealAfterClockStep \/ WriteFails \/ RefusePlan
  <2>1. /\ target = "old" /\ pc' = "exited" /\ target' = target
        /\ exit' \in RefusedExits
    BY <1>6 DEF SealRefused, SealAfterClockStep, WriteFails, RefusePlan, Sealed, RefusedExits
  <2>. QED  BY <2>1 DEF Sealed, RefusedExits
<1>7. CASE AbortEnd \/ Kill \/ ReportFails
  <2>1. /\ pc' = "exited" /\ UNCHANGED <<plan, entries, target>>
        /\ exit' \notin {"ok", "incomplete"} \cup RefusedExits
    BY <1>7 DEF AbortEnd, Kill, ReportFails, RefusedExits
  <2>. QED  BY <2>1 DEF Sealed
<1>8. CASE Admit \/ Submit \/ CancelEnd \/ LeavePool \/ CancelNext
  BY <1>1, <1>8 DEF Admit, Submit, CancelEnd, LeavePool, CancelNext
<1>9. CASE RecordUnasked \/ CollectComplete \/ CollectFailed \/ Interrupt
  <2>1. /\ pc = "collect" /\ pc' \in {"collect", "cancel"} /\ UNCHANGED <<target, exit>>
    BY <1>9 DEF RecordUnasked, CollectComplete, CollectFailed, Interrupt, Asking
  <2>. QED  BY <1>1, <2>1
<1>10. CASE Expire \/ Abort
  <2>1. /\ pc # "exited" /\ pc' \in {pc, "aborting"} /\ UNCHANGED <<plan, entries, temp, target, exit>>
    BY <1>10 DEF Expire, Abort
  <2>. QED  BY <2>1 DEF Sealed, RefusedExits
<1>11. CASE Workers
  BY <1>11 DEF Workers, StartScan, StartPastDeadline, Finish, Sealed
<1>12. CASE UNCHANGED vars
  BY <1>12 DEF vars, Sealed
<1>. QED
  BY <1>2, <1>3, <1>4, <1>5, <1>6, <1>7, <1>8, <1>9, <1>10, <1>11, <1>12
     DEF Next, Main, Environment

\* The result file changes only to a whole envelope the validator accepts, wherever
\* the command is interrupted or killed, a command that refuses leaves it as it was,
\* and exit status 0 is given only if every component not reused was scanned.
THEOREM Publication == Spec => []PublishedOnlyIfAccepted
<1>1. TypeOK /\ Sealed => PublishedOnlyIfAccepted
  <2>. SUFFICES ASSUME TypeOK, Sealed PROVE PublishedOnlyIfAccepted
    OBVIOUS
  <2>1. ASSUME exit = "ok", NEW i \in DOMAIN plan, plan[i].mode # "reuse"
        PROVE  entries[i].status = "complete"
    <3>1. ValidateResultEnvelope(plan, entries) /\ ~Incomplete(plan, entries)
      BY <2>1 DEF Sealed
    <3>2. i \in DOMAIN entries /\ entries[i] \in Entries
      BY <3>1, PlanFacts DEF TypeOK, ValidateResultEnvelope
    <3>. QED  BY <2>1, <3>1, <3>2 DEF Incomplete, Entries
  <2>. QED  BY <2>1 DEF Sealed, PublishedOnlyIfAccepted
<1>. QED
  BY <1>1, TypeInit, TypeNext, SealedInit, SealedNext, PTL DEF Spec

-----------------------------------------------------------------------------
(* Induction on the naturals, for a set rather than a predicate, and what  *)
(* the recursive definition of the running totals comes to.                *)

\* A set of naturals has a least member.
LEMMA Least ==
    ASSUME NEW S, S \subseteq Nat, S # {}
    PROVE  \E m \in S : \A k \in S : m <= k
<1>. DEFINE R == OpToRel(<, Nat)
<1>1. IsWellFoundedOn(R, Nat)
  BY NatLessThanWellFounded
<1>. HIDE DEF R
<1>2. PICK x \in S : \A y \in S : ~ (<<y, x>> \in R)
  BY <1>1, WFMin
<1>3. \A u, v \in Nat : <<v, u>> \in R <=> v < u
  BY DEF R, OpToRel
<1>4. \A y \in S : x <= y
  <2>. TAKE y \in S
  <2>1. x \in Nat /\ y \in Nat
    OBVIOUS
  <2>2. ~ (y < x)
    BY <1>2, <1>3, <2>1
  <2>. QED  BY <2>1, <2>2
<1>. QED  BY <1>4

\* What holds of 0, and of n + 1 when it holds of n, holds of every natural.
LEMMA Induction ==
    ASSUME NEW S, 0 \in S, \A n \in Nat : n \in S => n + 1 \in S
    PROVE  Nat \subseteq S
<1>. SUFFICES ASSUME Nat \ S # {} PROVE FALSE
  OBVIOUS
<1>1. PICK m \in Nat \ S : \A k \in Nat \ S : m <= k
  BY Least
<1>2. m # 0 /\ m - 1 \in Nat
  BY <1>1
<1>3. m - 1 \in S
  BY <1>1, <1>2
<1>. QED  BY <1>1, <1>2, <1>3

\* g sums the first n values of f.
SumsUpTo(f, g, n) ==
    /\ g[0] = 0
    /\ \A k \in 1..n : g[k] = g[k - 1] + f[k]

LEMMA SumsUpToExist == ASSUME NEW f PROVE \A n \in Nat : \E g : SumsUpTo(f, g, n)
<1>. DEFINE S == {n \in Nat : \E g : SumsUpTo(f, g, n)}
<1>1. 0 \in S
  <2>1. SumsUpTo(f, [k \in Nat |-> 0], 0)
    BY DEF SumsUpTo
  <2>. QED  BY <2>1
<1>2. ASSUME NEW n \in Nat, n \in S PROVE n + 1 \in S
  <2>1. PICK g : SumsUpTo(f, g, n)
    BY <1>2
  <2>. DEFINE h == [k \in Nat |-> IF k = n + 1 THEN g[n] + f[n + 1] ELSE g[k]]
  <2>2. h[0] = 0
    BY <2>1 DEF SumsUpTo
  <2>3. ASSUME NEW k \in 1..(n + 1) PROVE h[k] = h[k - 1] + f[k]
    BY <2>1 DEF SumsUpTo
  <2>. HIDE DEF h
  <2>4. SumsUpTo(f, h, n + 1)
    BY <2>2, <2>3 DEF SumsUpTo
  <2>. QED  BY <2>4
<1>. HIDE DEF S
<1>3. Nat \subseteq S
  BY <1>1, <1>2, Induction
<1>. QED  BY <1>3 DEF S

LEMMA SumsUpToUnique ==
    ASSUME NEW f, NEW n \in Nat, NEW g, NEW h, NEW m \in Nat, m <= n,
           SumsUpTo(f, g, n), SumsUpTo(f, h, m)
    PROVE  g[m] = h[m]
<1>. DEFINE S == {k \in Nat : k <= m => g[k] = h[k]}
<1>1. 0 \in S
  BY DEF SumsUpTo
<1>2. ASSUME NEW k \in Nat, k \in S PROVE k + 1 \in S
  <2>1. CASE k + 1 <= m
    <3>1. k + 1 \in 1..m /\ k + 1 \in 1..n /\ k <= m /\ (k + 1) - 1 = k
      BY <2>1
    <3>2. g[k + 1] = g[k] + f[k + 1] /\ h[k + 1] = h[k] + f[k + 1]
      BY <3>1 DEF SumsUpTo
    <3>. QED  BY <1>2, <3>1, <3>2
  <2>. QED  BY <2>1
<1>. HIDE DEF S
<1>3. Nat \subseteq S
  BY <1>1, <1>2, Induction
<1>. QED  BY <1>3 DEF S

LEMMA SumsUnfold ==
    ASSUME NEW f
    PROVE  Sums(f)[0] = 0 /\ \A n \in Nat : Sums(f)[n + 1] = Sums(f)[n] + f[n + 1]
<1>. DEFINE s == [n \in Nat |-> (CHOOSE g : SumsUpTo(f, g, n))[n]]
<1>1. \A n \in Nat : SumsUpTo(f, CHOOSE g : SumsUpTo(f, g, n), n)
  BY SumsUpToExist
<1>2. s[0] = 0
  BY <1>1 DEF SumsUpTo
<1>3. ASSUME NEW n \in Nat, n # 0 PROVE s[n] = s[n - 1] + f[n]
  <2>. DEFINE g == CHOOSE w : SumsUpTo(f, w, n)
              h == CHOOSE w : SumsUpTo(f, w, n - 1)
  <2>1. n - 1 \in Nat /\ n \in 1..n
    BY <1>3
  <2>2. SumsUpTo(f, g, n) /\ SumsUpTo(f, h, n - 1)
    BY <1>1, <2>1
  <2>3. s[n] = g[n] /\ s[n - 1] = h[n - 1]
    BY <2>1
  <2>. HIDE DEF g, h
  <2>4. g[n - 1] = h[n - 1]
    BY <2>1, <2>2, SumsUpToUnique
  <2>5. g[n] = g[n - 1] + f[n]
    BY <2>1, <2>2 DEF SumsUpTo
  <2>. QED  BY <2>3, <2>4, <2>5
<1>. HIDE DEF s
<1>4. s = [n \in Nat |-> IF n = 0 THEN 0 ELSE s[n - 1] + f[n]]
  <2>1. s = [n \in Nat |-> s[n]]
    BY DEF s
  <2>. QED  BY <1>2, <1>3, <2>1
<1>5. Sums(f) = [n \in Nat |-> IF n = 0 THEN 0 ELSE Sums(f)[n - 1] + f[n]]
  BY <1>4 DEF Sums
<1>. HIDE DEF Sums
<1>. QED  BY <1>5

\* The total of n values depends on those values only, and is a natural if they are.
LEMMA SumsAgree ==
    ASSUME NEW f, NEW g, NEW n \in Nat, \A k \in 1..n : f[k] = g[k]
    PROVE  Sums(f)[n] = Sums(g)[n]
<1>. DEFINE S == {m \in Nat : m <= n => Sums(f)[m] = Sums(g)[m]}
<1>1. 0 \in S
  BY SumsUnfold
<1>2. ASSUME NEW m \in Nat, m \in S PROVE m + 1 \in S
  <2>1. CASE m + 1 <= n
    <3>1. m <= n /\ f[m + 1] = g[m + 1]
      BY <2>1
    <3>. QED  BY <1>2, <3>1, SumsUnfold
  <2>. QED  BY <2>1
<1>. HIDE DEF S
<1>3. Nat \subseteq S
  BY <1>1, <1>2, Induction
<1>. QED  BY <1>3 DEF S

\* One more entry adds its findings and its bytes to the totals, and leaves the
\* totals before it as they were.
LEMMA SumsAppend ==
    ASSUME NEW es \in Seq(Entries), NEW e \in Entries
    PROVE  LET fs == Append(es, e) IN
           /\ Sums(Counts(fs))[Len(fs)] = Sums(Counts(es))[Len(es)] + e.count
           /\ Sums(Sizes(fs))[Len(fs)] = Sums(Sizes(es))[Len(es)] + e.bytes
           /\ \A n \in 0..Len(es) : Sums(Counts(fs))[n] = Sums(Counts(es))[n]
<1>. DEFINE fs == Append(es, e)
<1>1. Len(es) \in Nat /\ Len(fs) = Len(es) + 1 /\ DOMAIN es = 1..Len(es)
      /\ DOMAIN fs = 1..(Len(es) + 1)
  OBVIOUS
<1>2. /\ \A k \in 1..Len(es) : Counts(fs)[k] = Counts(es)[k] /\ Sizes(fs)[k] = Sizes(es)[k]
      /\ Counts(fs)[Len(es) + 1] = e.count /\ Sizes(fs)[Len(es) + 1] = e.bytes
  BY <1>1 DEF Counts, Sizes
<1>. HIDE DEF fs
<1>3. \A n \in 0..Len(es) : Sums(Counts(fs))[n] = Sums(Counts(es))[n]
  <2>. TAKE n \in 0..Len(es)
  <2>1. n \in Nat /\ \A k \in 1..n : Counts(fs)[k] = Counts(es)[k]
    BY <1>1, <1>2
  <2>. QED  BY <2>1, SumsAgree
<1>4. Sums(Sizes(fs))[Len(es)] = Sums(Sizes(es))[Len(es)]
  BY <1>1, <1>2, SumsAgree
<1>5. /\ Sums(Counts(fs))[Len(es) + 1] = Sums(Counts(fs))[Len(es)] + Counts(fs)[Len(es) + 1]
      /\ Sums(Sizes(fs))[Len(es) + 1] = Sums(Sizes(fs))[Len(es)] + Sizes(fs)[Len(es) + 1]
  BY <1>1, SumsUnfold
<1>6. Len(es) \in 0..Len(es)
  BY <1>1
<1>. QED  BY <1>1, <1>2, <1>3, <1>4, <1>5, <1>6 DEF fs

-----------------------------------------------------------------------------
(* The books of the loop: its totals add up, each of its entries passes    *)
(* the validator, but for a cancelled reuse, and each failure has a cause. *)

Totals ==
    /\ findings = Sums(Counts(entries))[Len(entries)]
    /\ bytes = Sums(Sizes(entries))[Len(entries)]
    /\ findings <= MaxFindings
    /\ bytes <= MaxBytes

CancelledReuse(c, e) == c.mode = "reuse" /\ e.diagnostic = "cancelled"

Passed(i) == EntryAccepted(plan[i], entries[i]) \/ CancelledReuse(plan[i], entries[i])

StopDiagnostics == {"cancelled", "execution_limit_exceeded"}

\* The scan was stopped at k, and nothing was found from there to component i.
StoppedAt(k, i) ==
    /\ Runnable(plan[k])
    /\ entries[k].diagnostic \in StopDiagnostics
    /\ \A j \in k..i : entries[j].count = 0

Justified(i) ==
    /\ entries[i].diagnostic \in {"findings_limit_exceeded", "execution_limit_exceeded"} =>
           job[i] = "done"
    /\ entries[i].diagnostic = "findings_limit_exceeded" =>
           AcceptedBefore(i) + result[i].count > MaxFindings
    /\ entries[i].diagnostic = "execution_limit_exceeded" => result[i].late
    /\ entries[i].diagnostic = "cancelled" => \E k \in 1..i : StoppedAt(k, i - 1)

Books ==
    /\ Totals
    /\ \A i \in DOMAIN entries : Passed(i) /\ Justified(i)
    /\ cancelled => \E k \in DOMAIN entries : StoppedAt(k, Len(entries))
    /\ exit = "envelope_refused" =>
           pc = "exited" /\ \E i \in DOMAIN entries : CancelledReuse(plan[i], entries[i])


LEMMA BooksInit == Init => Books
<1>. SUFFICES ASSUME Init PROVE Books
  OBVIOUS
<1>1. Len(entries) = 0 /\ DOMAIN entries = {}
  BY DEF Init
<1>a. Sums(Counts(entries))[0] = 0 /\ Sums(Sizes(entries))[0] = 0
  BY SumsUnfold
<1>2. Totals
  BY <1>1, <1>a, ConstantsAssumption DEF Init, Totals
<1>. QED  BY <1>1, <1>2 DEF Init, Books

\* A step that makes no entry and changes no answer an entry rests on.
LEMMA BooksStand ==
    ASSUME TypeOK, Position, Books, UNCHANGED <<plan, entries, findings, bytes>>,
           cancelled' => cancelled, exit' = "envelope_refused" => exit = "envelope_refused" /\ pc' = pc,
           \A i \in DOMAIN entries : job[i] = "done" => job'[i] = "done" /\ result'[i] = result[i]
    PROVE  Books'
<1>1. Totals'
  BY DEF Books, Totals
<1>2. ASSUME NEW i \in DOMAIN entries PROVE Passed(i)' /\ Justified(i)'
  <2>1. Passed(i) /\ Justified(i)
    BY DEF Books
  <2>2. Passed(i)'
    BY <2>1 DEF Passed, EntryAccepted, CancelledReuse
  <2>3. Justified(i)'
    BY <2>1 DEF Justified, AcceptedBefore, StoppedAt, Runnable
  <2>. QED  BY <2>2, <2>3
<1>3. \A k : StoppedAt(k, Len(entries)) => StoppedAt(k, Len(entries))'
  BY DEF StoppedAt, Runnable
<1>. QED  BY <1>1, <1>2, <1>3 DEF Books, CancelledReuse

\* A step that makes one entry, within the limits, passed and with a cause.
LEMMA BooksAppend ==
    ASSUME TypeOK, Position, Books, NEW e \in Entries, Appends(e),
           pc = "collect", at <= Len(plan), result' = result, exit' = exit,
           \A i \in DOMAIN entries : job'[i] = job[i],
           findings' = findings + e.count, findings' <= MaxFindings,
           bytes' = bytes + e.bytes, bytes' <= MaxBytes,
           EntryAccepted(plan[at], e) \/ CancelledReuse(plan[at], e),
           e.diagnostic \in {"findings_limit_exceeded", "execution_limit_exceeded"} => job'[at] = "done",
           e.diagnostic = "findings_limit_exceeded" => findings + result[at].count > MaxFindings,
           e.diagnostic = "execution_limit_exceeded" => result[at].late,
           e.diagnostic = "cancelled" => cancelled \/ Runnable(plan[at]),
           cancelled => e.count = 0,
           cancelled' => \/ cancelled
                         \/ Runnable(plan[at]) /\ e.diagnostic \in StopDiagnostics /\ e.count = 0
    PROVE  Books'
<1>1. /\ entries \in Seq(Entries) /\ Len(entries) \in Nat /\ at = Len(entries) + 1
      /\ entries' = Append(entries, e) /\ plan' = plan
  BY DEF TypeOK, Position, Appends
<1>2. /\ Len(entries') = Len(entries) + 1
      /\ DOMAIN entries = 1..Len(entries) /\ DOMAIN entries' = DOMAIN entries \cup {at}
      /\ \A i \in DOMAIN entries : entries'[i] = entries[i] /\ i # at
      /\ entries'[at] = e
  BY <1>1
<1>3. /\ Sums(Counts(entries'))[Len(entries')] = Sums(Counts(entries))[Len(entries)] + e.count
      /\ Sums(Sizes(entries'))[Len(entries')] = Sums(Sizes(entries))[Len(entries)] + e.bytes
      /\ \A n \in 0..Len(entries) : Sums(Counts(entries'))[n] = Sums(Counts(entries))[n]
  BY <1>1, SumsAppend
<1>4. Totals'
  BY <1>3 DEF Books, Totals
<1>5. \A i \in DOMAIN entries' : AcceptedBefore(i)' = AcceptedBefore(i)
  <2>1. \A i \in DOMAIN entries' : i - 1 \in 0..Len(entries)
    BY <1>1, <1>2
  <2>. QED  BY <1>3, <2>1 DEF AcceptedBefore
<1>6. \A k \in DOMAIN entries, i \in Nat : i <= Len(entries) /\ StoppedAt(k, i) => StoppedAt(k, i)'
  <2>1. \A k \in DOMAIN entries, i \in Nat : i <= Len(entries) =>
            \A j \in k..i : j \in DOMAIN entries
    BY <1>1, <1>2
  <2>. QED  BY <1>1, <1>2, <2>1 DEF StoppedAt, Runnable
<1>7. ASSUME cancelled
      PROVE  \E k \in DOMAIN entries : /\ Runnable(plan[k]) /\ entries[k].diagnostic \in StopDiagnostics
                                       /\ \A j \in k..at : entries'[j].count = 0
  <2>1. PICK k \in DOMAIN entries : StoppedAt(k, Len(entries))
    BY <1>7 DEF Books
  <2>2. \A j \in k..at : (j \in k..Len(entries) /\ j \in DOMAIN entries) \/ j = at
    BY <1>1, <1>2
  <2>3. \A j \in k..at : entries'[j].count = 0
    BY <1>2, <1>7, <2>1, <2>2 DEF StoppedAt
  <2>. QED  BY <2>1, <2>3 DEF StoppedAt
<1>8. ASSUME NEW i \in DOMAIN entries PROVE Passed(i)' /\ Justified(i)'
  <2>1. Passed(i) /\ Justified(i) /\ entries'[i] = entries[i] /\ plan' = plan
        /\ AcceptedBefore(i)' = AcceptedBefore(i)
    BY <1>1, <1>2, <1>5, <1>8 DEF Books
  <2>2. Passed(i)'
    <3>1. plan'[i] = plan[i]
      BY <2>1
    <3>. QED  BY <2>1, <3>1 DEF Passed, EntryAccepted, CancelledReuse
  <2>3. \A k \in 1..i : StoppedAt(k, i - 1) => StoppedAt(k, i - 1)'
    BY <1>1, <1>2, <1>6
  <2>4. Justified(i)'
    BY <2>1, <2>3 DEF Justified
  <2>. QED  BY <2>2, <2>4
<1>9. ASSUME NEW i \in Nat, i = at PROVE Passed(i)' /\ Justified(i)'
  <2>1. entries'[i] = e /\ plan'[i] = plan[at] /\ i \in DOMAIN entries' /\ result'[i] = result[at]
        /\ i - 1 = Len(entries)
    BY <1>1, <1>2, <1>9
  <2>2. Passed(i)'
    BY <2>1 DEF Passed, EntryAccepted, CancelledReuse
  <2>3. e.diagnostic = "findings_limit_exceeded" =>
          AcceptedBefore(i)' + result'[i].count > MaxFindings
    <3>1. AcceptedBefore(i)' = findings
      BY <1>3, <1>5, <2>1 DEF AcceptedBefore, Books, Totals
    <3>. QED  BY <2>1, <3>1
  <2>4. ASSUME e.diagnostic = "cancelled" PROVE \E k \in 1..i : StoppedAt(k, i - 1)'
    <3>1. CASE cancelled
      <4>1. PICK k \in DOMAIN entries :
              /\ Runnable(plan[k]) /\ entries[k].diagnostic \in StopDiagnostics
              /\ \A j \in k..at : entries'[j].count = 0
        BY <1>7, <3>1
      <4>2. k \in 1..i /\ \A j \in k..(i - 1) : j \in k..at
        BY <1>1, <1>2, <1>9, <4>1
      <4>3. StoppedAt(k, i - 1)'
        BY <1>1, <1>2, <4>1, <4>2 DEF StoppedAt, Runnable
      <4>. QED  BY <4>2, <4>3
    <3>2. CASE ~cancelled
      <4>1. Runnable(plan[at]) /\ i \in 1..i /\ \A j \in i..(i - 1) : FALSE
        BY <1>1, <1>9, <2>4, <3>2
      <4>2. StoppedAt(i, i - 1)'
        BY <1>1, <1>9, <2>1, <2>4, <4>1 DEF StoppedAt, StopDiagnostics, Runnable
      <4>. QED  BY <4>1, <4>2
    <3>. QED  BY <3>1, <3>2
  <2>5. Justified(i)'
    BY <1>9, <2>1, <2>3, <2>4 DEF Justified
  <2>. QED  BY <2>2, <2>5
<1>10. ASSUME cancelled' PROVE \E k \in DOMAIN entries' : StoppedAt(k, Len(entries))'
  <2>1. CASE cancelled
    <3>1. PICK k \in DOMAIN entries :
            /\ Runnable(plan[k]) /\ entries[k].diagnostic \in StopDiagnostics
            /\ \A j \in k..at : entries'[j].count = 0
      BY <1>7, <2>1
    <3>2. StoppedAt(k, Len(entries))'
      BY <1>1, <1>2, <3>1 DEF StoppedAt, Runnable
    <3>. QED  BY <1>2, <3>2
  <2>2. CASE ~cancelled
    <3>1. Runnable(plan[at]) /\ e.diagnostic \in StopDiagnostics /\ e.count = 0
      BY <1>10, <2>2
    <3>2. ASSUME NEW i \in Nat, i = at PROVE StoppedAt(i, Len(entries))'
      <4>1. \A j \in i..Len(entries') : j = i
        BY <1>1, <1>2, <3>2
      <4>. QED  BY <1>1, <1>2, <3>1, <3>2, <4>1 DEF StoppedAt, Runnable
    <3>. QED  BY <1>1, <1>2, <3>2
  <2>. QED  BY <2>1, <2>2
<1>11. \A i \in DOMAIN entries' : Passed(i)' /\ Justified(i)'
  BY <1>1, <1>2, <1>8, <1>9
<1>12. exit' # "envelope_refused"
  BY DEF Books
<1>. QED  BY <1>4, <1>10, <1>11, <1>12 DEF Books

LEMMA BooksNext ==
    TypeOK /\ Position /\ Quiet /\ Faithful /\ Books /\ [Next]_vars => Books'
<1>. SUFFICES ASSUME TypeOK, Position, Quiet, Faithful, Books, [Next]_vars PROVE Books'
  OBVIOUS
<1>. USE DEF totals, files
<1>a. /\ Len(plan) \in Nat /\ Len(entries) \in Nat /\ findings \in Nat /\ bytes \in Nat
      /\ entries \in Seq(Entries) /\ DOMAIN plan = 1..Len(plan) /\ DOMAIN entries = 1..Len(entries)
      /\ \A i \in DOMAIN plan : plan[i] \in PlannedComponents
      /\ findings <= MaxFindings /\ bytes <= MaxBytes
  BY PlanFacts DEF TypeOK, Books, Totals
<1>b. pc = "collect" /\ at <= Len(plan) =>
         /\ at \in DOMAIN plan /\ plan[at] \in PlannedComponents /\ result[at] \in Results
         /\ \A i \in DOMAIN entries : i # at
  BY <1>a DEF Position, TypeOK
<1>1. CASE RecordUnasked
  <2>. DEFINE e == UnaskedEntry(plan[at])
  <2>1. /\ Appends(e) /\ pc = "collect" /\ at <= Len(plan) /\ (cancelled \/ ~Runnable(plan[at]))
        /\ UNCHANGED <<findings, bytes, cancelled, job, result, exit>>
    BY <1>1 DEF RecordUnasked, Appends
  <2>2. e \in Entries /\ e.count = 0 /\ e.bytes = 0 /\ e.name = plan[at].name /\ e.defects = {}
    BY <2>1, <1>b, EntryTypes DEF UnaskedEntry, EntryFor
  <2>3. /\ e.diagnostic \notin {"findings_limit_exceeded", "execution_limit_exceeded"}
        /\ e.diagnostic = "cancelled" => cancelled
    BY DEF UnaskedEntry, EntryFor
  <2>4. EntryAccepted(plan[at], e) \/ CancelledReuse(plan[at], e)
    BY <2>2, <1>b DEF UnaskedEntry, EntryFor, EntryAccepted, CancelledReuse
  <2>. HIDE DEF e
  <2>. QED  BY <2>1, <2>2, <2>3, <2>4, <1>a, BooksAppend
<1>2. CASE CollectComplete
  <2>. DEFINE e == CompleteEntry(plan[at], result[at])
  <2>1. /\ Appends(e) /\ pc = "collect" /\ at <= Len(plan) /\ Runnable(plan[at])
        /\ UNCHANGED <<cancelled, job, result, exit>> /\ ~cancelled
        /\ findings' = findings + e.count /\ bytes' = bytes + e.bytes
        /\ job[at] = "done" /\ Diagnose(plan[at], result[at]) = "none"
    BY <1>2 DEF CollectComplete, Asking, Appends, CompleteEntry
  <2>2. e \in Entries /\ e.diagnostic = "none"
    BY <2>1, <1>b, EntryTypes DEF CompleteEntry
  <2>3. /\ EntryAccepted(plan[at], e)
        /\ findings + e.count <= MaxFindings /\ bytes + e.bytes <= MaxBytes
    <3>1. /\ result[at].kind \in {"list", "garbage", "raised"}
          /\ result[at].kind = "raised" => result[at].code # "none"
      BY <2>1, <1>b DEF Faithful, AnswersKnown
    <3>2. e.count = result[at].count /\ e.bytes = result[at].bytes
      BY DEF CompleteEntry
    <3>. QED  BY <2>1, <3>1, <3>2, <1>a, <1>b, NoDiagnosis
  <2>. HIDE DEF e
  <2>. QED  BY <2>1, <2>2, <2>3, BooksAppend
<1>3. CASE CollectFailed
  <2>. DEFINE d == Diagnose(plan[at], result[at])
              e == EntryFor(plan[at], "failed", d)
  <2>1. /\ Appends(e) /\ pc = "collect" /\ at <= Len(plan) /\ Runnable(plan[at]) /\ ~cancelled
        /\ UNCHANGED <<findings, bytes, job, result, exit>>
        /\ job[at] = "done" /\ d # "none" /\ cancelled' = (d = "execution_limit_exceeded")
    BY <1>3 DEF CollectFailed, Asking, Appends
  <2>2. d \in DiagnosticCodes
    BY <2>1, <1>b, EntryTypes
  <2>3. /\ d = "findings_limit_exceeded" => findings + result[at].count > MaxFindings
        /\ d = "execution_limit_exceeded" => result[at].late
        /\ d # "cancelled"
    <3>1. result[at].code \notin {"cancelled", "execution_limit_exceeded", "findings_limit_exceeded"}
      BY <2>1, <1>b DEF Results, ScannerCodes
    <3>. QED  BY <3>1 DEF Diagnose
  <2>. HIDE DEF d
  <2>4. /\ e \in Entries /\ e.name = plan[at].name /\ e.status = "failed" /\ e.diagnostic = d
        /\ e.count = 0 /\ e.bytes = 0 /\ e.defects = {}
    BY <2>1, <2>2, <1>b, EntryTypes DEF EntryFor
  <2>. HIDE DEF e
  <2>5. EntryAccepted(plan[at], e)
    BY <2>1, <2>4 DEF EntryAccepted, Runnable
  <2>6. findings' = findings + e.count /\ bytes' = bytes + e.bytes
        /\ findings' <= MaxFindings /\ bytes' <= MaxBytes
    BY <2>1, <2>4, <1>a
  <2>7. /\ e.diagnostic \in {"findings_limit_exceeded", "execution_limit_exceeded"} => job'[at] = "done"
        /\ e.diagnostic = "cancelled" => cancelled \/ Runnable(plan[at])
        /\ cancelled' => e.diagnostic \in StopDiagnostics
    BY <2>1, <2>4 DEF StopDiagnostics
  <2>. QED  BY <2>1, <2>3, <2>4, <2>5, <2>6, <2>7, BooksAppend
<1>4. CASE Interrupt
  <2>. DEFINE e == EntryFor(plan[at], "failed", "cancelled")
  <2>1. /\ Appends(e) /\ pc = "collect" /\ at <= Len(plan) /\ Runnable(plan[at]) /\ ~cancelled
        /\ UNCHANGED <<findings, bytes, result, exit>>
        /\ job' = job \/ job' = [job EXCEPT ![at] = "cancelled"]
    BY <1>4 DEF Interrupt, Asking, Appends
  <2>2. /\ e \in Entries /\ e.name = plan[at].name /\ e.status = "failed"
        /\ e.diagnostic = "cancelled" /\ e.count = 0 /\ e.bytes = 0 /\ e.defects = {}
    BY <2>1, <1>b, EntryTypes, ResultTypes DEF EntryFor, DiagnosticCodes
  <2>. HIDE DEF e
  <2>3. EntryAccepted(plan[at], e)
    BY <2>1, <2>2 DEF EntryAccepted, Runnable
  <2>4. \A i \in DOMAIN entries : job'[i] = job[i]
    BY <2>1, <1>a, <1>b DEF Position, TypeOK
  <2>5. findings' = findings + e.count /\ bytes' = bytes + e.bytes
        /\ findings' <= MaxFindings /\ bytes' <= MaxBytes
    BY <2>1, <2>2, <1>a
  <2>6. e.diagnostic \in StopDiagnostics
    BY <2>2 DEF StopDiagnostics
  <2>. QED  BY <2>1, <2>2, <2>3, <2>4, <2>5, <2>6, BooksAppend
<1>5. CASE Submit
  <2>1. DOMAIN entries = {}
    BY <1>5 DEF Submit, Position
  <2>2. UNCHANGED <<plan, entries, findings, bytes, cancelled>> /\ exit' = exit
        /\ pc = "submit" /\ exit = "none"
    BY <1>5 DEF Submit, Quiet
  <2>. QED  BY <2>1, <2>2, BooksStand
<1>6. CASE CancelNext
  <2>1. \A i \in DOMAIN entries : job[i] = "done" => job'[i] = "done"
    BY <1>6, <1>a DEF CancelNext, Queued, TypeOK
  <2>. QED  BY <1>6, <2>1, BooksStand DEF CancelNext
<1>7. CASE SealRefused
  <2>1. /\ pc = "seal" /\ pc' = "exited" /\ ~ValidateResultEnvelope(plan, entries)
        /\ UNCHANGED <<plan, entries, findings, bytes, cancelled, job, result>>
    BY <1>7 DEF SealRefused
  <2>2. \E i \in DOMAIN entries : CancelledReuse(plan[i], entries[i])
    <3>1. Len(entries) = Len(plan)
      BY <2>1 DEF Position
    <3>2. PICK i \in DOMAIN entries : ~EntryAccepted(plan[i], entries[i])
      BY <2>1, <3>1 DEF ValidateResultEnvelope, Books, Totals
    <3>. QED  BY <3>2 DEF Books, Passed
  <2>3. /\ Totals' /\ \A i \in DOMAIN entries : Passed(i)' /\ Justified(i)'
        /\ cancelled => \E k \in DOMAIN entries : StoppedAt(k, Len(entries))'
    <3>1. Totals'
      BY <2>1 DEF Books, Totals
    <3>2. \A i \in DOMAIN entries : Passed(i)' /\ Justified(i)'
      BY <2>1 DEF Books, Passed, Justified, AcceptedBefore, StoppedAt, Runnable
    <3>3. cancelled => \E k \in DOMAIN entries : StoppedAt(k, Len(entries))'
      BY <2>1 DEF Books, StoppedAt, Runnable
    <3>. QED  BY <3>1, <3>2, <3>3
  <2>. QED  BY <2>1, <2>2, <2>3 DEF Books, CancelledReuse
<1>8. CASE Workers
  <2>1. PICK i \in DOMAIN plan : StartScan(i) \/ StartPastDeadline(i) \/ Finish(i)
    BY <1>8 DEF Workers
  <2>2. /\ UNCHANGED <<plan, entries, findings, bytes, cancelled, exit, pc>>
        /\ job[i] # "done" /\ \A j \in DOMAIN plan \ {i} : job'[j] = job[j] /\ result'[j] = result[j]
    BY <2>1 DEF StartScan, StartPastDeadline, Finish, MayStart, TypeOK
  <2>3. \A j \in DOMAIN entries : j \in DOMAIN plan
    <3>1. Len(entries) <= Len(plan)
      BY DEF Position
    <3>. QED  BY <3>1, <1>a
  <2>4. \A j \in DOMAIN entries : job[j] = "done" => job'[j] = "done" /\ result'[j] = result[j]
    BY <2>2, <2>3
  <2>. QED  BY <2>2, <2>4, BooksStand
<1>9. CASE Admit \/ CancelEnd \/ LeavePool \/ AbortEnd \/ RefusePlan \/ Expire \/ Abort \/ Kill
  <2>1. exit' = "envelope_refused" => exit = "envelope_refused" /\ pc' = pc
    BY <1>9 DEF Admit, CancelEnd, LeavePool, AbortEnd, RefusePlan, Expire, Abort, Kill, Quiet
  <2>. QED
    BY <1>9, <2>1, BooksStand
       DEF Admit, CancelEnd, LeavePool, AbortEnd, RefusePlan, Expire, Abort, Kill
<1>10. CASE \/ SealAccepted \/ SealAfterClockStep \/ OpenTemp \/ FlushTemp
            \/ Replace \/ WriteFails \/ Report \/ ReportFails \/ UNCHANGED vars
  <2>1. exit' = "envelope_refused" => exit = "envelope_refused" /\ pc' = pc
    BY <1>10 DEF SealAccepted, SealAfterClockStep, OpenTemp, FlushTemp, Replace, WriteFails, Report, ReportFails,
                 Quiet, vars
  <2>. QED
    BY <1>10, <2>1, BooksStand
       DEF SealAccepted, SealAfterClockStep, OpenTemp, FlushTemp, Replace, WriteFails, Report, ReportFails, vars
<1>. QED
  BY <1>1, <1>2, <1>3, <1>4, <1>5, <1>6, <1>7, <1>8, <1>9, <1>10 DEF Next, Main, Environment

LEMMA BooksAlways == Spec => [](TypeOK /\ Books)
BY TypeInit, TypeNext, PositionInit, PositionNext, QuietInit, QuietNext, FaithfulInit, FaithfulNext,
   BooksInit, BooksNext, PTL DEF Spec

\* The command refuses an envelope of its own only over a component the plan reuses
\* and a stop reached (execute_scan_plan and validate_result_envelope agree otherwise).
THEOREM Refusals == Spec => []RefusalsExplained
<1>1. Books => RefusalsExplained
  BY DEF Books, RefusalsExplained, CancelledReuse
<1>. QED  BY BooksAlways, <1>1, PTL

\* Each limit, deadline and cancellation an entry reports did happen (the elif chain
\* of execute_scan_plan, and its two ways to cancel the rest of the plan).
THEOREM FailuresHaveCauses == Spec => []FailuresJustified
<1>1. Books => FailuresJustified
  BY DEF Books, Justified, StoppedAt, StopDiagnostics, FailuresJustified
<1>. QED  BY BooksAlways, <1>1, PTL

-----------------------------------------------------------------------------
(* The pool implements the verdicts of PlanVerdicts.                       *)

WithinLimit == findings <= MaxFindings

LEMMA WithinLimitInit == Init => WithinLimit
BY ConstantsAssumption DEF Init, WithinLimit

\* Every step that makes an entry is a verdict, with the findings it counts.
LEMMA EntryIsVerdict ==
    ASSUME TypeOK, Position, WithinLimit, NEW e \in Entries, Appends(e),
           pc = "collect", at <= Len(plan), target = "old", target' = target,
           e.name = plan[at].name,
           findings' = findings + e.count, findings' <= MaxFindings,
           cancelled => e.status = "failed" /\ e.diagnostic = "cancelled" /\ e.count = 0,
           ~cancelled /\ ~Runnable(plan[at]) =>
               /\ e.count = 0
               /\ plan[at].mode = "reuse" =>
                      e.status = "not_run" /\ e.diagnostic = "component_unchanged"
               /\ plan[at].mode # "reuse" /\ plan[at].name = "grype" =>
                      e.status = "not_run" /\ e.diagnostic = "unsupported_mode"
               /\ plan[at].mode # "reuse" /\ plan[at].name # "grype" =>
                      e.status = "complete" /\ e.diagnostic = "none",
           ~cancelled /\ Runnable(plan[at]) =>
               \/ e.status = "complete" /\ e.diagnostic = "none"
               \/ e.status = "failed" /\ e.diagnostic # "none" /\ e.count = 0,
           cancelled' = (cancelled \/ e.diagnostic \in {"cancelled", "execution_limit_exceeded"})
    PROVE  Verdicts!Decide
<1>1. /\ entries \in Seq(Entries) /\ Len(entries) + 1 = at /\ Len(entries) \in Nat
      /\ Len(plan) \in Nat
  BY PlanFacts DEF TypeOK, Position
<1>2. /\ entries' = Append(entries, e) /\ plan' = plan
      /\ Len(entries') = Len(entries) + 1 /\ entries'[Len(entries) + 1] = e
  BY <1>1 DEF Appends
<1>3. Len(entries) < Len(plan) /\ ~(target = "full") /\ (target = "full")' = (target = "full")
  BY <1>1
<1>4. CASE cancelled
  BY <1>1, <1>2, <1>3, <1>4
     DEF Verdicts!Decide, Verdicts!Cancelled, Verdicts!Empty, Verdicts!StopDiagnostics
<1>5. CASE ~cancelled /\ ~Runnable(plan[at])
  <2>1. Verdicts!Skipped(plan[at], e) /\ Verdicts!Empty(e)
    BY <1>5 DEF Verdicts!Skipped, Verdicts!Empty
  <2>. QED
    BY <1>1, <1>2, <1>3, <1>5, <2>1 DEF Verdicts!Decide, Verdicts!StopDiagnostics
<1>6. CASE ~cancelled /\ Runnable(plan[at])
  BY <1>1, <1>2, <1>3, <1>6
     DEF Verdicts!Decide, Verdicts!Answered, Verdicts!Empty, Verdicts!StopDiagnostics
<1>. QED  BY <1>4, <1>5, <1>6 DEF TypeOK

LEMMA RefinementNext ==
    TypeOK /\ Position /\ Faithful /\ Sealed /\ WithinLimit /\ [Next]_vars
        => WithinLimit' /\ [Verdicts!Next]_(Verdicts!avars)
<1>. SUFFICES ASSUME TypeOK, Position, Faithful, Sealed, WithinLimit, [Next]_vars
              PROVE  WithinLimit' /\ [Verdicts!Next]_(Verdicts!avars)
  OBVIOUS
<1>. USE DEF totals, files
<1>. DEFINE Goal == WithinLimit' /\ [Verdicts!Next]_(Verdicts!avars)
<1>a. /\ Len(plan) \in Nat /\ Len(entries) \in Nat /\ findings \in Nat /\ bytes \in Nat
      /\ entries \in Seq(Entries) /\ MaxFindings \in Nat /\ DOMAIN plan = 1..Len(plan)
      /\ \A i \in DOMAIN plan : plan[i] \in PlannedComponents
  BY PlanFacts, ConstantsAssumption DEF TypeOK
<1>b. pc = "collect" /\ at <= Len(plan) =>
         /\ at \in DOMAIN plan /\ plan[at] \in PlannedComponents /\ result[at] \in Results
         /\ target = "old"
  BY <1>a DEF Position, Sealed, TypeOK
<1>c. ASSUME plan' = plan, entries' = entries, findings' = findings, cancelled' = cancelled,
             target' = target
      PROVE  Goal
  BY <1>c DEF WithinLimit, Verdicts!avars
<1>1. CASE RecordUnasked
  <2>. DEFINE e == UnaskedEntry(plan[at])
  <2>1. /\ Appends(e) /\ pc = "collect" /\ at <= Len(plan) /\ target' = target
        /\ findings' = findings /\ cancelled' = cancelled /\ (cancelled \/ ~Runnable(plan[at]))
    BY <1>1 DEF RecordUnasked, Appends
  <2>2. e \in Entries
    BY <2>1, <1>b, EntryTypes
  <2>3. e.name = plan[at].name /\ e.count = 0
    BY DEF UnaskedEntry, EntryFor
  <2>4. cancelled => e.status = "failed" /\ e.diagnostic = "cancelled"
    BY DEF UnaskedEntry, EntryFor
  <2>5. ~cancelled /\ ~Runnable(plan[at]) =>
          /\ plan[at].mode = "reuse" => e.status = "not_run" /\ e.diagnostic = "component_unchanged"
          /\ plan[at].mode # "reuse" /\ plan[at].name = "grype" =>
                 e.status = "not_run" /\ e.diagnostic = "unsupported_mode"
          /\ plan[at].mode # "reuse" /\ plan[at].name # "grype" =>
                 e.status = "complete" /\ e.diagnostic = "none"
    BY <2>1, <1>b DEF UnaskedEntry, EntryFor, PartialComponents, PlannedComponents, Names
  <2>6. cancelled' = (cancelled \/ e.diagnostic \in {"cancelled", "execution_limit_exceeded"})
    <3>1. cancelled \in BOOLEAN
      BY DEF TypeOK
    <3>2. ~cancelled => e.diagnostic \notin {"cancelled", "execution_limit_exceeded"}
      BY DEF UnaskedEntry, EntryFor
    <3>. QED  BY <2>1, <3>1, <3>2
  <2>. HIDE DEF e
  <2>7. findings' = findings + e.count /\ findings' <= MaxFindings
    BY <2>1, <2>3, <1>a DEF WithinLimit
  <2>8. Verdicts!Decide
    BY <2>1, <2>2, <2>3, <2>4, <2>5, <2>6, <2>7, <1>b, EntryIsVerdict
  <2>. QED  BY <2>7, <2>8 DEF WithinLimit, Verdicts!Next
<1>2. CASE CollectComplete
  <2>. DEFINE e == CompleteEntry(plan[at], result[at])
  <2>1. /\ Appends(e) /\ pc = "collect" /\ at <= Len(plan) /\ target' = target
        /\ Runnable(plan[at]) /\ ~cancelled /\ cancelled' = cancelled
        /\ findings' = findings + e.count
        /\ job[at] = "done" /\ Diagnose(plan[at], result[at]) = "none"
    BY <1>2 DEF CollectComplete, Asking, Appends, CompleteEntry
  <2>2. e \in Entries /\ e.name = plan[at].name /\ e.status = "complete" /\ e.diagnostic = "none"
    BY <2>1, <1>b, EntryTypes DEF CompleteEntry
  <2>3. findings + result[at].count <= MaxFindings
    BY <2>1, <1>a, <1>b, NoDiagnosis DEF Faithful, AnswersKnown
  <2>4. findings' <= MaxFindings
    BY <2>1, <2>3 DEF CompleteEntry
  <2>. HIDE DEF e
  <2>5. cancelled' = (cancelled \/ e.diagnostic \in {"cancelled", "execution_limit_exceeded"})
    <3>1. cancelled \in BOOLEAN /\ ~cancelled /\ cancelled' = cancelled
      BY <2>1 DEF TypeOK
    <3>2. e.diagnostic \notin {"cancelled", "execution_limit_exceeded"}
      BY <2>2
    <3>. QED  BY <3>1, <3>2, Zenon
  <2>6. Verdicts!Decide
    BY <2>1, <2>2, <2>4, <2>5, <1>b, EntryIsVerdict, Zenon
  <2>. QED  BY <2>4, <2>6 DEF WithinLimit, Verdicts!Next
<1>3. CASE CollectFailed
  <2>. DEFINE d == Diagnose(plan[at], result[at])
              e == EntryFor(plan[at], "failed", d)
  <2>1. /\ Appends(e) /\ pc = "collect" /\ at <= Len(plan) /\ target' = target
        /\ Runnable(plan[at]) /\ ~cancelled /\ findings' = findings
        /\ d # "none" /\ cancelled' = (d = "execution_limit_exceeded")
    BY <1>3 DEF CollectFailed, Asking, Appends
  <2>2. d \in DiagnosticCodes
    BY <2>1, <1>b, EntryTypes
  <2>3. d # "cancelled"
    <3>1. d \in {result[at].code, "execution_limit_exceeded", "invalid_output",
                 "metadata_limit_exceeded", "finding_ownership_mismatch", "finding_scope_mismatch",
                 "duplicate_finding", "findings_limit_exceeded", "none"}
      BY DEF Diagnose
    <3>2. result[at].code # "cancelled"
      BY <2>1, <1>b DEF Results, ScannerCodes
    <3>. QED  BY <3>1, <3>2
  <2>. HIDE DEF d
  <2>4. /\ e \in Entries /\ e.name = plan[at].name /\ e.status = "failed" /\ e.diagnostic = d
        /\ e.count = 0
    BY <2>1, <2>2, <1>b, EntryTypes DEF EntryFor
  <2>. HIDE DEF e
  <2>5. findings' = findings + e.count /\ findings' <= MaxFindings
    BY <2>1, <2>4, <1>a DEF WithinLimit
  <2>6. Verdicts!Decide
    BY <2>1, <2>3, <2>4, <2>5, <1>b, EntryIsVerdict
  <2>. QED  BY <2>5, <2>6 DEF WithinLimit, Verdicts!Next
<1>4. CASE Interrupt
  <2>. DEFINE e == EntryFor(plan[at], "failed", "cancelled")
  <2>1. /\ Appends(e) /\ pc = "collect" /\ at <= Len(plan) /\ target' = target
        /\ Runnable(plan[at]) /\ ~cancelled /\ findings' = findings /\ cancelled'
    BY <1>4 DEF Interrupt, Asking, Appends
  <2>2. /\ e \in Entries /\ e.name = plan[at].name /\ e.status = "failed"
        /\ e.diagnostic = "cancelled" /\ e.count = 0
    BY <2>1, <1>b, EntryTypes, ResultTypes DEF EntryFor, DiagnosticCodes
  <2>3. cancelled' = TRUE
    BY <1>4 DEF Interrupt
  <2>. HIDE DEF e
  <2>4. findings' = findings + e.count /\ findings' <= MaxFindings
    BY <2>1, <2>2, <1>a DEF WithinLimit
  <2>5. Verdicts!Decide
    BY <2>1, <2>2, <2>3, <2>4, <1>b, EntryIsVerdict
  <2>. QED  BY <2>4, <2>5 DEF WithinLimit, Verdicts!Next
<1>5. CASE Replace
  <2>1. /\ pc = "replace" /\ target' = "full" /\ target = "old"
        /\ UNCHANGED <<plan, entries, findings, cancelled>>
        /\ ValidateResultEnvelope(plan, entries)
    BY <1>5 DEF Replace, Sealed
  <2>2. Len(entries) = Len(plan) /\ \A i \in DOMAIN entries : EntryAccepted(plan[i], entries[i])
    BY <2>1 DEF ValidateResultEnvelope
  <2>3. \A i \in DOMAIN plan : plan[i].mode = "reuse" => entries[i].status = "not_run"
    BY <2>2, <1>a DEF EntryAccepted
  <2>4. Verdicts!Publish
    BY <2>1, <2>2, <2>3 DEF Verdicts!Publish
  <2>. QED  BY <2>1, <2>4 DEF WithinLimit, Verdicts!Next
<1>6. CASE Admit \/ Submit \/ CancelEnd \/ LeavePool \/ CancelNext \/ AbortEnd
  BY <1>6, <1>c DEF Admit, Submit, CancelEnd, LeavePool, CancelNext, AbortEnd
<1>7. CASE SealAccepted \/ SealRefused \/ SealAfterClockStep \/ OpenTemp \/ FlushTemp \/ WriteFails
  BY <1>7, <1>c DEF SealAccepted, SealRefused, SealAfterClockStep, OpenTemp, FlushTemp, WriteFails
<1>8. CASE RefusePlan \/ Expire \/ Report \/ ReportFails \/ Abort \/ Kill
  BY <1>8, <1>c DEF RefusePlan, Expire, Report, ReportFails, Abort, Kill
<1>9. CASE Workers
  BY <1>9, <1>c DEF Workers, StartScan, StartPastDeadline, Finish
<1>10. CASE UNCHANGED vars
  BY <1>10, <1>c DEF vars
<1>. HIDE DEF Goal
<1>. QED
  BY <1>1, <1>2, <1>3, <1>4, <1>5, <1>6, <1>7, <1>8, <1>9, <1>10 DEF Next, Main, Environment, Goal

\* Every run of the pool is a run of the sequential contract: one verdict per
\* component, in plan order, none revised, all cancelled after a stop, the findings
\* within the limit, and only a complete answer published.
THEOREM Refinement == Spec => ImplementsVerdicts
<1>1. Init => Verdicts!Init
  BY DEF Init, Verdicts!Init
<1>. QED
  BY <1>1, TypeInit, TypeNext, PositionInit, PositionNext, FaithfulInit, FaithfulNext,
     SealedInit, SealedNext, WithinLimitInit, RefinementNext, PTL
     DEF Spec, ImplementsVerdicts, Verdicts!Spec
=============================================================================
