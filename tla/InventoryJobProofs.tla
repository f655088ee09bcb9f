-------------------------- MODULE InventoryJobProofs --------------------------
(***************************************************************************)
(* For both controllers, any sizes, limits and charges, and any number of  *)
(* changes by others: a finalized job is whole, its receipt is bound to    *)
(* the control record, no consumer outlives its stage, and a refusal is    *)
(* the last word. The invariant says what each place of the job knows.     *)
(***************************************************************************)
EXTENDS InventoryJob, TLAPS

Essential == {"composition", "inventory", "export"}

Produced == \A s \in Essential : stages[s] = "succeeded"

NoFileOpen == \A f \in Names : files[f] # "open"

\* What a finalization stands for, the control record apart.
Whole ==
    /\ Produced /\ stages["finalization"] = "succeeded"
    /\ budget = "none" /\ store = "none" /\ NoFileOpen /\ child = "none"
    /\ \A t \in Held(kind) \ {"control"} : atRest[t] = "intact"

\* What is intact now was intact when the last stage ended.
ChangesStay == \A t \in Held(kind) : touched[t] = "intact" => atRest[t] = "intact"

Outset ==
    pc = "admit" => /\ at = 1 /\ budget = "none" /\ store = "none" /\ child = "none"
                    /\ \A s \in Stages : stages[s] = "not_run"

\* The writers of the operation have their files.
Attempted == \A f \in OpFiles : files[f] # "absent"

\* A stage goes on only while nothing has refused and nothing has failed.
AtWork ==
    pc = "work" =>
        /\ at \in 1..Len(Program(kind))
        /\ budget = "none" /\ store = "none"
        /\ \A s \in Stages : stages[s] # "failed"
        /\ \A i \in 1..at - 1 :
              Program(kind)[i].stage = Op.stage \/ stages[Program(kind)[i].stage] = "succeeded"
        /\ child # "stuck" /\ (child # "none" => Op.do = "capture" /\ Attempted)

\* The closing checks passed so far have found what they look at as it was.
Passed(c) ==
    /\ budget = "none"
    /\ c.depth = "content" => atRest[c.of] = "intact"
    /\ c.of = "output" => store = "none" /\ NoFileOpen

AtAttest ==
    pc = "attest" =>
        /\ at \in 1..Len(JobChecks(kind)) + 1
        /\ Produced /\ ~Failed /\ child = "none"
        /\ \A j \in 1..at - 1 : Passed(JobChecks(kind)[j])

AtClose ==
    pc \in {"recheck", "seal", "deliver"} =>
        /\ at \in 1..3 /\ (pc = "recheck" => at # 3)
        /\ child \in {"none", "stuck"} /\ (child = "stuck" => Failed)
        /\ Failed \/ Whole
        /\ kind = "dependency" /\ pc # "recheck" => atRest["control"] = "intact"

AtEnd ==
    /\ pc # "done" => exit = "none"
    /\ pc = "done" => /\ child \in {"none", "stuck"} /\ (child = "stuck" => Failed)
                      /\ exit = "finalized" => Whole /\ ~Failed
                      /\ kind = "dependency" /\ exit \in {"finalized", "unfinalized"} =>
                            atRest["control"] = "intact"

Knowledge == ChangesStay /\ Outset /\ AtWork /\ AtAttest /\ AtClose /\ AtEnd

JobInv == TypeOK /\ Knowledge

-----------------------------------------------------------------------------
(* The programs and the closing checks of the two controllers.             *)

LEMMA DependencyFacts ==
    LET P == DependencyProgram
    IN  /\ Len(P) = 14
        /\ \A i \in 1..14 : P[i].stage \in Stages \ {"matching"}
        /\ P[7].stage = "composition" /\ P[8].stage = "inventory" /\ P[9].stage = "export"
BY DEF DependencyProgram, Operation, Stages

LEMMA DirectFacts ==
    LET P == DirectProgram
    IN  /\ Len(P) = 8
        /\ \A i \in 1..8 : P[i].stage \in Stages
        /\ P[1].stage = "composition" /\ P[2].stage = "inventory" /\ P[3].stage = "export"
        /\ \A i \in 1..8 : P[i].stage = "matching" => i \in 7..8
        /\ \A i \in 1..8 : P[i].do \notin {"capture"}
BY DEF DirectProgram, Operation, Stages

LEMMA Programs ==
    ASSUME kind \in Kinds
    PROVE  LET P == Program(kind)
           IN  /\ Len(P) \in {8, 14} /\ kind \in {"dependency", "direct"}
               /\ \A i \in 1..Len(P) : P[i].stage \in Stages
               /\ \A s \in Essential : \E i \in 1..Len(P) : P[i].stage = s
               /\ \A i \in 1..Len(P) : P[i].stage = "matching" =>
                     /\ P[i].do # "capture"
                     /\ \A s \in Essential : \E j \in 1..i - 1 : P[j].stage = s
<1>. DEFINE P == Program(kind)
<1>. HIDE DEF P
<1>1. kind \in {"dependency", "direct"}
  BY ConstantsAssumption
<1>. SUFFICES /\ Len(P) \in {8, 14}
              /\ \A i \in 1..Len(P) : P[i].stage \in Stages
              /\ \A s \in Essential : \E i \in 1..Len(P) : P[i].stage = s
              /\ \A i \in 1..Len(P) : P[i].stage = "matching" =>
                    /\ P[i].do # "capture"
                    /\ \A s \in Essential : \E j \in 1..i - 1 : P[j].stage = s
  BY <1>1, Zenon DEF P
<1>2. CASE kind = "dependency"
  <2>1. P = DependencyProgram
    BY <1>2 DEF Program, P
  <2>2. /\ Len(P) = 14
        /\ \A i \in 1..14 : P[i].stage \in Stages /\ P[i].stage # "matching"
        /\ P[7].stage = "composition" /\ P[8].stage = "inventory" /\ P[9].stage = "export"
    BY <2>1, DependencyFacts
  <2>3. \A s \in Essential : \E i \in 1..14 : P[i].stage = s
    BY <2>2 DEF Essential
  <2>. QED  BY <2>2, <2>3
<1>3. CASE kind = "direct"
  <2>1. P = DirectProgram
    BY <1>3 DEF Program, P
  <2>2. /\ Len(P) = 8
        /\ \A i \in 1..8 : P[i].stage \in Stages /\ P[i].do # "capture"
        /\ P[1].stage = "composition" /\ P[2].stage = "inventory" /\ P[3].stage = "export"
        /\ \A i \in 1..8 : P[i].stage = "matching" => i \in 7..8
    BY <2>1, DirectFacts
  <2>3. \A s \in Essential : \E i \in 1..3 : P[i].stage = s
    BY <2>2 DEF Essential
  <2>4. \A i \in 7..8 : 1..3 \subseteq 1..i - 1
    OBVIOUS
  <2>5. 1..3 \subseteq 1..8
    OBVIOUS
  <2>6. \A s \in Essential : \E i \in 1..8 : P[i].stage = s
    BY <2>3, <2>5, Zenon
  <2>7. \A i \in 1..8 : P[i].stage = "matching" =>
           \A s \in Essential : \E j \in 1..i - 1 : P[j].stage = s
    BY <2>2, <2>3, <2>4, Zenon
  <2>. QED  BY <2>2, <2>6, <2>7
<1>. QED  BY <1>1, <1>2, <1>3

LEMMA Checks ==
    ASSUME kind \in Kinds
    PROVE  /\ Len(JobChecks(kind)) \in 2..4
           /\ \A j \in 1..Len(JobChecks(kind)) : JobChecks(kind)[j].of \in Held(kind)
           /\ \A t \in Held(kind) \ {"control"} : \E j \in 1..Len(JobChecks(kind)) :
                 JobChecks(kind)[j].of = t /\ JobChecks(kind)[j].depth = "content"
           /\ "output" \in Held(kind) /\ "source" \in Held(kind)
           /\ kind = "dependency" => "control" \in Held(kind) /\ "runtime" \in Held(kind)
<1>1. kind \in {"dependency", "direct"}
  BY ConstantsAssumption
<1>2. CASE kind = "dependency"
  BY <1>2 DEF JobChecks, Check, Held
<1>3. CASE kind = "direct"
  BY <1>3 DEF JobChecks, Check, Held
<1>. QED  BY <1>1, <1>2, <1>3

-----------------------------------------------------------------------------
(* The ledgers: a refusal recorded is the answer of every later check.     *)

LEMMA BudgetKeepsReason ==
    ASSUME TypeOK, NEW n \in Charges, Spend(n)
    PROVE  /\ budget' \in Reasons /\ consumed' \in Nat
           /\ budget # "none" => budget' = budget
           /\ BudgetAfter(n) = "none" => budget' = "none" /\ budget = "none"
<1>1. n \in Nat /\ consumed \in Nat /\ budget \in Reasons /\ BudgetAfter(n) \in Reasons
  BY ConstantsAssumption DEF TypeOK, BudgetAfter, Reasons
<1>. QED  BY <1>1 DEF Spend, BudgetAfter

LEMMA StoreKeepsReason ==
    ASSUME TypeOK, NEW n \in Charges
    PROVE  /\ StoreAfter(n) \in Reasons /\ Validated(n) \in Reasons
           /\ store # "none" => StoreAfter(n) = store /\ Validated(n) = store
           /\ StoreAfter(n) = "none" => store = "none" /\ BudgetAfter(n) = "none"
           /\ Validated(n) = "none" => StoreAfter(n) = "none" /\ NoFileOpen /\ touched["output"] # "rewritten"
<1>1. store \in Reasons /\ BudgetAfter(n) \in Reasons
  BY DEF TypeOK, BudgetAfter, Reasons
<1>. QED  BY <1>1 DEF StoreAfter, Validated, NoFileOpen, Reasons

LEMMA JobInitially == Init => JobInv
<1>. SUFFICES ASSUME Init PROVE JobInv
  OBVIOUS
<1>1. kind \in Kinds /\ Len(Program(kind)) \in {8, 14} /\ JobBytes \in Nat
  BY Programs, ConstantsAssumption DEF Init
<1>2. TypeOK
  <2>1. touched \in [Held(kind) -> Conditions] /\ atRest \in [Held(kind) -> Conditions]
    BY DEF Init, Conditions
  <2>2. 0 \in 0..JobBytes /\ 1 \in 1..Len(Program(kind)) + 1 /\ "none" \in Reasons
    BY <1>1 DEF Reasons
  <2>. QED  BY <1>1, <2>1, <2>2 DEF Init, TypeOK
<1>3. Knowledge
  BY DEF Init, Knowledge, ChangesStay, Outset, AtWork, AtAttest, AtClose, AtEnd
<1>. QED  BY <1>2, <1>3 DEF JobInv

-----------------------------------------------------------------------------
(* The three ways an operation of a stage ends: the stage goes on, it      *)
(* succeeds, or it fails.                                                  *)

LEMMA GoingOn ==
    ASSUME JobInv, pc = "work", TypeOK', UNCHANGED <<kind, pc, at, stages, touched, atRest, exit>>,
           budget' = "none", store' = "none", child' # "stuck", child' # "none" => Op.do = "capture" /\ \A f \in OpFiles : files'[f] # "absent"
    PROVE  JobInv'
<1>1. ChangesStay' /\ AtEnd' /\ Outset'
  BY DEF JobInv, Knowledge, ChangesStay, AtEnd, Outset
<1>2. AtWork'
  BY DEF JobInv, Knowledge, AtWork, Op, OpFiles, Attempted
<1>3. AtAttest' /\ AtClose'
  BY DEF AtAttest, AtClose
<1>. QED  BY <1>1, <1>2, <1>3 DEF JobInv, Knowledge

LEMMA AdvanceType ==
    ASSUME JobInv, pc = "work", Advance, kind' = kind
    PROVE  /\ at' \in 1..Len(Program(kind)) + 1 /\ pc' \in {"work", "attest"}
           /\ stages' \in [Stages -> {"not_run", "succeeded", "failed"}]
           /\ atRest' \in [Held(kind) -> Conditions]
<1>1. TypeOK /\ at \in 1..Len(Program(kind)) /\ Len(Program(kind)) \in {8, 14}
  BY Programs DEF JobInv, Knowledge, AtWork, TypeOK
<1>2. stages' \in [Stages -> {"not_run", "succeeded", "failed"}]
  <2>1. stages' = stages \/ stages' = [stages EXCEPT ![Op.stage] = "succeeded"]
    BY DEF Advance
  <2>. QED  BY <1>1, <2>1 DEF TypeOK
<1>3. atRest' \in [Held(kind) -> Conditions]
  BY <1>1 DEF Advance, TypeOK
<1>4. at' \in 1..Len(Program(kind)) + 1
  BY <1>1 DEF Advance, Last
<1>5. pc' \in {"work", "attest"}
  BY DEF Advance
<1>. QED  BY <1>2, <1>3, <1>4, <1>5

\* The stage the operation belongs to is succeeded once its last operation is.
LEMMA StagesPassed ==
    ASSUME JobInv, pc = "work", Advance, kind' = kind
    PROVE  /\ \A s \in Stages : stages'[s] # "failed"
           /\ \A i \in 1..at :
                 \/ ~Last /\ Program(kind)[i].stage = Program(kind)[at + 1].stage
                 \/ stages'[Program(kind)[i].stage] = "succeeded"
<1>. DEFINE P == Program(kind)
<1>1. /\ at \in 1..Len(P) /\ Len(P) \in {8, 14} /\ \A i \in 1..Len(P) : P[i].stage \in Stages
      /\ stages \in [Stages -> {"not_run", "succeeded", "failed"}]
      /\ \A s \in Stages : stages[s] # "failed"
      /\ \A i \in 1..at - 1 : P[i].stage = P[at].stage \/ stages[P[i].stage] = "succeeded"
  BY Programs DEF JobInv, Knowledge, AtWork, TypeOK, Op
<1>2. stages' = IF Last \/ P[at + 1].stage # P[at].stage THEN [stages EXCEPT ![P[at].stage] = "succeeded"]
                ELSE stages
  BY DEF Advance, Op
<1>. HIDE DEF P
<1>3. P[at].stage \in Stages /\ \A i \in 1..at : P[i].stage \in Stages
  BY <1>1
<1>4. \A s \in Stages : stages'[s] # "failed"
  BY <1>1, <1>2, <1>3
<1>5. ASSUME NEW i \in 1..at
      PROVE  (~Last /\ P[i].stage = P[at + 1].stage) \/ stages'[P[i].stage] = "succeeded"
  <2>1. CASE Last \/ P[at + 1].stage # P[at].stage
    <3>1. stages' = [stages EXCEPT ![P[at].stage] = "succeeded"]
      BY <1>2, <2>1
    <3>2. CASE P[i].stage = P[at].stage
      BY <1>1, <1>3, <3>1, <3>2
    <3>3. CASE P[i].stage # P[at].stage
      <4>1. i \in 1..at - 1
        BY <1>1, <3>3
      <4>. QED  BY <1>1, <1>3, <3>1, <3>3, <4>1
    <3>. QED  BY <3>2, <3>3
  <2>2. CASE ~Last /\ P[at + 1].stage = P[at].stage
    <3>1. stages' = stages
      BY <1>2, <2>2
    <3>2. CASE P[i].stage = P[at].stage
      BY <2>2, <3>2
    <3>3. CASE P[i].stage # P[at].stage
      <4>1. i \in 1..at - 1
        BY <1>1, <3>3
      <4>. QED  BY <1>1, <3>1, <3>3, <4>1
    <3>. QED  BY <3>2, <3>3
  <2>. QED  BY <2>1, <2>2
<1>. QED  BY <1>4, <1>5 DEF P

LEMMA Succeeding ==
    ASSUME JobInv, pc = "work", TypeOK', Advance, UNCHANGED <<kind, touched, exit>>,
           budget' = "none", store' = "none", child' = "none"
    PROVE  JobInv'
<1>1. /\ at \in 1..Len(Program(kind)) /\ Len(Program(kind)) \in {8, 14} /\ TypeOK
      /\ \A s \in Essential : \E i \in 1..Len(Program(kind)) : Program(kind)[i].stage = s
      /\ pc' \in {"work", "attest"}
  BY Programs, AdvanceType DEF JobInv, Knowledge, AtWork, TypeOK
<1>2. ChangesStay' /\ AtEnd' /\ Outset'
  BY <1>1 DEF JobInv, Knowledge, ChangesStay, AtEnd, Outset, Advance
<1>3. AtWork'
  <2>. SUFFICES ASSUME pc' = "work" PROVE AtWork'
    BY DEF AtWork
  <2>1. ~Last /\ at' = at + 1
    BY DEF Advance
  <2>2. at' \in 1..Len(Program(kind)) /\ at' - 1 = at
    BY <1>1, <2>1 DEF Last
  <2>. QED  BY <2>1, <2>2, StagesPassed DEF AtWork, Op
<1>4. AtAttest'
  <2>. SUFFICES ASSUME pc' = "attest" PROVE AtAttest'
    BY DEF AtAttest
  <2>1. Last /\ at' = 1
    BY DEF Advance
  <2>2. \A s \in Essential : stages'[s] = "succeeded"
    BY <1>1, <2>1, StagesPassed DEF Last
  <2>3. ~Failed'
    BY StagesPassed DEF Failed
  <2>4. Len(JobChecks(kind)) \in 2..4
    BY <1>1, Checks DEF TypeOK
  <2>. QED  BY <2>1, <2>2, <2>3, <2>4 DEF AtAttest, Produced
<1>5. AtClose'
  BY <1>1 DEF AtClose
<1>. QED  BY <1>2, <1>3, <1>4, <1>5 DEF JobInv, Knowledge

LEMMA StageFailsType ==
    ASSUME JobInv, pc = "work", StageFails, kind' = kind
    PROVE  /\ at' \in 1..Len(Program(kind)) + 1 /\ pc' \in {"attest", "recheck", "deliver"}
           /\ stages' \in [Stages -> {"not_run", "succeeded", "failed"}]
           /\ atRest' \in [Held(kind) -> Conditions]
<1>1. TypeOK /\ Len(Program(kind)) \in {8, 14}
  BY Programs DEF JobInv, TypeOK
<1>2. stages' \in [Stages -> {"not_run", "succeeded", "failed"}]
  <2>1. stages' = [stages EXCEPT ![Op.stage] = "failed"]
    BY DEF StageFails
  <2>. QED  BY <1>1, <2>1 DEF TypeOK
<1>3. atRest' \in [Held(kind) -> Conditions]
  BY <1>1 DEF StageFails, TypeOK
<1>4. at' \in 1..Len(Program(kind)) + 1
  BY <1>1 DEF StageFails
<1>5. pc' \in {"attest", "recheck", "deliver"}
  BY DEF StageFails, AfterJob
<1>. QED  BY <1>2, <1>3, <1>4, <1>5

LEMMA Failing ==
    ASSUME JobInv, pc = "work", TypeOK', StageFails, UNCHANGED <<kind, touched, exit>>,
           child' \in {"none", "stuck"}, child' = "stuck" => Op.do = "capture"
    PROVE  JobInv'
<1>. DEFINE P == Program(kind)
<1>1. /\ at \in 1..Len(P) /\ TypeOK /\ Op = P[at] /\ Op.stage \in Stages /\ kind \in {"dependency", "direct"}
      /\ Op.stage = "matching" => /\ Op.do # "capture"
                                  /\ \A s \in Essential : \E j \in 1..at - 1 : P[j].stage = s
  BY Programs DEF JobInv, Knowledge, AtWork, TypeOK, Op
<1>2. pc' \in {"attest", "recheck", "deliver"} /\ at' = 1 /\ atRest' = touched
      /\ stages' = [stages EXCEPT ![Op.stage] = "failed"]
      /\ stages' \in [Stages -> {"not_run", "succeeded", "failed"}]
  BY StageFailsType DEF StageFails
<1>3. ChangesStay' /\ AtEnd' /\ Outset' /\ AtWork'
  BY <1>2 DEF JobInv, Knowledge, ChangesStay, AtEnd, Outset, AtWork
<1>4. AtAttest'
  <2>. SUFFICES ASSUME pc' = "attest" PROVE AtAttest'
    BY DEF AtAttest
  <2>1. Op.stage = "matching"
    BY <1>1 DEF StageFails, AfterJob
  <2>2. /\ \A s \in Stages : stages[s] # "failed"
        /\ \A i \in 1..at - 1 : P[i].stage = Op.stage \/ stages[P[i].stage] = "succeeded"
    BY DEF JobInv, Knowledge, AtWork
  <2>3. \A s \in Essential : s # "matching" /\ s \in Stages
    BY DEF Essential, Stages
  <2>4. \A s \in Essential : stages[s] = "succeeded"
    BY <1>1, <2>1, <2>2, <2>3
  <2>5. \A s \in Essential : stages'[s] = "succeeded"
    BY <1>1, <1>2, <2>1, <2>3, <2>4 DEF TypeOK
  <2>6. ~Failed'
    BY <1>1, <1>2, <2>1, <2>2 DEF Failed, TypeOK
  <2>7. Len(JobChecks(kind)) \in 2..4
    BY <1>1, Checks DEF TypeOK
  <2>. QED  BY <1>1, <1>2, <2>1, <2>5, <2>6, <2>7 DEF AtAttest, Produced
<1>5. AtClose'
  <2>. SUFFICES ASSUME pc' \in {"recheck", "seal", "deliver"} PROVE AtClose'
    BY DEF AtClose
  <2>1. Op.stage # "matching" /\ pc' = (IF kind = "dependency" THEN "recheck" ELSE "deliver")
    BY <1>2 DEF StageFails, AfterJob
  <2>2. Failed'
    BY <1>1, <1>2, <2>1 DEF Failed, TypeOK
  <2>. QED  BY <1>1, <1>2, <2>1, <2>2 DEF AtClose
<1>. QED  BY <1>3, <1>4, <1>5 DEF JobInv, Knowledge

-----------------------------------------------------------------------------
(* Admission and the stages, action by action.                             *)

LEMMA AdmissionKeeps == ASSUME JobInv, Admit \/ RefuseAdmission PROVE JobInv'
<1>1. /\ TypeOK /\ pc = "admit" /\ pc' \in {"work", "done"}
      /\ UNCHANGED <<kind, at, stages, files, consumed, budget, store, child, holds, listening, overdue,
                     cancelled, touched, atRest>>
      /\ at = 1 /\ budget = "none" /\ store = "none" /\ child = "none"
      /\ \A s \in Stages : stages[s] = "not_run"
      /\ Len(Program(kind)) \in {8, 14}
  BY Programs DEF JobInv, Knowledge, Outset, TypeOK, Admit, RefuseAdmission, capture, world
<1>2. /\ pc' = "done" => exit' = "refused" /\ reserved' = reserved
      /\ pc' = "work" => exit' = exit /\ reserved' = ControlBytes /\ ControlBytes <= JobBytes
  BY DEF Admit, RefuseAdmission
<1>3. reserved' \in 0..JobBytes /\ exit' \in {"none", "finalized", "unfinalized", "refused"}
  BY <1>1, <1>2, ConstantsAssumption DEF TypeOK, ControlBytes
<1>4. TypeOK'
  BY <1>1, <1>3 DEF TypeOK
<1>5. Knowledge'
  BY <1>1, <1>2 DEF JobInv, Knowledge, ChangesStay, Outset, AtWork, AtAttest, AtClose, AtEnd
<1>. QED  BY <1>4, <1>5 DEF JobInv

LEMMA AnalyseKeeps == ASSUME JobInv, Analyse PROVE JobInv'
<1>1. /\ pc = "work" /\ Op.do # "capture" /\ Advance
      /\ UNCHANGED <<kind, files, reserved, store, child, holds, listening, overdue, cancelled, touched, exit>>
  BY DEF Analyse, InStage, capture, world
<1>2. PICK n \in Charges : BudgetAfter(n) = "none" /\ Spend(n)
  BY DEF Analyse, Obstructed
<1>3. TypeOK /\ store = "none" /\ child = "none"
  BY <1>1 DEF JobInv, Knowledge, AtWork
<1>4. budget' \in Reasons /\ consumed' \in Nat /\ budget' = "none"
  BY <1>2, <1>3, BudgetKeepsReason
<1>5. TypeOK'
  BY <1>1, <1>3, <1>4, AdvanceType DEF TypeOK
<1>. QED  BY <1>1, <1>3, <1>4, <1>5, Succeeding

LEMMA AnalysisRefusedKeeps == ASSUME JobInv, AnalysisRefused PROVE JobInv'
<1>1. /\ pc = "work" /\ Op.do # "capture" /\ StageFails
      /\ UNCHANGED <<kind, files, reserved, child, holds, listening, overdue, cancelled, touched, exit>>
  BY DEF AnalysisRefused, InStage, capture, world
<1>2. TypeOK /\ child = "none"
  BY <1>1 DEF JobInv, Knowledge, AtWork
<1>3. PICK n \in Charges :
        /\ Spend(n)
        /\ store' \in {store, "cancelled", Validated(n)}
  BY DEF AnalysisRefused
<1>4. budget' \in Reasons /\ consumed' \in Nat /\ store' \in Reasons
  BY <1>2, <1>3, BudgetKeepsReason, StoreKeepsReason DEF TypeOK, Reasons
<1>5. TypeOK'
  BY <1>1, <1>2, <1>4, StageFailsType DEF TypeOK
<1>. QED  BY <1>1, <1>2, <1>5, Failing

LEMMA SizesFit ==
    ASSUME TypeOK, NEW f \in Names, NEW size \in Maxima(f), Affordable(f, size)
    PROVE  reserved + size \in 0..JobBytes
<1>1. size \in Nat
  BY ConstantsAssumption DEF Maxima
<1>. QED  BY <1>1, ConstantsAssumption DEF TypeOK, Affordable

\* The files of an operation have names of their own.
LEMMA FilesAreNames ==
    ASSUME TypeOK, at \in 1..Len(Program(kind)), NEW i \in DOMAIN Op.files
    PROVE  Op.files[i] \in Names
<1>1. kind \in {"dependency", "direct"}
  BY Programs DEF TypeOK
<1>. DEFINE Singles == {<<f>> : f \in Names}
<1>. DEFINE Named(l) == \A j \in DOMAIN l : l[j] \in Names
<1>a. \A l \in Singles : Named(l)
  OBVIOUS
<1>b. \A f, g \in Names : Named(<<f, g>>)
  OBVIOUS
<1>c. Named(<<>>)
  OBVIOUS
<1>2. \A a \in 1..14 : Named(DependencyProgram[a].files)
  <2>1. \A a \in {1, 6, 7, 9, 12, 14} : DependencyProgram[a].files = <<>>
    BY DEF DependencyProgram, Operation
  <2>2. \A a \in {2, 3, 8, 10, 13} : DependencyProgram[a].files \in Singles
    <3>1. /\ DependencyProgram[2].files = <<"grype.yaml">>
          /\ DependencyProgram[3].files = <<"consumer-config.json">>
          /\ DependencyProgram[8].files = <<"inventory.json">>
          /\ DependencyProgram[10].files = <<"sbom.cdx.json">>
          /\ DependencyProgram[13].files = <<"recovery.json">>
      BY DEF DependencyProgram, Operation
    <3>2. {"grype.yaml", "consumer-config.json", "inventory.json", "sbom.cdx.json",
           "recovery.json"} \subseteq Names
      BY DEF Names
    <3>. QED  BY <3>1, <3>2
  <2>3. \A a \in {4, 5, 11} : Named(DependencyProgram[a].files)
    <3>1. /\ DependencyProgram[4].files = <<"grype-version.json", "grype-version.stderr">>
          /\ DependencyProgram[5].files = <<"grype-status.json", "grype-status.stderr">>
          /\ DependencyProgram[11].files = <<"grype.json", "grype.stderr">>
      BY DEF DependencyProgram, Operation
    <3>2. {"grype-version.json", "grype-version.stderr", "grype-status.json",
           "grype-status.stderr", "grype.json", "grype.stderr"} \subseteq Names
      BY DEF Names
    <3>. HIDE DEF Named
    <3>. QED  BY <1>b, <3>1, <3>2
  <2>4. 1..14 = {1, 6, 7, 9, 12, 14} \cup {2, 3, 8, 10, 13} \cup {4, 5, 11}
    OBVIOUS
  <2>. HIDE DEF Singles, Named
  <2>. QED  BY <1>a, <1>c, <2>1, <2>2, <2>3, <2>4
<1>3. \A a \in 1..8 : Named(DirectProgram[a].files)
  <2>1. \A a \in {1, 3, 5, 6, 7} : DirectProgram[a].files = <<>>
    BY DEF DirectProgram, Operation
  <2>2. \A a \in {2, 4, 8} : DirectProgram[a].files \in Singles
    BY DEF DirectProgram, Operation, Names
  <2>3. 1..8 = {1, 3, 5, 6, 7} \cup {2, 4, 8}
    OBVIOUS
  <2>. HIDE DEF Singles, Named
  <2>. QED  BY <1>a, <1>c, <2>1, <2>2, <2>3
<1>4. CASE kind = "dependency"
  BY <1>2, <1>4, DependencyFacts DEF Program, Op
<1>5. CASE kind = "direct"
  BY <1>3, <1>5, DirectFacts DEF Program, Op
<1>. QED  BY <1>1, <1>4, <1>5

LEMMA OpenWriterKeeps == ASSUME JobInv, OpenWriter PROVE JobInv'
<1>1. /\ pc = "work"
      /\ UNCHANGED <<kind, pc, at, stages, store, child, holds, listening, overdue, cancelled, touched, atRest, exit>>
  BY DEF OpenWriter, InStage, capture, world
<1>2. PICK i \in DOMAIN Op.files, n \in Charges, size \in UNION {Maxima(f) : f \in OpFiles} :
        /\ size \in Maxima(Op.files[i]) /\ StoreAfter(n) = "none" /\ Affordable(Op.files[i], size)
        /\ Spend(n) /\ reserved' = reserved + size
        /\ files' = [files EXCEPT ![Op.files[i]] = "open"]
  BY DEF OpenWriter
<1>3. /\ TypeOK /\ store = "none" /\ child # "stuck" /\ (child # "none" => Op.do = "capture")
      /\ at \in 1..Len(Program(kind))
  BY <1>1 DEF JobInv, Knowledge, AtWork
<1>4. budget' \in Reasons /\ consumed' \in Nat /\ budget' = "none"
  BY <1>2, <1>3, BudgetKeepsReason, StoreKeepsReason
<1>5. Op.files[i] \in Names
  BY <1>3, FilesAreNames
<1>6. reserved' \in 0..JobBytes
  BY <1>2, <1>3, <1>5, SizesFit
<1>7. TypeOK'
  BY <1>1, <1>2, <1>3, <1>4, <1>6 DEF TypeOK
<1>8. child # "none" => \A f \in OpFiles : f \in Names /\ files[f] # "absent" /\ files'[f] # "absent"
  <2>1. child # "none" => Attempted
    BY <1>1 DEF JobInv, Knowledge, AtWork
  <2>2. \A f \in OpFiles : f \in Names
    BY <1>3, FilesAreNames DEF OpFiles
  <2>. QED  BY <1>2, <1>3, <2>1, <2>2 DEF Attempted, TypeOK
<1>. QED  BY <1>1, <1>3, <1>4, <1>7, <1>8, GoingOn

LEMMA OpenRefusedKeeps == ASSUME JobInv, OpenRefused PROVE JobInv'
<1>1. /\ pc = "work" /\ StageFails
      /\ UNCHANGED <<kind, child, holds, listening, overdue, cancelled, touched, exit>>
  BY DEF OpenRefused, InStage, capture, world
<1>2. PICK i \in DOMAIN Op.files, n \in Charges, size \in UNION {Maxima(f) : f \in OpFiles} :
        /\ Turn(i, "absent") /\ size \in Maxima(Op.files[i]) /\ Spend(n)
        /\ store' \in {StoreAfter(n), "none", "cancelled", "retention", "write"}
        /\ \/ UNCHANGED <<files, reserved>>
           \/ /\ Affordable(Op.files[i], size) /\ reserved' = reserved + size
              /\ files' \in {files, [files EXCEPT ![Op.files[i]] = "open"]}
  BY DEF OpenRefused
<1>3. /\ TypeOK /\ at \in 1..Len(Program(kind))
      /\ child # "stuck"
  BY <1>1 DEF JobInv, Knowledge, AtWork
<1>4. budget' \in Reasons /\ consumed' \in Nat /\ store' \in Reasons
  BY <1>2, <1>3, BudgetKeepsReason, StoreKeepsReason DEF Reasons
<1>5. Op.files[i] \in Names
  BY <1>3, FilesAreNames
<1>6. reserved' \in 0..JobBytes
  BY <1>2, <1>3, <1>5, SizesFit DEF TypeOK
<1>7. files' \in [Names -> {"absent", "open", "complete"}]
  BY <1>2, <1>3 DEF TypeOK
<1>8. TypeOK'
  BY <1>1, <1>3, <1>4, <1>6, <1>7, StageFailsType DEF TypeOK
<1>9. child = "none"
  <2>1. files[Op.files[i]] = "absent" /\ Op.files[i] \in OpFiles
    BY <1>2 DEF Turn, OpFiles
  <2>. QED  BY <1>1, <2>1 DEF JobInv, Knowledge, AtWork, Attempted
<1>. QED  BY <1>1, <1>8, <1>9, Failing

LEMMA FinishWriterKeeps == ASSUME JobInv, FinishWriter PROVE JobInv'
<1>1. PICK i \in DOMAIN Op.files, n \in Charges :
        /\ Finishing(i) /\ StoreAfter(n) = "none" /\ Spend(n)
        /\ files' = [files EXCEPT ![Op.files[i]] = "complete"]
  BY DEF FinishWriter
<1>2. /\ pc = "work" /\ Op.do \in {"put", "capture"}
      /\ IF Op.do = "put" THEN Advance ELSE UNCHANGED <<pc, at, stages, atRest>>
      /\ UNCHANGED <<kind, reserved, store, child, holds, listening, overdue, cancelled, touched, exit>>
  BY <1>1 DEF FinishWriter, Finishing, InStage, capture, world
<1>3. /\ TypeOK /\ store = "none" /\ child # "stuck" /\ (child # "none" => Op.do = "capture" /\ Attempted)
      /\ at \in 1..Len(Program(kind))
  BY <1>2 DEF JobInv, Knowledge, AtWork
<1>4. budget' \in Reasons /\ consumed' \in Nat /\ budget' = "none"
  BY <1>1, <1>3, BudgetKeepsReason, StoreKeepsReason
<1>5. files' \in [Names -> {"absent", "open", "complete"}]
  BY <1>1, <1>3 DEF TypeOK
<1>6. CASE Op.do = "put"
  <2>1. TypeOK'
    BY <1>2, <1>3, <1>4, <1>5, <1>6, AdvanceType DEF TypeOK
  <2>. QED  BY <1>2, <1>3, <1>4, <1>6, <2>1, Succeeding
<1>7. CASE Op.do = "capture"
  <2>1. TypeOK'
    BY <1>2, <1>3, <1>4, <1>5, <1>7 DEF TypeOK
  <2>2. \A f \in OpFiles : f \in Names
    BY <1>3, FilesAreNames DEF OpFiles
  <2>3. child # "none" => \A f \in OpFiles : files'[f] # "absent"
    BY <1>1, <1>3, <2>2 DEF TypeOK, Attempted
  <2>. QED  BY <1>2, <1>3, <1>4, <1>7, <2>1, <2>3, GoingOn
<1>. QED  BY <1>2, <1>6, <1>7

LEMMA FinishRefusedKeeps == ASSUME JobInv, FinishRefused PROVE JobInv'
<1>1. PICK n \in Charges :
        /\ Spend(n)
        /\ store' = IF StoreAfter(n) # "none" THEN StoreAfter(n) ELSE "write"
  BY DEF FinishRefused
<1>2. /\ pc = "work" /\ StageFails /\ child' = "none"
      /\ UNCHANGED <<kind, files, reserved, holds, listening, overdue, cancelled, touched, exit>>
  BY DEF FinishRefused, Finishing, InStage, capture, world
<1>3. TypeOK
  BY DEF JobInv
<1>4. budget' \in Reasons /\ consumed' \in Nat /\ store' \in Reasons
  BY <1>1, <1>3, BudgetKeepsReason, StoreKeepsReason DEF Reasons
<1>5. TypeOK'
  BY <1>2, <1>3, <1>4, StageFailsType DEF TypeOK
<1>. QED  BY <1>2, <1>5, Failing

\* The steps of a capture that leave its operation open.
LEMMA CaptureGoesOn == ASSUME JobInv, Spawn \/ PipeEnds \/ Reap PROVE JobInv'
<1>1. /\ Capturing /\ pc = "work" /\ Op.do = "capture"
      /\ UNCHANGED <<kind, pc, at, stages, files, reserved, store, overdue, cancelled, touched, atRest, exit>>
      /\ child' \in {"running", "exited", "reaped"}
      /\ holds' \subseteq holds \cup {"out", "err"} /\ listening' \subseteq listening \cup {"out", "err"}
  BY DEF Spawn, PipeEnds, Reap, Capturing, InStage, capture, world
<1>2. TypeOK /\ budget = "none" /\ store = "none"
  BY <1>1 DEF JobInv, Knowledge, AtWork
<1>3. budget' \in Reasons /\ consumed' \in Nat /\ budget' = "none"
  <2>1. CASE Reap
    BY <1>2, <2>1 DEF Reap, TypeOK
  <2>2. CASE Spawn \/ PipeEnds
    <3>1. PICK n \in Charges : BudgetAfter(n) = "none" /\ Spend(n)
      BY <2>2 DEF Spawn, PipeEnds
    <3>. QED  BY <1>2, <3>1, BudgetKeepsReason
  <2>. QED  BY <2>1, <2>2
<1>4. \A f \in OpFiles : files'[f] # "absent"
  BY <1>1 DEF Capturing
<1>5. TypeOK'
  BY <1>1, <1>2, <1>3 DEF TypeOK
<1>. QED  BY <1>1, <1>2, <1>3, <1>4, <1>5, GoingOn

LEMMA CaptureFailsKeeps == ASSUME JobInv, CaptureFails \/ SettleRefused PROVE JobInv'
<1>1. /\ pc = "work" /\ StageFails /\ Op.do = "capture" /\ child' \in {"none", "stuck"}
      /\ holds' = {} /\ listening' \in {{}, listening}
      /\ UNCHANGED <<kind, files, reserved, overdue, cancelled, touched, exit>>
  BY DEF CaptureFails, SettleRefused, Capturing, Captured, InStage, world
<1>2. TypeOK
  BY DEF JobInv
<1>3. PICK n \in Charges :
        Spend(n) /\ store' \in {store, "cancelled", "capture", "retention", "none", Validated(n)}
  BY DEF CaptureFails, SettleRefused
<1>4. budget' \in Reasons /\ consumed' \in Nat /\ store' \in Reasons
  BY <1>2, <1>3, BudgetKeepsReason, StoreKeepsReason DEF Reasons, TypeOK
<1>5. TypeOK'
  BY <1>1, <1>2, <1>4, StageFailsType DEF TypeOK
<1>. QED  BY <1>1, <1>5, Failing

LEMMA SettleKeeps == ASSUME JobInv, Settle PROVE JobInv'
<1>1. /\ pc = "work" /\ Advance /\ child' = "none" /\ holds' = {}
      /\ UNCHANGED <<kind, files, reserved, store, listening, overdue, cancelled, touched, exit>>
  BY DEF Settle, Captured, InStage, world
<1>2. PICK n \in Charges : BudgetAfter(n) = "none" /\ Spend(n)
  BY DEF Settle
<1>3. TypeOK /\ store = "none"
  BY <1>1 DEF JobInv, Knowledge, AtWork
<1>4. budget' \in Reasons /\ consumed' \in Nat /\ budget' = "none"
  BY <1>2, <1>3, BudgetKeepsReason
<1>5. TypeOK'
  BY <1>1, <1>3, <1>4, AdvanceType DEF TypeOK
<1>. QED  BY <1>1, <1>3, <1>4, <1>5, Succeeding

-----------------------------------------------------------------------------
(* The closing checks.                                                     *)

LEMMA NextCheck ==
    ASSUME NEW a, NEW c \in 2..4, NEW p \in {8, 14}, a \in 1..c
    PROVE  /\ a + 1 \in 1..c + 1 /\ a + 1 \in 1..p + 1
           /\ \A j \in 1..(a + 1) - 1 : j \in 1..a - 1 \/ j = a
OBVIOUS

LEMMA NextEntryCheck ==
    ASSUME NEW a \in 1..3, NEW p \in {8, 14}
    PROVE  (IF a = 3 THEN 1 ELSE a + 1) \in 1..3 /\ (IF a = 3 THEN 1 ELSE a + 1) \in 1..p + 1
OBVIOUS

\* What a check finds unchanged was so when the last stage ended.
LEMMA CheckedMeansIntact ==
    ASSUME JobInv, NEW c, c.of \in Held(kind), c.depth = "content", ~Shows(c)
    PROVE  atRest[c.of] = "intact"
<1>1. touched[c.of] \in Conditions /\ touched[c.of] \notin {"moved", "rewritten"}
  BY DEF JobInv, TypeOK, Shows
<1>2. touched[c.of] = "intact"
  BY <1>1 DEF Conditions
<1>. QED  BY <1>2 DEF JobInv, Knowledge, ChangesStay

LEMMA AttestKeeps == ASSUME JobInv, Attest PROVE JobInv'
<1>. DEFINE C == JobChecks(kind)
<1>1. /\ pc = "attest" /\ at' = at + 1 /\ at <= Len(C)
      /\ UNCHANGED <<kind, pc, stages, files, reserved, store, child, holds, listening, overdue, cancelled,
                     touched, atRest, exit>>
  BY DEF Attest, capture, world
<1>2. PICK n \in Charges : ~Fault(C[at], n) /\ Spend(n)
  BY DEF Attest
<1>3. /\ TypeOK /\ at \in 1..Len(C) + 1 /\ Produced /\ ~Failed /\ child = "none"
      /\ \A j \in 1..at - 1 : Passed(C[j])
  BY <1>1 DEF JobInv, Knowledge, AtAttest
<1>4. /\ Len(C) \in 2..4 /\ at \in 1..Len(C) /\ Len(Program(kind)) \in {8, 14}
      /\ C[at].of \in Held(kind)
  BY <1>1, <1>3, Checks, Programs DEF TypeOK
<1>5. /\ budget' \in Reasons /\ consumed' \in Nat /\ budget' = "none"
      /\ C[at].of = "output" => store = "none" /\ NoFileOpen
      /\ C[at].depth = "content" => atRest[C[at].of] = "intact"
  BY <1>2, <1>3, <1>4, BudgetKeepsReason, StoreKeepsReason, CheckedMeansIntact DEF Fault
<1>6. at' \in 1..Len(C) + 1 /\ at' \in 1..Len(Program(kind)) + 1 /\ \A j \in 1..at' - 1 : j \in 1..at - 1 \/ j = at
  BY <1>1, <1>4, NextCheck
<1>7. TypeOK'
  BY <1>1, <1>3, <1>5, <1>6 DEF TypeOK
<1>. HIDE DEF C
<1>8. \A j \in 1..at' - 1 : Passed(C[j])'
  <2>. SUFFICES ASSUME NEW j \in 1..at' - 1
                PROVE  /\ C[j].depth = "content" => atRest[C[j].of] = "intact"
                       /\ C[j].of = "output" => store = "none" /\ NoFileOpen
    BY <1>1, <1>5 DEF Passed, NoFileOpen, C
  <2>. QED  BY <1>3, <1>5, <1>6 DEF Passed
<1>9. AtAttest'
  BY <1>1, <1>3, <1>6, <1>8 DEF AtAttest, Produced, Failed, C
<1>10. ChangesStay' /\ Outset' /\ AtWork' /\ AtClose' /\ AtEnd'
  BY <1>1 DEF JobInv, Knowledge, ChangesStay, Outset, AtWork, AtClose, AtEnd
<1>. QED  BY <1>7, <1>9, <1>10 DEF JobInv, Knowledge

LEMMA FinalizeKeeps == ASSUME JobInv, Finalize PROVE JobInv'
<1>. DEFINE C == JobChecks(kind)
<1>1. /\ pc = "attest" /\ at = Len(C) + 1 /\ at' = 1 /\ pc' \in {"recheck", "deliver"}
      /\ kind = "dependency" => pc' = "recheck"
      /\ stages' = [stages EXCEPT !["finalization"] = "succeeded"]
      /\ UNCHANGED <<kind, files, reserved, consumed, budget, store, child, holds, listening, overdue, cancelled,
                     touched, atRest, exit>>
  BY DEF Finalize, AfterJob, capture, world
<1>2. TypeOK /\ Produced /\ child = "none" /\ \A j \in 1..at - 1 : Passed(C[j])
  BY <1>1 DEF JobInv, Knowledge, AtAttest
<1>3. /\ Len(C) \in 2..4 /\ Len(Program(kind)) \in {8, 14} /\ "output" \in Held(kind)
      /\ \A t \in Held(kind) \ {"control"} : \E j \in 1..Len(C) : C[j].of = t /\ C[j].depth = "content"
  BY <1>2, Checks, Programs DEF TypeOK
<1>4. \A j \in 1..Len(C) : Passed(C[j])
  BY <1>1, <1>2, <1>3
<1>5. /\ budget = "none" /\ store = "none" /\ NoFileOpen
      /\ \A t \in Held(kind) \ {"control"} : atRest[t] = "intact"
  BY <1>3, <1>4 DEF Passed
<1>6. stages' \in [Stages -> {"not_run", "succeeded", "failed"}] /\ stages'["finalization"] = "succeeded"
      /\ \A s \in Essential : stages'[s] = "succeeded"
  BY <1>1, <1>2 DEF TypeOK, Produced, Essential, Stages
<1>7. Whole'
  BY <1>1, <1>2, <1>5, <1>6 DEF Whole, Produced, NoFileOpen
<1>8. TypeOK'
  BY <1>1, <1>2, <1>3, <1>6 DEF TypeOK
<1>9. Knowledge'
  BY <1>1, <1>2, <1>7 DEF JobInv, Knowledge, ChangesStay, Outset, AtWork, AtAttest, AtClose, AtEnd
<1>. QED  BY <1>8, <1>9 DEF JobInv

LEMMA AttestRefusedKeeps == ASSUME JobInv, AttestRefused PROVE JobInv'
<1>1. /\ pc = "attest" /\ at' = 1 /\ pc' \in {"recheck", "deliver"} /\ (kind = "dependency" => pc' = "recheck")
      /\ stages' = [stages EXCEPT !["finalization"] = "failed"]
      /\ UNCHANGED <<kind, files, reserved, child, holds, listening, overdue, cancelled, touched, atRest, exit>>
  BY DEF AttestRefused, AfterJob, capture, world
<1>2. TypeOK /\ child = "none" /\ Len(Program(kind)) \in {8, 14}
  BY <1>1, Programs DEF JobInv, Knowledge, AtAttest, TypeOK
<1>3. PICK n \in Charges : Spend(n) /\ store' \in {Validated(n), "cancelled", store}
  BY DEF AttestRefused
<1>4. budget' \in Reasons /\ consumed' \in Nat /\ store' \in Reasons
  BY <1>2, <1>3, BudgetKeepsReason, StoreKeepsReason DEF Reasons, TypeOK
<1>5. stages' \in [Stages -> {"not_run", "succeeded", "failed"}] /\ Failed'
  BY <1>1, <1>2 DEF TypeOK, Failed, Stages
<1>6. TypeOK'
  BY <1>1, <1>2, <1>4, <1>5 DEF TypeOK
<1>7. Knowledge'
  BY <1>1, <1>2, <1>5 DEF JobInv, Knowledge, ChangesStay, Outset, AtWork, AtAttest, AtClose, AtEnd
<1>. QED  BY <1>6, <1>7 DEF JobInv

LEMMA RecheckKeeps == ASSUME JobInv, Recheck PROVE JobInv'
<1>1. /\ pc = "recheck" /\ ~Shows(EntryRechecks[at])
      /\ at' = IF at = Len(EntryRechecks) THEN 1 ELSE at + 1
      /\ pc' = IF at < Len(EntryRechecks) THEN pc ELSE IF Failed THEN "deliver" ELSE "seal"
      /\ UNCHANGED <<kind, stages, files, reserved, consumed, budget, store, child, holds, listening, overdue,
                     cancelled, touched, atRest, exit>>
  BY DEF Recheck, capture, world
<1>2. /\ TypeOK /\ at \in 1..2 /\ Len(Program(kind)) \in {8, 14}
      /\ child \in {"none", "stuck"} /\ (child = "stuck" => Failed)
      /\ Failed \/ Whole
      /\ kind = "dependency" => "control" \in Held(kind)
  BY <1>1, Programs, Checks DEF JobInv, Knowledge, AtClose, TypeOK
<1>3. /\ Len(EntryRechecks) = 2 /\ EntryRechecks[at].of = "control" /\ EntryRechecks[at].depth = "content"
  BY <1>2 DEF EntryRechecks, Check
<1>4. kind = "dependency" => atRest["control"] = "intact"
  BY <1>1, <1>2, <1>3, CheckedMeansIntact
<1>5. at' \in 1..2 /\ at' \in 1..Len(Program(kind)) + 1 /\ pc' \in {"recheck", "deliver", "seal"}
  BY <1>1, <1>2, <1>3
<1>6. (Failed <=> Failed') /\ (Whole <=> Whole')
  BY <1>1 DEF Failed, Whole, Produced, NoFileOpen
<1>7. TypeOK'
  BY <1>1, <1>2, <1>5 DEF TypeOK
<1>8. Knowledge'
  BY <1>1, <1>2, <1>4, <1>5, <1>6 DEF JobInv, Knowledge, ChangesStay, Outset, AtWork, AtAttest, AtClose, AtEnd
<1>. QED  BY <1>7, <1>8 DEF JobInv

LEMMA SealKeeps == ASSUME JobInv, Seal PROVE JobInv'
<1>1. /\ pc = "seal"
      /\ at' = IF at = Len(EntrySeals) THEN 1 ELSE at + 1
      /\ pc' = IF at < Len(EntrySeals) THEN pc ELSE "deliver"
      /\ UNCHANGED <<kind, stages, files, reserved, store, child, holds, listening, overdue, cancelled, touched,
                     atRest, exit>>
  BY DEF Seal, capture, world
<1>2. PICK n \in Charges : BudgetAfter(n) = "none" /\ Spend(n)
  BY DEF Seal, Fault
<1>3. /\ TypeOK /\ at \in 1..3 /\ Len(Program(kind)) \in {8, 14}
      /\ child \in {"none", "stuck"} /\ (child = "stuck" => Failed)
      /\ Failed \/ Whole
      /\ kind = "dependency" => atRest["control"] = "intact"
  BY <1>1, Programs DEF JobInv, Knowledge, AtClose, TypeOK
<1>4. budget' \in Reasons /\ consumed' \in Nat /\ budget' = "none" /\ budget = "none"
  BY <1>2, <1>3, BudgetKeepsReason
<1>5. at' \in 1..3 /\ at' \in 1..Len(Program(kind)) + 1 /\ pc' \in {"seal", "deliver"}
  <2>1. Len(EntrySeals) = 3
    BY DEF EntrySeals
  <2>. QED  BY <1>1, <1>3, <2>1, NextEntryCheck
<1>6. (Failed <=> Failed') /\ (Whole <=> Whole')
  BY <1>1, <1>4 DEF Failed, Whole, Produced, NoFileOpen
<1>7. TypeOK'
  BY <1>1, <1>3, <1>4, <1>5 DEF TypeOK
<1>8. Knowledge'
  BY <1>1, <1>3, <1>5, <1>6 DEF JobInv, Knowledge, ChangesStay, Outset, AtWork, AtAttest, AtClose, AtEnd
<1>. QED  BY <1>7, <1>8 DEF JobInv

LEMMA EntryFailsKeeps == ASSUME JobInv, EntryFails PROVE JobInv'
<1>1. /\ pc \in {"recheck", "seal"} /\ pc' = "done" /\ exit' = "refused"
      /\ UNCHANGED <<kind, at, stages, files, reserved, child, holds, listening, overdue, cancelled, touched, atRest>>
  BY DEF EntryFails, capture, world
<1>2. TypeOK /\ child \in {"none", "stuck"} /\ (child = "stuck" => Failed)
  BY <1>1 DEF JobInv, Knowledge, AtClose
<1>3. budget' \in Reasons /\ consumed' \in Nat /\ store' \in Reasons
  <2>1. CASE pc = "recheck"
    BY <1>2, <2>1 DEF EntryFails, TypeOK
  <2>2. CASE pc = "seal"
    <3>1. PICK n \in Charges : Spend(n) /\ store' \in {Validated(n), store}
      BY <2>2 DEF EntryFails
    <3>. QED  BY <1>2, <3>1, BudgetKeepsReason, StoreKeepsReason DEF TypeOK
  <2>. QED  BY <1>1, <2>1, <2>2
<1>4. TypeOK'
  BY <1>1, <1>2, <1>3 DEF TypeOK
<1>5. Knowledge'
  BY <1>1, <1>2 DEF JobInv, Knowledge, ChangesStay, Outset, AtWork, AtAttest, AtClose, AtEnd, Failed
<1>. QED  BY <1>4, <1>5 DEF JobInv

LEMMA DeliverKeeps == ASSUME JobInv, Deliver PROVE JobInv'
<1>1. /\ pc = "deliver" /\ pc' = "done" /\ exit' \in {"finalized", "unfinalized", "refused"}
      /\ exit' = "finalized" => ~Failed
      /\ UNCHANGED <<kind, at, stages, files, reserved, consumed, budget, store, child, holds, listening, overdue,
                     cancelled, touched, atRest>>
  BY DEF Deliver, capture, world
<1>2. /\ TypeOK /\ child \in {"none", "stuck"} /\ (child = "stuck" => Failed)
      /\ Failed \/ Whole
      /\ kind = "dependency" => atRest["control"] = "intact"
  BY <1>1 DEF JobInv, Knowledge, AtClose
<1>3. (Failed <=> Failed') /\ (Whole <=> Whole')
  BY <1>1 DEF Failed, Whole, Produced, NoFileOpen
<1>4. TypeOK'
  BY <1>1, <1>2 DEF TypeOK
<1>5. Knowledge'
  BY <1>1, <1>2, <1>3 DEF JobInv, Knowledge, ChangesStay, Outset, AtWork, AtAttest, AtClose, AtEnd
<1>. QED  BY <1>4, <1>5 DEF JobInv

-----------------------------------------------------------------------------
(* The consumer, time and the others.                                      *)

LEMMA ConsumerKeeps == ASSUME JobInv, Close \/ Exit PROVE JobInv'
<1>1. /\ child \in {"running", "exited"} /\ child' \in {"running", "exited"} /\ holds' \subseteq holds
      /\ UNCHANGED <<kind, pc, at, stages, files, reserved, consumed, budget, store, listening, overdue, cancelled,
                     touched, atRest, exit>>
  BY DEF Close, Exit, world
<1>2. TypeOK /\ pc = "work"
  BY <1>1 DEF JobInv, Knowledge, Outset, AtAttest, AtClose, AtEnd, TypeOK
<1>3. budget = "none" /\ store = "none" /\ Op.do = "capture" /\ \A f \in OpFiles : files'[f] # "absent"
  BY <1>1, <1>2 DEF JobInv, Knowledge, AtWork, Attempted
<1>4. TypeOK'
  BY <1>1, <1>2 DEF TypeOK
<1>. QED  BY <1>1, <1>2, <1>3, <1>4, GoingOn

LEMMA OthersKeep ==
    ASSUME JobInv, Expire \/ Others \/ UNCHANGED vars
    PROVE  JobInv'
<1>1. UNCHANGED <<kind, pc, at, stages, files, reserved, consumed, budget, store, child, holds, listening, atRest,
                  exit>>
  BY DEF Expire, Others, Signal, Touch, vars, capture
<1>2. TypeOK
  BY DEF JobInv
<1>3. /\ overdue' \subseteq {"pipeline", "entry"} /\ cancelled' \in BOOLEAN
      /\ touched' \in [Held(kind) -> Conditions]
      /\ \A t \in Held(kind) : touched'[t] = "intact" => touched[t] = "intact"
  <2>1. CASE Expire
    BY <1>2, <2>1 DEF Expire, TypeOK
  <2>2. CASE Signal
    BY <1>2, <2>2 DEF Signal, TypeOK
  <2>3. CASE \E t \in Held(kind), c \in Conditions : Touch(t, c)
    <3>1. PICK t \in Held(kind), c \in Conditions : Touch(t, c)
      BY <2>3
    <3>2. touched' = [touched EXCEPT ![t] = c] /\ c # "intact" /\ UNCHANGED <<overdue, cancelled>>
      BY <3>1 DEF Touch
    <3>. QED  BY <1>2, <3>2 DEF TypeOK
  <2>4. CASE UNCHANGED vars
    BY <1>2, <2>4 DEF vars, world, TypeOK
  <2>. QED  BY <2>1, <2>2, <2>3, <2>4 DEF Others
<1>4. TypeOK'
  BY <1>1, <1>2, <1>3 DEF TypeOK
<1>5. ChangesStay'
  BY <1>1, <1>3 DEF JobInv, Knowledge, ChangesStay
<1>6. Outset' /\ AtWork'
  BY <1>1 DEF JobInv, Knowledge, Outset, AtWork, Op, OpFiles, Attempted
<1>7. AtAttest' /\ AtClose' /\ AtEnd'
  BY <1>1 DEF JobInv, Knowledge, AtAttest, AtClose, AtEnd, Whole, Failed, Produced, Passed, NoFileOpen
<1>. QED  BY <1>4, <1>5, <1>6, <1>7 DEF JobInv, Knowledge

LEMMA JobStep == ASSUME JobInv, [Next]_vars PROVE JobInv'
<1>1. CASE Job
  BY <1>1, AdmissionKeeps, AnalyseKeeps, AnalysisRefusedKeeps, OpenWriterKeeps, OpenRefusedKeeps, FinishWriterKeeps,
     FinishRefusedKeeps, CaptureGoesOn, CaptureFailsKeeps, SettleKeeps, AttestKeeps, FinalizeKeeps,
     AttestRefusedKeeps, RecheckKeeps, SealKeeps, EntryFailsKeeps, DeliverKeeps DEF Job
<1>2. CASE Consumer
  BY <1>2, ConsumerKeeps DEF Consumer
<1>3. CASE Expire \/ Others \/ UNCHANGED vars
  BY <1>3, OthersKeep
<1>. QED  BY <1>1, <1>2, <1>3 DEF Next

LEMMA JobAlways == Spec => []JobInv
BY JobInitially, JobStep, PTL DEF Spec

-----------------------------------------------------------------------------
(* The theorems.                                                           *)

\* The state of a job is always of its type: the allowance is never overdrawn.
THEOREM JobTypeCorrect == Spec => []TypeOK
<1>1. JobInv => TypeOK
  BY DEF JobInv
<1>. QED  BY <1>1, JobAlways, PTL

\* Exit 0 stands for what was there when the last stage ended, whatever others changed
\* and whenever they did.
THEOREM FinalizedIsWhole == Spec => []FinalizedMeansWhole
<1>1. JobInv => FinalizedMeansWhole
  <2>. SUFFICES ASSUME JobInv, exit = "finalized"
                PROVE  /\ \A t \in Held(kind) : atRest[t] = "intact"
                       /\ budget = "none" /\ store = "none" /\ NoFileOpen /\ child = "none"
                       /\ \A s \in Essential \cup {"finalization"} : stages[s] = "succeeded"
    BY DEF FinalizedMeansWhole, NoFileOpen, Essential
  <2>1. kind \in {"dependency", "direct"}
    BY Programs DEF JobInv, TypeOK
  <2>2. Whole /\ (kind = "dependency" => atRest["control"] = "intact")
    BY DEF JobInv, Knowledge, AtEnd
  <2>. QED  BY <2>1, <2>2 DEF Whole, Produced, Held
<1>. QED  BY <1>1, JobAlways, PTL

\* Every receipt is bound to the control record the job ran on.
THEOREM ReceiptsBind == Spec => []ReceiptBindsControl
<1>1. JobInv => ReceiptBindsControl
  BY DEF JobInv, Knowledge, AtEnd, ReceiptBindsControl
<1>. QED  BY <1>1, JobAlways, PTL

\* No captured consumer outlives its stage, except one that cannot be reaped, which
\* fails the job.
THEOREM ConsumersEnd == Spec => []NoConsumerLeft
<1>1. JobInv => NoConsumerLeft
  BY DEF JobInv, Knowledge, Outset, AtWork, AtAttest, AtClose, AtEnd, NoConsumerLeft, InStage, TypeOK
<1>. QED  BY <1>1, JobAlways, PTL

\* Outside the stages only the finalization may still succeed, and only with clean ledgers.
LEMMA OutsideTheStages ==
    ASSUME JobInv, Next, pc # "work"
    PROVE  /\ budget # "none" => budget' = budget
           /\ store # "none" => store' = store
           /\ \A s \in Stages : stages'[s] = "succeeded" =>
                 stages[s] = "succeeded" \/ (budget = "none" /\ store = "none")
           /\ files' = files /\ (child' = "running" => child = "running")
<1>. USE DEF capture, world
<1>1. TypeOK
  BY DEF JobInv
<1>2. CASE Attest \/ Seal
  <2>1. PICK n \in Charges : Spend(n)
    BY <1>2 DEF Attest, Seal
  <2>. QED  BY <1>1, <1>2, <2>1, BudgetKeepsReason DEF Attest, Seal
<1>3. CASE Finalize
  <2>1. /\ Len(JobChecks(kind)) \in 2..4 /\ "output" \in Held(kind) \ {"control"}
        /\ \A t \in Held(kind) \ {"control"} : \E j \in 1..Len(JobChecks(kind)) : JobChecks(kind)[j].of = t
        /\ at - 1 = Len(JobChecks(kind))
    BY <1>1, <1>3, Checks DEF TypeOK, Finalize
  <2>2. \A j \in 1..at - 1 : Passed(JobChecks(kind)[j])
    BY <1>3 DEF JobInv, Knowledge, AtAttest, Finalize
  <2>3. budget = "none" /\ store = "none"
    BY <2>1, <2>2 DEF Passed
  <2>. QED  BY <1>3, <2>3 DEF Finalize
<1>4. CASE AttestRefused
  <2>1. PICK n \in Charges :
          /\ Spend(n)
          /\ store' = IF JobChecks(kind)[at].of = "output" THEN Validated(n)
                      ELSE IF Cancelled /\ store = "none" THEN "cancelled" ELSE store
    BY <1>4 DEF AttestRefused
  <2>2. \A s \in Stages : stages'[s] = "succeeded" => stages[s] = "succeeded"
    BY <1>1, <1>4 DEF AttestRefused, TypeOK
  <2>. QED  BY <1>1, <1>4, <2>1, <2>2, BudgetKeepsReason, StoreKeepsReason DEF AttestRefused
<1>5. CASE EntryFails
  <2>1. CASE pc = "recheck"
    BY <1>5, <2>1 DEF EntryFails
  <2>2. CASE pc = "seal"
    <3>1. PICK n \in Charges : Spend(n) /\ store' \in {IF EntrySeals[at].of = "output" THEN Validated(n) ELSE store}
      BY <1>5, <2>2 DEF EntryFails
    <3>. QED  BY <1>1, <1>5, <3>1, BudgetKeepsReason, StoreKeepsReason DEF EntryFails
  <2>. QED  BY <1>5, <2>1, <2>2 DEF EntryFails
<1>6. CASE Admit \/ RefuseAdmission \/ Recheck \/ Deliver
  BY <1>6 DEF Admit, RefuseAdmission, Recheck, Deliver
<1>7. CASE Consumer \/ Expire \/ Others
  BY <1>7 DEF Consumer, Close, Exit, Expire, Others, Signal, Touch
<1>. QED  BY <1>2, <1>3, <1>4, <1>5, <1>6, <1>7 DEF Next, Job, Analyse, AnalysisRefused, OpenWriter, OpenRefused,
            FinishWriter, FinishRefused, Spawn, PipeEnds, Reap, CaptureFails, Settle, SettleRefused, Capturing,
            Captured, Finishing, InStage

\* A ledger that has refused keeps its reason, and nothing succeeds, is finished or is
\* started after it.
THEOREM RefusalsAreFinal == Spec => RefusalsStick
<1>1. ASSUME JobInv, Next
      PROVE  /\ budget # "none" => budget' = budget
             /\ store # "none" => store' = store
             /\ budget # "none" \/ store # "none" =>
                  /\ \A s \in Stages : stages'[s] = "succeeded" => stages[s] = "succeeded"
                  /\ \A f \in Names : files'[f] = "complete" => files[f] = "complete"
                  /\ child' = "running" => child = "running"
  <2>1. CASE pc = "work"
    BY <1>1, <2>1 DEF JobInv, Knowledge, AtWork
  <2>2. CASE pc # "work"
    BY <1>1, <2>2, OutsideTheStages
  <2>. QED  BY <2>1, <2>2
<1>. QED  BY <1>1, JobAlways, PTL DEF Spec, RefusalsStick

-----------------------------------------------------------------------------
(* The job implements its receipt: what the invariant adds for that is how *)
(* far the stages have come, and what they have left behind.               *)

\* Of each operation: the place of its stage in the controller's order.
Place(k) ==
    IF k = "dependency" THEN <<1, 1, 1, 1, 1, 1, 2, 3, 4, 4, 5, 6, 6, 7>>
                        ELSE <<1, 2, 3, 3, 4, 5, 6, 6>>

Facts == {f \in Names : files[f] = "complete"}

\* The operations before i have left their artifacts.
Retained(i) ==
    \A a \in 1..i - 1 : \A j \in DOMAIN Program(kind)[a].files : Program(kind)[a].files[j] \in Facts

\* The stages passed have succeeded, and those to come have not run.
Progress ==
    \A a \in 1..Len(Order(kind)) :
        stages[Order(kind)[a]] = IF a < Place(kind)[at] THEN "succeeded" ELSE "not_run"

Own(s) == \E a \in 1..Len(Order(kind)) : Order(kind)[a] = s

Required == {s \in Stages \ {"matching"} : Own(s)}

Course ==
    /\ pc = "admit" => Facts = {}
    /\ pc = "work" => Progress /\ Retained(at)
    /\ pc \in {"attest", "recheck", "seal", "deliver"} =>
          Failed \/ \A s \in Required : stages[s] = "succeeded"
    /\ \A s \in Stages : stages[s] # "not_run" => Own(s)

LEMMA DependencyPlaces ==
    LET P == DependencyProgram
        O == Order("dependency")
        M == Place("dependency")
    IN  /\ Len(O) = 7 /\ M[1] = 1 /\ M[14] = 7
        /\ \A i \in 1..14 : M[i] \in 1..7 /\ P[i].stage = O[M[i]]
        /\ \A i \in 1..13 : M[i + 1] \in {M[i], M[i] + 1}
        /\ \A a \in 1..7 : O[a] \in Stages \ {"matching"}
        /\ O[7] = "finalization"
BY DEF DependencyProgram, Operation, Order, Place, Stages

LEMMA DirectPlaces ==
    LET P == DirectProgram
        O == Order("direct")
        M == Place("direct")
    IN  /\ Len(O) = 6 /\ M[1] = 1 /\ M[8] = 6
        /\ \A i \in 1..8 : M[i] \in 1..6 /\ P[i].stage = O[M[i]]
        /\ \A i \in 1..7 : M[i + 1] \in {M[i], M[i] + 1}
        /\ \A a \in 1..5 : O[a] \in Stages \ {"matching"}
        /\ O[5] = "finalization" /\ O[6] = "matching"
BY DEF DirectProgram, Operation, Order, Place, Stages

LEMMA OrderDomain == ASSUME NEW k PROVE DOMAIN Order(k) = 1..Len(Order(k))
<1>1. CASE k = "dependency"
  BY <1>1 DEF Order
<1>2. CASE k # "dependency"
  BY <1>2 DEF Order
<1>. QED  BY <1>1, <1>2

\* A stage has one place, and places only go up.
LEMMA PlacesOrdered ==
    ASSUME NEW k \in {"dependency", "direct"}
    PROVE  /\ \A a, b \in 1..Len(Order(k)) : Order(k)[a] = Order(k)[b] => a = b
           /\ \A i, j \in 1..Len(Place(k)) : i <= j => Place(k)[i] <= Place(k)[j]
BY DEF Order, Place

LEMMA DependencyFiles ==
    \A i \in 1..14 : LET o == DependencyProgram[i]
                     IN  o.do # "capture" => DOMAIN o.files \subseteq {1} /\ (o.do # "put" => DOMAIN o.files = {})
BY DEF DependencyProgram, Operation

LEMMA DirectFiles ==
    \A i \in 1..8 : LET o == DirectProgram[i]
                    IN  DOMAIN o.files \subseteq {1} /\ (o.do # "put" => DOMAIN o.files = {})
BY DEF DirectProgram, Operation

\* Both controllers at once, in the terms of the invariant.
LEMMA Places ==
    ASSUME kind \in Kinds
    PROVE  LET P == Program(kind)
               O == Order(kind)
               M == Place(kind)
           IN  /\ Len(P) \in {8, 14} /\ Len(O) \in {6, 7} /\ M[1] = 1 /\ M[Len(P)] = Len(O)
               /\ \A i \in 1..Len(P) : M[i] \in 1..Len(O) /\ P[i].stage = O[M[i]]
               /\ \A i \in 1..Len(P) - 1 : M[i + 1] \in {M[i], M[i] + 1}
               /\ \A i, j \in 1..Len(P) : i <= j => M[i] <= M[j]
               /\ \A a \in 1..Len(O) : O[a] \in Stages /\ (O[a] = "matching" => a = Len(O))
               /\ \A a, b \in 1..Len(O) : O[a] = O[b] => a = b
               /\ "finalization" \in Stages /\ Own("finalization")
               /\ \A i \in 1..Len(P) : P[i].do # "capture" =>
                     DOMAIN P[i].files \subseteq {1} /\ (P[i].do # "put" => DOMAIN P[i].files = {})
<1>. DEFINE P == Program(kind)
            O == Order(kind)
            M == Place(kind)
<1>1. kind \in {"dependency", "direct"}
  BY ConstantsAssumption
<1>2. /\ \A a, b \in 1..Len(O) : O[a] = O[b] => a = b
      /\ \A i, j \in 1..Len(M) : i <= j => M[i] <= M[j]
      /\ "finalization" \in Stages
      /\ Len(M) = IF kind = "dependency" THEN 14 ELSE 8
  BY <1>1, PlacesOrdered DEF Stages, Place
<1>3. CASE kind = "dependency"
  <2>1. P = DependencyProgram /\ O = Order("dependency") /\ M = Place("dependency")
    BY <1>3 DEF Program
  <2>. HIDE DEF P, O, M
  <2>2. /\ Len(P) = 14 /\ Len(O) = 7 /\ M[1] = 1 /\ M[14] = 7 /\ Len(M) = 14
        /\ \A i \in 1..14 : M[i] \in 1..7 /\ P[i].stage = O[M[i]]
        /\ \A i \in 1..13 : M[i + 1] \in {M[i], M[i] + 1}
        /\ \A a \in 1..7 : O[a] \in Stages /\ O[a] # "matching"
        /\ O[7] = "finalization"
    BY <1>2, <1>3, <2>1, DependencyFacts, DependencyPlaces, Zenon
  <2>3. \A i \in 1..14 : P[i].do # "capture" =>
           DOMAIN P[i].files \subseteq {1} /\ (P[i].do # "put" => DOMAIN P[i].files = {})
    BY <2>1, DependencyFiles
  <2>4. \E a \in 1..Len(O) : O[a] = "finalization"
    BY <2>2
  <2>. QED  BY <1>2, <2>2, <2>3, <2>4 DEF Own, P, O, M
<1>4. CASE kind = "direct"
  <2>1. P = DirectProgram /\ O = Order("direct") /\ M = Place("direct")
    BY <1>4 DEF Program
  <2>. HIDE DEF P, O, M
  <2>2. /\ Len(P) = 8 /\ Len(O) = 6 /\ M[1] = 1 /\ M[8] = 6 /\ Len(M) = 8
        /\ \A i \in 1..8 : M[i] \in 1..6 /\ P[i].stage = O[M[i]]
        /\ \A i \in 1..7 : M[i + 1] \in {M[i], M[i] + 1}
        /\ \A a \in 1..5 : O[a] \in Stages /\ O[a] # "matching"
        /\ O[5] = "finalization" /\ O[6] = "matching"
    BY <1>2, <1>4, <2>1, DirectFacts, DirectPlaces
  <2>3. \A i \in 1..8 : P[i].do # "capture" =>
           DOMAIN P[i].files \subseteq {1} /\ (P[i].do # "put" => DOMAIN P[i].files = {})
    BY <2>1, DirectFiles
  <2>4. \E a \in 1..Len(O) : O[a] = "finalization"
    BY <2>2
  <2>5. \A a \in 1..Len(O) : O[a] \in Stages /\ (O[a] = "matching" => a = Len(O))
    BY <2>2 DEF Stages
  <2>. QED  BY <1>2, <2>2, <2>3, <2>4, <2>5 DEF Own, P, O, M
<1>. QED  BY <1>1, <1>3, <1>4

\* Where the stages stand while one of them runs.
LEMMA AtStage ==
    ASSUME JobInv, Course, pc = "work"
    PROVE  /\ TypeOK /\ at \in 1..Len(Program(kind)) /\ Op = Program(kind)[at]
           /\ Place(kind)[at] \in 1..Len(Order(kind)) /\ Op.stage = Order(kind)[Place(kind)[at]]
           /\ Op.stage \in Stages /\ Own(Op.stage) /\ Receipt!Due(Op.stage)
           /\ budget = "none" /\ store = "none"
<1>. DEFINE O == Order(kind)
            m == Place(kind)[at]
<1>1. TypeOK /\ at \in 1..Len(Program(kind)) /\ budget = "none" /\ store = "none" /\ exit = "none" /\ Progress
  BY DEF JobInv, Knowledge, AtWork, AtEnd, Course
<1>2. m \in 1..Len(O) /\ Op.stage = O[m] /\ Op.stage \in Stages /\ Len(O) \in {6, 7} /\ DOMAIN O = 1..Len(O)
  <2>1. DOMAIN O = 1..Len(O)
    BY OrderDomain
  <2>2. kind \in Kinds
    BY <1>1 DEF TypeOK
  <2>. DEFINE P == Program(kind)
  <2>3. /\ Len(O) \in {6, 7} /\ \A i \in 1..Len(P) : Place(kind)[i] \in 1..Len(O) /\ P[i].stage = O[Place(kind)[i]]
        /\ \A a \in 1..Len(O) : O[a] \in Stages
    BY <2>2, Places
  <2>. HIDE DEF O, P
  <2>4. m \in 1..Len(O) /\ P[at].stage = O[m]
    BY <1>1, <2>3 DEF P
  <2>. QED  BY <2>1, <2>3, <2>4 DEF Op, P
<1>. HIDE DEF O, m
<1>3. stages[O[m]] = "not_run" /\ \A a \in 1..m - 1 : stages[O[a]] = "succeeded"
  BY <1>1, <1>2 DEF Progress, O, m
<1>4. Own(Op.stage)
  BY <1>2 DEF Own, O, m
<1>5. Receipt!Due(Op.stage)
  BY <1>1, <1>2, <1>3 DEF Receipt!Due, O
<1>. QED  BY <1>1, <1>2, <1>4, <1>5 DEF Op, O, m

LEMMA ProgramDomain == ASSUME NEW k PROVE DOMAIN Program(k) = 1..Len(Program(k))
<1>1. DOMAIN DependencyProgram = 1..Len(DependencyProgram)
  BY DEF DependencyProgram
<1>2. DOMAIN DirectProgram = 1..Len(DirectProgram)
  BY DEF DirectProgram
<1>. QED  BY <1>1, <1>2 DEF Program

LEMMA ArtifactsOfStage ==
    ASSUME NEW k, NEW s, NEW f
    PROVE  f \in Artifacts(k, s) <=> \E i \in DOMAIN Program(k) :
              Program(k)[i].stage = s /\ \E j \in DOMAIN Program(k)[i].files : f = Program(k)[i].files[j]
BY DEF Artifacts

LEMMA StageStepsReceipt ==
    ASSUME NEW s \in Stages, Receipt!Work(s) \/ Receipt!Succeed(s) \/ Receipt!Fail(s)
    PROVE  [Receipt!Next]_(Receipt!receiptVars)
<1>1. Receipt!Next
  BY DEF Receipt!Next
<1>. QED  BY <1>1

\* A failing operation fails its stage in the receipt, and retains what there is.
LEMMA FailsReceipt ==
    ASSUME JobInv, Course, pc = "work", StageFails, UNCHANGED <<kind, exit>>, Facts' = Facts
    PROVE  Course' /\ [Receipt!Next]_(Receipt!receiptVars)
<1>. DEFINE O == Order(kind)
            m == Place(kind)[at]
<1>1. /\ TypeOK /\ Op.stage \in Stages /\ Own(Op.stage) /\ Receipt!Due(Op.stage)
      /\ budget = "none" /\ store = "none"
  BY AtStage, Zenon
<1>2. /\ pc' \in {"attest", "recheck", "deliver"} /\ (pc' = "attest" => Op.stage = "matching")
      /\ stages' = [stages EXCEPT ![Op.stage] = "failed"]
  BY DEF StageFails, AfterJob
<1>3. \A s \in Stages : stages'[s] = IF s = Op.stage THEN "failed" ELSE stages[s]
  BY <1>1, <1>2 DEF TypeOK
<1>4. \A s \in Stages : Own(s)' <=> Own(s)
  BY DEF Own
<1>5. \A s \in Stages : stages'[s] # "not_run" => Own(s)'
  BY <1>1, <1>3, <1>4 DEF Course
<1>6. ASSUME Op.stage = "matching" PROVE Course'
  <2>1. \A a \in 1..Len(O) : stages[O[a]] = IF a < m THEN "succeeded" ELSE "not_run"
    BY DEF Course, Progress
  <2>2. kind \in Kinds /\ Op.stage = O[m] /\ m \in 1..Len(O)
    BY AtStage DEF TypeOK
  <2>3. Len(O) \in {6, 7} /\ \A a \in 1..Len(O) : O[a] = "matching" => a = Len(O)
    BY <2>2, Places
  <2>. HIDE DEF O, m
  <2>4. m = Len(O) /\ Len(O) \in Nat /\ O[m] = "matching"
    BY <1>6, <2>2, <2>3
  <2>5. ASSUME NEW s \in Stages, s # "matching", Own(s) PROVE stages'[s] = "succeeded"
    <3>1. PICK a \in 1..Len(O) : O[a] = s
      BY <2>5 DEF Own, O
    <3>2. a < m
      BY <2>5, <2>4, <3>1
    <3>. QED  BY <1>3, <1>6, <2>1, <2>5, <3>1, <3>2
  <2>6. \A s \in Required' : stages'[s] = "succeeded"
    BY <1>4, <2>5 DEF Required
  <2>. QED  BY <1>2, <1>5, <2>6 DEF Course
<1>7. ASSUME Op.stage # "matching" PROVE Course'
  <2>1. Failed' /\ pc' \in {"recheck", "deliver"}
    BY <1>1, <1>2, <1>3, <1>7 DEF Failed
  <2>. QED  BY <1>2, <1>5, <2>1 DEF Course
<1>8. PICK s \in Stages : s = Op.stage
  BY <1>1
<1>9. Receipt!Due(s)
  BY <1>1, <1>8
<1>10. Receipt!Fail(s)
  BY <1>1, <1>2, <1>8, <1>9 DEF Receipt!Fail, Facts
<1>. QED  BY <1>6, <1>7, <1>10, StageStepsReceipt

\* What is retained while no stage changes is retained in the receipt.
LEMMA RetainsInReceipt ==
    ASSUME JobInv, Course, pc = "work", UNCHANGED <<kind, stages, exit>>,
           budget' = "none", store' = "none",
           Facts' = Facts \/ \E j \in DOMAIN Op.files : Facts' = Facts \cup {Op.files[j]}
    PROVE  [Receipt!Next]_(Receipt!receiptVars)
<1>1. /\ Op.stage \in Stages /\ Receipt!Due(Op.stage) /\ budget = "none" /\ store = "none"
      /\ at \in 1..Len(Program(kind)) /\ Op = Program(kind)[at]
  BY AtStage, Zenon
<1>2. CASE Facts' = Facts
  BY <1>1, <1>2 DEF Receipt!receiptVars, Facts
<1>3. CASE \E j \in DOMAIN Op.files : Facts' = Facts \cup {Op.files[j]}
  <2>1. PICK j \in DOMAIN Op.files : Facts' = Facts \cup {Op.files[j]}
    BY <1>3
  <2>2. at \in DOMAIN Program(kind)
    BY <1>1, ProgramDomain
  <2>3. Op.files[j] \in Artifacts(kind, Op.stage)
    BY <1>1, <2>1, <2>2, ArtifactsOfStage
  <2>4. PICK s \in Stages : s = Op.stage
    BY <1>1
  <2>5. Receipt!Due(s)
    BY <1>1, <2>4
  <2>6. Receipt!Work(s)
    BY <1>1, <2>1, <2>3, <2>4, <2>5 DEF Receipt!Work, Receipt!Retains, Facts
  <2>. QED  BY <2>6, StageStepsReceipt
<1>. QED  BY <1>2, <1>3

LEMMA GoesOnInReceipt ==
    ASSUME JobInv, Course, pc = "work", UNCHANGED <<kind, pc, at, stages, exit>>,
           budget' = "none", store' = "none",
           Facts' = Facts \/ \E j \in DOMAIN Op.files : Facts' = Facts \cup {Op.files[j]}
    PROVE  Course' /\ [Receipt!Next]_(Receipt!receiptVars)
<1>1. Progress' /\ \A s \in Stages : Own(s)' <=> Own(s)
  BY DEF Course, Progress, Own
<1>2. Retained(at)'
  <2>1. Retained(at) /\ Facts \subseteq Facts'
    BY DEF Course
  <2>. QED  BY <2>1 DEF Retained
<1>3. Course'
  BY <1>1, <1>2 DEF Course
<1>. QED  BY <1>3, RetainsInReceipt

\* An operation that succeeds leaves its artifacts; the last of its stage makes the
\* stage succeed in the receipt, with all of them.
LEMMA SucceedsInReceipt ==
    ASSUME JobInv, Course, pc = "work", Advance, UNCHANGED <<kind, exit>>,
           budget' = "none", store' = "none",
           Facts' = Facts \/ \E j \in DOMAIN Op.files : Facts' = Facts \cup {Op.files[j]},
           \A j \in DOMAIN Op.files : Op.files[j] \in Facts'
    PROVE  Course' /\ [Receipt!Next]_(Receipt!receiptVars)
<1>. DEFINE P == Program(kind)
            O == Order(kind)
            M == Place(kind)
<1>1. /\ at \in 1..Len(P) /\ Op = P[at] /\ Op.stage \in Stages /\ Own(Op.stage) /\ Receipt!Due(Op.stage)
      /\ Op.stage = O[M[at]] /\ M[at] \in 1..Len(O) /\ kind \in Kinds
      /\ stages \in [Stages -> {"not_run", "succeeded", "failed"}]
  BY AtStage, Zenon DEF TypeOK
<1>2. /\ Len(P) \in {8, 14} /\ Len(O) \in {6, 7} /\ M[1] = 1 /\ M[Len(P)] = Len(O)
      /\ \A i \in 1..Len(P) : M[i] \in 1..Len(O) /\ P[i].stage = O[M[i]]
      /\ \A i \in 1..Len(P) - 1 : M[i + 1] \in {M[i], M[i] + 1}
      /\ \A i, j \in 1..Len(P) : i <= j => M[i] <= M[j]
      /\ \A a \in 1..Len(O) : O[a] \in Stages /\ (O[a] = "matching" => a = Len(O))
      /\ \A a, b \in 1..Len(O) : O[a] = O[b] => a = b
  BY <1>1, Places
<1>3. \A a \in 1..Len(O) : stages[O[a]] = IF a < M[at] THEN "succeeded" ELSE "not_run"
  BY DEF Course, Progress
<1>4. /\ at' = IF Last THEN 1 ELSE at + 1
      /\ pc' = IF Last THEN "attest" ELSE "work"
      /\ stages' = IF Last \/ P[at + 1].stage # Op.stage
                   THEN [stages EXCEPT ![Op.stage] = "succeeded"] ELSE stages
      /\ Last <=> at = Len(P)
  BY DEF Advance, Last
<1>5. budget = "none" /\ store = "none" /\ Facts \subseteq Facts'
  BY AtStage
<1>. HIDE DEF P, O, M
<1>6. \A i \in 1..at : \A j \in DOMAIN P[i].files : P[i].files[j] \in Facts'
  <2>1. \A i \in 1..at - 1 : \A j \in DOMAIN P[i].files : P[i].files[j] \in Facts
    BY DEF Course, Retained, P
  <2>2. \A i \in 1..at : i \in 1..at - 1 \/ i = at
    BY <1>1, <1>2
  <2>. QED  BY <1>1, <1>5, <2>1, <2>2
<1>7. (\A s \in Stages : Own(s)' <=> Own(s)) /\ (\A s \in Stages : stages'[s] # "not_run" => Own(s)')
  <2>1. \A s \in Stages : Own(s)' <=> Own(s)
    BY DEF Own
  <2>2. \A s \in Stages : stages'[s] # "not_run" => s = Op.stage \/ stages[s] # "not_run"
    BY <1>1, <1>4
  <2>. QED  BY <1>1, <2>1, <2>2 DEF Course
\* The stage goes on exactly if the next operation has its place.
<1>8. \/ /\ ~Last /\ M[at + 1] = M[at] /\ stages' = stages
      \/ /\ Last \/ M[at + 1] = M[at] + 1
         /\ stages' = [stages EXCEPT ![Op.stage] = "succeeded"]
         /\ \A i \in 1..Len(P) : P[i].stage = Op.stage => i <= at
  <2>1. CASE Last
    BY <1>1, <1>2, <1>4, <2>1
  <2>2. CASE ~Last
    <3>1. at + 1 \in 1..Len(P) /\ at \in 1..Len(P) - 1
      BY <1>1, <1>2, <1>4, <2>2
    <3>2. CASE M[at + 1] = M[at]
      <4>1. P[at + 1].stage = Op.stage
        BY <1>1, <1>2, <3>1, <3>2
      <4>. QED  BY <1>4, <2>2, <3>2, <4>1
    <3>3. CASE M[at + 1] = M[at] + 1
      <4>1. M[at + 1] # M[at] /\ M[at + 1] \in 1..Len(O)
        BY <1>1, <1>2, <3>1, <3>3
      <4>2. P[at + 1].stage # Op.stage
        BY <1>1, <1>2, <3>1, <4>1
      <4>3. ASSUME NEW i \in 1..Len(P), P[i].stage = Op.stage PROVE i <= at
        <5>1. M[i] = M[at]
          BY <1>1, <1>2, <4>3
        <5>2. ~(at + 1 <= i)
          BY <1>1, <1>2, <3>1, <3>3, <5>1
        <5>. QED  BY <1>1, <1>2, <5>2
      <4>. QED  BY <1>4, <3>3, <4>2, <4>3
    <3>. QED  BY <1>2, <3>1, <3>2, <3>3
  <2>. QED  BY <2>1, <2>2
<1>9. Course'
  <2>1. CASE ~Last
    <3>1. at' = at + 1 /\ pc' = "work"
      BY <1>4, <2>1
    <3>2. Retained(at)'
      <4>1. at' - 1 = at
        BY <1>1, <1>2, <3>1
      <4>. QED  BY <1>6, <4>1 DEF Retained, P
    <3>3. \A a \in 1..Len(O) : stages'[O[a]] = IF a < M[at'] THEN "succeeded" ELSE "not_run"
      BY <1>1, <1>2, <1>3, <1>8, <2>1, <3>1
    <3>4. Progress'
      BY <3>3 DEF Progress, O, M
    <3>. QED  BY <1>7, <3>1, <3>2, <3>4 DEF Course
  <2>2. CASE Last
    <3>1. pc' = "attest" /\ stages' = [stages EXCEPT ![Op.stage] = "succeeded"] /\ M[at] = Len(O)
      BY <1>2, <1>4, <2>2
    <3>2. \A a \in 1..Len(O) : stages'[O[a]] = "succeeded"
      BY <1>1, <1>2, <1>3, <3>1
    <3>3. \A s \in Required' : stages'[s] = "succeeded"
      BY <1>7, <3>2 DEF Required, Own, O
    <3>. QED  BY <1>7, <3>1, <3>3 DEF Course
  <2>. QED  BY <2>1, <2>2
<1>10. CASE stages' = stages
  BY <1>9, <1>10, RetainsInReceipt
<1>11. CASE /\ stages' = [stages EXCEPT ![Op.stage] = "succeeded"]
            /\ \A i \in 1..Len(P) : P[i].stage = Op.stage => i <= at
  <2>1. Artifacts(kind, Op.stage) \subseteq Facts'
    <3>. SUFFICES ASSUME NEW f \in Artifacts(kind, Op.stage) PROVE f \in Facts'
      OBVIOUS
    <3>1. DOMAIN P = 1..Len(P)
      BY ProgramDomain DEF P
    <3>2. PICK i \in 1..Len(P) : P[i].stage = Op.stage /\ \E j \in DOMAIN P[i].files : f = P[i].files[j]
      BY <3>1, ArtifactsOfStage DEF P
    <3>3. i \in 1..at
      BY <1>1, <1>2, <1>11, <3>2
    <3>. QED  BY <1>6, <3>2, <3>3
  <2>2. Facts' = Facts \/ \E f \in Artifacts(kind, Op.stage) : Facts' = Facts \cup {f}
    <3>1. DOMAIN P = 1..Len(P)
      BY ProgramDomain DEF P
    <3>2. \A j \in DOMAIN Op.files : Op.files[j] \in Artifacts(kind, Op.stage)
      BY <1>1, <3>1, ArtifactsOfStage DEF P
    <3>. QED  BY <3>2
  <2>3. PICK s \in Stages : s = Op.stage
    BY <1>1
  <2>4. Receipt!Due(s)
    BY <1>1, <2>3
  <2>5. Receipt!Succeed(s)
    BY <1>5, <1>11, <2>1, <2>2, <2>3, <2>4 DEF Receipt!Succeed, Receipt!Retains, Facts
  <2>. QED  BY <1>9, <2>5, StageStepsReceipt
<1>. QED  BY <1>8, <1>10, <1>11, Zenon

\* Ledgers, consumers, clocks and others leave no trace in the receipt.
LEMMA NotInReceipt ==
    ASSUME Course, UNCHANGED <<kind, stages, files, exit>>,
           \/ pc' = pc /\ at' = at
           \/ {pc, pc'} \subseteq {"attest", "recheck", "seal", "deliver"},
           (budget' = "none" /\ store' = "none") <=> (budget = "none" /\ store = "none")
    PROVE  Course' /\ [Receipt!Next]_(Receipt!receiptVars)
<1>1. Facts' = Facts /\ (\A s \in Stages : Own(s)' <=> Own(s)) /\ (Failed' <=> Failed)
  BY DEF Facts, Own, Failed
<1>2. Required' = Required
  BY <1>1 DEF Required
<1>3. pc' = "work" => Progress' /\ Retained(at)'
  <2>1. CASE pc' = pc /\ at' = at
    BY <1>1, <2>1 DEF Course, Progress, Retained
  <2>. QED  BY <2>1
<1>4. Course'
  <2>1. \A s \in Stages : stages'[s] # "not_run" => Own(s)'
    BY <1>1 DEF Course
  <2>2. pc' = "admit" => Facts' = {}
    BY <1>1 DEF Course
  <2>3. pc' \in {"attest", "recheck", "seal", "deliver"} => Failed' \/ \A s \in Required' : stages'[s] = "succeeded"
    BY <1>1, <1>2 DEF Course
  <2>. QED  BY <1>3, <2>1, <2>2, <2>3 DEF Course
<1>5. UNCHANGED Receipt!receiptVars
  BY DEF Receipt!receiptVars
<1>. QED  BY <1>4, <1>5

LEMMA RequiredInReceipt == ASSUME JobInv PROVE Receipt!Required = Required
<1>. DEFINE O == Order(kind)
<1>1. DOMAIN O = 1..Len(O)
  BY OrderDomain
<1>2. \A a \in 1..Len(O) : O[a] \in Stages
  BY Places DEF JobInv, TypeOK
<1>3. Receipt!Required = {O[a] : a \in 1..Len(O)} \ {"matching"}
  BY <1>1 DEF Receipt!Required
<1>. HIDE DEF O
<1>. QED  BY <1>2, <1>3 DEF Required, Own, O

\* An operation is what the receipt sees of it.
LEMMA WorkInReceipt ==
    ASSUME JobInv, Course, Next, pc = "work"
    PROVE  Course' /\ [Receipt!Next]_(Receipt!receiptVars)
<1>. USE DEF capture, world
<1>1. /\ TypeOK /\ at \in 1..Len(Program(kind)) /\ Op = Program(kind)[at] /\ budget = "none" /\ store = "none"
  BY AtStage, Zenon
<1>2. Op.do # "capture" => DOMAIN Op.files \subseteq {1} /\ (Op.do # "put" => DOMAIN Op.files = {})
  BY <1>1, Places DEF TypeOK
<1>3. CASE Analyse
  <2>1. PICK n \in Charges : BudgetAfter(n) = "none" /\ Spend(n)
    BY <1>3 DEF Analyse, Obstructed
  <2>2. /\ Advance /\ UNCHANGED <<kind, files, store, exit>> /\ budget' = "none" /\ DOMAIN Op.files = {}
    BY <1>1, <1>2, <1>3, <2>1, BudgetKeepsReason DEF Analyse, InStage
  <2>3. Facts' = Facts
    BY <2>2 DEF Facts
  <2>. QED  BY <1>1, <2>2, <2>3, SucceedsInReceipt
<1>4. CASE AnalysisRefused \/ FinishRefused \/ CaptureFails \/ SettleRefused
  <2>1. StageFails /\ UNCHANGED <<kind, files, exit>>
    BY <1>4 DEF AnalysisRefused, FinishRefused, CaptureFails, SettleRefused
  <2>2. Facts' = Facts
    BY <2>1 DEF Facts
  <2>. QED  BY <2>1, <2>2, FailsReceipt
<1>5. CASE OpenWriter \/ OpenRefused
  <2>1. PICK i \in DOMAIN Op.files :
          /\ files[Op.files[i]] = "absent"
          /\ files' \in {files, [files EXCEPT ![Op.files[i]] = "open"]}
    BY <1>5 DEF OpenWriter, OpenRefused, Turn
  <2>2. Facts' = Facts
    BY <1>1, <2>1 DEF Facts, TypeOK
  <2>3. CASE OpenWriter
    <3>1. PICK n \in Charges : StoreAfter(n) = "none" /\ Spend(n)
      BY <2>3 DEF OpenWriter
    <3>2. budget' = "none" /\ store' = "none" /\ UNCHANGED <<kind, pc, at, stages, exit>>
      BY <1>1, <2>3, <3>1, BudgetKeepsReason, StoreKeepsReason DEF OpenWriter
    <3>. QED  BY <2>2, <3>2, GoesOnInReceipt
  <2>4. CASE OpenRefused
    <3>1. StageFails /\ UNCHANGED <<kind, exit>>
      BY <2>4 DEF OpenRefused
    <3>. QED  BY <2>2, <3>1, FailsReceipt
  <2>. QED  BY <1>5, <2>3, <2>4
<1>6. CASE FinishWriter
  <2>1. PICK i \in DOMAIN Op.files, n \in Charges :
          /\ Finishing(i) /\ StoreAfter(n) = "none" /\ Spend(n)
          /\ files' = [files EXCEPT ![Op.files[i]] = "complete"]
    BY <1>6 DEF FinishWriter
  <2>2. /\ budget' = "none" /\ store' = "none" /\ UNCHANGED <<kind, exit>>
        /\ IF Op.do = "put" THEN Advance ELSE UNCHANGED <<pc, at, stages, atRest>>
    BY <1>1, <1>6, <2>1, BudgetKeepsReason, StoreKeepsReason DEF FinishWriter
  <2>3. Op.files[i] \in Names
    BY <1>1, FilesAreNames
  <2>4. Facts' = Facts \cup {Op.files[i]}
    BY <1>1, <2>1, <2>3 DEF Facts, TypeOK
  <2>5. CASE Op.do = "put"
    <3>1. DOMAIN Op.files \subseteq {1}
      BY <1>2, <2>5
    <3>2. \A j \in DOMAIN Op.files : Op.files[j] \in Facts'
      BY <2>4, <3>1
    <3>. QED  BY <2>2, <2>4, <2>5, <3>2, SucceedsInReceipt
  <2>6. CASE Op.do # "put"
    <3>1. UNCHANGED <<kind, pc, at, stages, exit>>
      BY <2>2, <2>6
    <3>. QED  BY <2>2, <2>4, <3>1, GoesOnInReceipt
  <2>. QED  BY <2>5, <2>6
<1>7. CASE Spawn \/ PipeEnds \/ Reap \/ Consumer \/ Expire \/ Others
  <2>1. UNCHANGED <<kind, pc, at, stages, files, store, exit>>
    BY <1>7 DEF Spawn, PipeEnds, Reap, Consumer, Close, Exit, Expire, Others, Signal, Touch
  <2>2. budget' = "none"
    <3>1. CASE Spawn \/ PipeEnds
      <4>1. PICK n \in Charges : BudgetAfter(n) = "none" /\ Spend(n)
        BY <3>1 DEF Spawn, PipeEnds
      <4>. QED  BY <1>1, <4>1, BudgetKeepsReason
    <3>2. CASE Reap \/ Consumer \/ Expire \/ Others
      BY <1>1, <3>2 DEF Reap, Consumer, Close, Exit, Expire, Others, Signal, Touch
    <3>. QED  BY <1>7, <3>1, <3>2
  <2>. QED  BY <1>1, <2>1, <2>2, NotInReceipt
<1>8. CASE Settle
  <2>1. PICK n \in Charges : BudgetAfter(n) = "none" /\ Spend(n)
    BY <1>8 DEF Settle
  <2>2. /\ Advance /\ UNCHANGED <<kind, files, store, exit>> /\ budget' = "none"
        /\ \A f \in OpFiles : files[f] = "complete"
    BY <1>1, <1>8, <2>1, BudgetKeepsReason DEF Settle, Captured
  <2>3. Facts' = Facts
    BY <2>2 DEF Facts
  <2>4. \A j \in DOMAIN Op.files : Op.files[j] \in Facts
    BY <1>1, <2>2, FilesAreNames DEF Facts, OpFiles
  <2>. QED  BY <1>1, <2>2, <2>3, <2>4, SucceedsInReceipt
<1>. QED  BY <1>3, <1>4, <1>5, <1>6, <1>7, <1>8 DEF Next, Job, Admit, RefuseAdmission, Attest, Finalize,
            AttestRefused, Recheck, Seal, EntryFails, Deliver

\* Admission, the closing checks and the hand-over.
LEMMA RestInReceipt ==
    ASSUME JobInv, Course, Next, pc # "work"
    PROVE  Course' /\ [Receipt!Next]_(Receipt!receiptVars)
<1>. USE DEF capture, world
<1>1. TypeOK /\ \A s \in Stages : stages[s] # "not_run" => Own(s)
  BY DEF JobInv, Course
<1>2. CASE Admit
  <2>1. /\ pc = "admit" /\ pc' = "work" /\ UNCHANGED <<kind, at, stages, files, budget, store, exit>>
        /\ at = 1 /\ \A s \in Stages : stages[s] = "not_run"
    BY <1>2 DEF Admit, JobInv, Knowledge, Outset
  <2>2. Retained(at)'
    BY <2>1 DEF Retained
  <2>3. Progress'
    <3>1. Len(Order(kind)) \in {6, 7} /\ Place(kind)[1] = 1 /\ \A a \in 1..Len(Order(kind)) : Order(kind)[a] \in Stages
      BY <1>1, Places DEF TypeOK
    <3>. QED  BY <2>1, <3>1 DEF Progress
  <2>4. Course'
    BY <2>1, <2>2, <2>3 DEF Course
  <2>5. UNCHANGED Receipt!receiptVars
    BY <2>1 DEF Receipt!receiptVars
  <2>. QED  BY <2>4, <2>5
<1>3. CASE Attest \/ Seal
  <2>1. PICK n \in Charges : BudgetAfter(n) = "none" /\ Spend(n)
    BY <1>3 DEF Attest, Seal, Fault
  <2>2. budget' = "none" /\ budget = "none"
    BY <1>1, <2>1, BudgetKeepsReason
  <2>3. UNCHANGED <<kind, stages, files, store, exit>>
    BY <1>3 DEF Attest, Seal
  <2>4. {pc, pc'} \subseteq {"attest", "recheck", "seal", "deliver"}
    BY <1>3 DEF Attest, Seal
  <2>. QED  BY <2>2, <2>3, <2>4, NotInReceipt
<1>4. CASE Recheck
  <2>1. UNCHANGED <<kind, stages, files, budget, store, exit>>
    BY <1>4 DEF Recheck
  <2>2. {pc, pc'} \subseteq {"attest", "recheck", "seal", "deliver"}
    BY <1>4 DEF Recheck
  <2>. QED  BY <2>1, <2>2, NotInReceipt
<1>5. CASE Finalize
  <2>1. pc = "attest" /\ ~Failed
    BY <1>5 DEF Finalize, JobInv, Knowledge, AtAttest
  <2>2. "finalization" \in Required
    BY <1>1, Places DEF Required, TypeOK
  <2>3. stages["finalization"] = "succeeded"
    BY <2>1, <2>2 DEF Course
  <2>4. stages' = [stages EXCEPT !["finalization"] = "succeeded"]
        /\ UNCHANGED <<kind, files, budget, store, exit>> /\ pc' \in {"recheck", "deliver"}
    BY <1>5 DEF Finalize, AfterJob
  <2>5. stages' = stages
    BY <1>1, <2>3, <2>4 DEF TypeOK
  <2>6. {pc, pc'} \subseteq {"attest", "recheck", "seal", "deliver"}
    BY <2>1, <2>4
  <2>. QED  BY <2>4, <2>5, <2>6, NotInReceipt
<1>6. CASE AttestRefused
  <2>1. /\ pc = "attest" /\ ~Failed /\ exit = "none"
        /\ pc' \in {"recheck", "deliver"} /\ UNCHANGED <<kind, files, exit>>
        /\ stages' = [stages EXCEPT !["finalization"] = "failed"]
    BY <1>6 DEF AttestRefused, AfterJob, JobInv, Knowledge, AtAttest, AtEnd
  <2>2. "finalization" \in Stages \ {"matching"} /\ Own("finalization")
    BY <1>1, Places DEF TypeOK, Stages
  <2>3. Failed' /\ stages'["finalization"] = "failed"
    BY <1>1, <2>1, <2>2 DEF Failed, TypeOK
  <2>4. (budget # "none" => budget' = budget) /\ (store # "none" => store' = store)
    BY <1>6, OutsideTheStages
  <2>5. Course'
    <3>1. \A s \in Stages : Own(s)' <=> Own(s)
      BY <2>1 DEF Own
    <3>2. \A s \in Stages : stages'[s] # "not_run" => Own(s)'
      BY <1>1, <2>1, <2>2, <3>1 DEF TypeOK
    <3>. QED  BY <2>1, <2>3, <3>2 DEF Course
  <2>6. \A s \in Receipt!Required : stages[s] = "succeeded"
    BY <2>1, RequiredInReceipt DEF Course
  <2>7. Receipt!Withdraw
    BY <2>1, <2>4, <2>6 DEF Receipt!Withdraw
  <2>. QED  BY <2>5, <2>7 DEF Receipt!Next
<1>7. CASE RefuseAdmission \/ EntryFails \/ Deliver
  <2>1. /\ pc \in {"admit", "recheck", "seal", "deliver"} /\ pc' = "done" /\ exit = "none"
        /\ UNCHANGED <<kind, stages, files>>
    BY <1>7 DEF RefuseAdmission, EntryFails, Deliver, JobInv, Knowledge, AtEnd
  <2>2. (budget # "none" => budget' = budget) /\ (store # "none" => store' = store)
    BY <1>7, OutsideTheStages
  <2>3. Course'
    <3>1. \A s \in Stages : Own(s)' <=> Own(s)
      BY <2>1 DEF Own
    <3>. QED  BY <1>1, <2>1, <3>1 DEF Course
  <2>4. CASE exit' = "refused"
    <3>1. Receipt!Hand("refused")
      BY <2>1, <2>2, <2>4 DEF Receipt!Hand
    <3>. QED  BY <2>3, <3>1 DEF Receipt!Next
  <2>5. CASE exit' # "refused"
    <3>1. /\ pc = "deliver" /\ exit' = (IF Failed THEN "unfinalized" ELSE "finalized")
          /\ UNCHANGED <<budget, store>>
      BY <1>7, <2>5 DEF RefuseAdmission, EntryFails, Deliver
    <3>2. CASE Failed
      <4>1. PICK s \in Stages \ {"matching"} : stages[s] = "failed"
        BY <3>2 DEF Failed
      <4>2. s \in Required
        BY <1>1, <4>1 DEF Required
      <4>3. Receipt!Broken
        BY <4>1, <4>2, RequiredInReceipt DEF Receipt!Broken
      <4>4. Receipt!Hand("unfinalized")
        BY <2>1, <3>1, <3>2, <4>3 DEF Receipt!Hand
      <4>. QED  BY <2>3, <4>4 DEF Receipt!Next
    <3>3. CASE ~Failed
      <4>1. budget = "none" /\ store = "none"
        BY <3>1, <3>3 DEF JobInv, Knowledge, AtClose, Whole
      <4>2. \A s \in Receipt!Required : stages[s] = "succeeded"
        BY <3>1, <3>3, RequiredInReceipt DEF Course
      <4>3. Receipt!Hand("finalized")
        BY <2>1, <3>1, <3>3, <4>1, <4>2 DEF Receipt!Hand
      <4>. QED  BY <2>3, <4>3 DEF Receipt!Next
    <3>. QED  BY <3>2, <3>3
  <2>. QED  BY <2>4, <2>5
<1>8. CASE Consumer \/ Expire \/ Others
  <2>1. UNCHANGED <<kind, pc, at, stages, files, budget, store, exit>>
    BY <1>8 DEF Consumer, Close, Exit, Expire, Others, Signal, Touch
  <2>. QED  BY <2>1, NotInReceipt
<1>. QED  BY <1>2, <1>3, <1>4, <1>5, <1>6, <1>7, <1>8 DEF Next, Job, Analyse, AnalysisRefused, OpenWriter,
            OpenRefused, FinishWriter, FinishRefused, Spawn, PipeEnds, Reap, CaptureFails, Settle,
            SettleRefused, Capturing, Captured, Finishing, InStage

LEMMA ReceiptInitially == Init => Course /\ Receipt!Init
BY DEF Init, Course, Facts, Receipt!Init

LEMMA ReceiptStep == ASSUME JobInv, Course, [Next]_vars PROVE Course' /\ [Receipt!Next]_(Receipt!receiptVars)
<1>1. CASE Next
  BY <1>1, WorkInReceipt, RestInReceipt
<1>2. CASE UNCHANGED vars
  BY <1>2, NotInReceipt DEF vars
<1>. QED  BY <1>1, <1>2

\* The job implements its receipt: its stages succeed in the controller's order, each
\* with all its artifacts; one that fails ends the job and keeps what was retained
\* before it; a refusal ends both; and finalized is what succeeded in every stage, the
\* matching apart.
THEOREM JobImplementsReceipt == Spec => ImplementsReceipt
<1>1. Init => Course /\ Receipt!Init
  BY ReceiptInitially
<1>2. JobInv /\ Course /\ [Next]_vars => Course' /\ [Receipt!Next]_(Receipt!receiptVars)
  BY ReceiptStep
<1>. QED  BY <1>1, <1>2, JobAlways, PTL DEF Spec, ImplementsReceipt, Receipt!Spec
=============================================================================
