-------------------------- MODULE InventoryReceipt --------------------------
(***************************************************************************)
(* What the receipt of an inventory job says, with no ledgers, consumers,  *)
(* clocks or closing checks in it (inventory/dependency_job.py,            *)
(* inventory/direct_pipeline.py): the stages of a controller succeed in    *)
(* its order and leave their artifacts behind; the first that fails is the *)
(* last that ran, and what was retained before it stays; after a refusal   *)
(* nothing succeeds and nothing is retained. The matching alone may fail   *)
(* and the job be finalized all the same.                                  *)
(***************************************************************************)
EXTENDS Integers, Sequences

CONSTANTS
    Kinds,            \* the controllers
    Stages,           \* the stages of all of them
    Order(_),         \* of a controller: its stages in their order
    Artifacts(_, _)   \* of a controller and a stage: what the stage retains

VARIABLES
    kind,      \* the controller that runs
    stages,    \* what has become of each stage
    facts,     \* the artifacts retained
    refused,   \* a ledger has refused
    exit       \* what the parent gets

receiptVars == <<kind, stages, facts, refused, exit>>

Init ==
    /\ kind \in Kinds
    /\ stages = [s \in Stages |-> "not_run"]
    /\ facts = {}
    /\ refused = FALSE
    /\ exit = "none"

\* The stages the finalization answers for.
Required == {Order(kind)[i] : i \in DOMAIN Order(kind)} \ {"matching"}

Broken == \E s \in Required : stages[s] = "failed"

\* It is this stage's turn.
Due(s) ==
    /\ exit = "none"
    /\ \E i \in DOMAIN Order(kind) :
         /\ Order(kind)[i] = s
         /\ \A j \in 1..(i - 1) : stages[Order(kind)[j]] = "succeeded"
    /\ stages[s] = "not_run"

Retains(s) == facts' = facts \/ \E f \in Artifacts(kind, s) : facts' = facts \cup {f}

Work(s) ==
    /\ Due(s) /\ ~refused
    /\ Retains(s)
    /\ UNCHANGED <<kind, stages, refused, exit>>

\* A stage has only succeeded with all its artifacts.
Succeed(s) ==
    /\ Due(s) /\ ~refused
    /\ Retains(s)
    /\ Artifacts(kind, s) \subseteq facts'
    /\ stages' = [stages EXCEPT ![s] = "succeeded"]
    /\ UNCHANGED <<kind, refused, exit>>

\* With or without a refusal.
Fail(s) ==
    /\ Due(s) /\ ~refused
    /\ stages' = [stages EXCEPT ![s] = "failed"]
    /\ refused' \in BOOLEAN
    /\ UNCHANGED <<kind, facts, exit>>

\* A closing check finds that what was finalized no longer is what it was.
Withdraw ==
    /\ exit = "none"
    /\ \A s \in Required : stages[s] = "succeeded"
    /\ stages' = [stages EXCEPT !["finalization"] = "failed"]
    /\ refused' \in {TRUE, refused}
    /\ UNCHANGED <<kind, facts, exit>>

\* Finalized is only what succeeded throughout and was not refused to the end.
Hand(e) ==
    /\ exit = "none"
    /\ e = "finalized" => ~refused /\ \A s \in Required : stages[s] = "succeeded"
    /\ e = "unfinalized" => Broken
    /\ exit' = e
    /\ refused' \in IF e = "refused" THEN {TRUE, refused} ELSE {refused}
    /\ UNCHANGED <<kind, stages, facts>>

Next ==
    \/ \E s \in Stages : Work(s) \/ Succeed(s) \/ Fail(s)
    \/ Withdraw
    \/ \E e \in {"finalized", "unfinalized", "refused"} : Hand(e)

Spec == Init /\ [][Next]_receiptVars
=============================================================================
