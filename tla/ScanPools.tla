------------------------------ MODULE ScanPools ------------------------------
(***************************************************************************)
(* The two ways a command runs its scanners: contract-scan by the plan,    *)
(* through execute_scan_plan (ScanPlan), scan all at once, through the     *)
(* scanner manager (ScannerPool). A behavior is one of one command; the    *)
(* other one's state stays in one of the states it may start in.           *)
(***************************************************************************)
EXTENDS ScanPlan, ScannerPool

CONSTANT Commands

ASSUME CommandsAssumption == Commands \subseteq {"contract-scan", "scan"}

VARIABLE command

poolsVars == <<command, vars, poolVars>>

PoolsInit ==
    /\ command \in Commands
    /\ Init
    /\ command # "contract-scan" => plan = CHOOSE p \in Plans : TRUE
    /\ PoolInit
    /\ command # "scan" => raw /\ workers = CHOOSE w \in WorkerChoices : TRUE

\* One step of one command; the other one's variables stay.
InPlan(Step) == command = "contract-scan" /\ Step /\ UNCHANGED <<command, poolVars>>
InManager(Step) == command = "scan" /\ Step /\ UNCHANGED <<command, vars>>

PoolsNext == InPlan(Next) \/ InManager(PoolNext)

\* The fairness of both: the calling thread and the workers are scheduled, and every
\* scanner ends.
PoolsSpec ==
    /\ PoolsInit /\ [][PoolsNext]_poolsVars
    /\ WF_poolsVars(InPlan(Main)) /\ WF_poolsVars(InPlan(Workers))
    /\ WF_poolsVars(InManager(Tools)) /\ WF_poolsVars(InManager(Caller))

\* contract-scan always ends, whichever scanners are stopped, late or never started.
PlanEnds == command = "contract-scan" => Termination

\* A scan always ends, whatever its tools do after the first failure.
ManagerEnds == command = "scan" => PoolTermination
=============================================================================
