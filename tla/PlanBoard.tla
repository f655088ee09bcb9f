------------------------------- MODULE PlanBoard -------------------------------
(***************************************************************************)
(* The plan scripts: push-plans.py turns a plan into issues on a project   *)
(* board, agents take them with pull-plan.py or claim-plan.sh and close    *)
(* them with complete-plan.py. Board and issues are on GitHub; each agent  *)
(* works in a directory of its own that holds one context file. Any script *)
(* may be killed, and any call may fail with or without its effect.        *)
(* The board is that of the organization: it holds issues of other         *)
(* repositories too, whose numbers the scripts cannot tell from its own.   *)
(*                                                                         *)
(* Tasks are numbered from 0, as depends_on numbers them.                  *)
(***************************************************************************)
EXTENDS Integers, Sequences, FiniteSets

CONSTANTS
    Plan,       \* the depends_on of each task: a sequence of sets of indexes
    Agents,
    Shared,     \* numbers an issue of another repository on the board has too
    MaxIssues   \* bound of the model: issues ever created

\* scripts/plan-template.json: "Dependencies reference earlier tasks by their 0-based index."
ASSUME PlanAssumption ==
    /\ Plan \in Seq(SUBSET Nat)
    /\ \A k \in DOMAIN Plan : \A d \in Plan[k] : d \in 0..(k - 2)
    /\ Shared \subseteq 1..MaxIssues
    /\ MaxIssues \in Nat

Status == {"absent", "none", "Todo", "In Progress", "Done"}

VARIABLES
    issues,     \* created issues in order: the task, and the issues its body links
    board,      \* status of each issue on the board
    push,       \* "idle", "create", "add", "todo"
    created,    \* created_issues of the running push
    agent,      \* step of each agent
    snapshot,   \* what pull-plan.py keeps of its listing: Todo issues, numbers Done
    task,       \* the issue each agent works on
    context,    \* issue of the .plan-context.md pull-plan.py wrote, 0 for no such file
    finished,   \* issues that were Done at some time (history)
    mistaken    \* numbers of other repositories' issues a listing showed Done (history)

boardVars ==
    <<issues, board, push, created, agent, snapshot, task, context, finished, mistaken>>

Numbers == 1..MaxIssues

BoardTypeOK ==
    /\ issues \in Seq([task : DOMAIN Plan, links : SUBSET Numbers]) /\ Len(issues) <= MaxIssues
    /\ board \in [Numbers -> Status]
    /\ push \in {"idle", "create", "add", "todo"}
    /\ created \in Seq(Numbers) /\ Len(created) <= Len(Plan)
    /\ agent \in [Agents -> {"idle", "pick", "write", "assign", "move", "done", "unlink"}]
    /\ snapshot \in [Agents -> [todo : SUBSET Numbers, done : SUBSET Numbers]]
    /\ task \in [Agents -> Numbers \cup {0}]
    /\ context \in [Agents -> Numbers \cup {0}]
    /\ finished \subseteq Numbers
    /\ mistaken \subseteq Shared

NoListing == [todo |-> {}, done |-> {}]

BoardInit ==
    /\ issues = <<>>
    /\ board = [n \in Numbers |-> "absent"]
    /\ push = "idle" /\ created = <<>>
    /\ agent = [a \in Agents |-> "idle"]
    /\ snapshot = [a \in Agents |-> NoListing]
    /\ task = [a \in Agents |-> 0]
    /\ context = [a \in Agents |-> 0]
    /\ finished = {}
    /\ mistaken = {}

(***************************************************************************)
(* push-plans.py. A failed call ends it; the next run starts at the first  *)
(* task again and creates every issue anew.                                *)
(***************************************************************************)
PushStart ==
    /\ push = "idle"
    /\ push' = "create"
    /\ created' = <<>>
    /\ UNCHANGED <<issues, board, agent, snapshot, task, context, finished, mistaken>>

\* Slip: indexes taken as if they began with 1.
LinkedFromOne(deps) == {created[d] : d \in {e \in deps : e \in DOMAIN created}}

\* build_issue_body: only tasks this run has created so far can be linked.
Linked(deps) == {created[d + 1] : d \in {e \in deps : e + 1 \in DOMAIN created}}

CreateIssue ==
    LET k == Len(created) + 1 IN
    /\ push = "create" /\ k \in DOMAIN Plan /\ Len(issues) < MaxIssues
    /\ issues' = Append(issues, [task |-> k, links |-> Linked(Plan[k])])
    /\ push' \in {"add", "idle"}
    /\ created' = IF push' = "idle" THEN <<>> ELSE Append(created, Len(issues) + 1)
    /\ UNCHANGED <<board, agent, snapshot, task, context, finished, mistaken>>

AddToProject ==
    /\ push = "add"
    /\ board' = [board EXCEPT ![created[Len(created)]] = "none"]
    /\ \/ push' = "todo" /\ UNCHANGED created
       \/ push' = "idle" /\ created' = <<>>
    /\ UNCHANGED <<issues, agent, snapshot, task, context, finished, mistaken>>

\* The status is set whatever it is by now: the issue may have been claimed.
SetTodo ==
    /\ push = "todo"
    /\ board' = [board EXCEPT ![created[Len(created)]] = "Todo"]
    /\ \/ push' = "create" /\ UNCHANGED created
       \/ push' = "idle" /\ created' = <<>>
    /\ UNCHANGED <<issues, agent, snapshot, task, context, finished, mistaken>>

\* The last task was pushed, a call failed without effect, or a kill.
PushEnd ==
    /\ push # "idle"
    /\ push' = "idle" /\ created' = <<>>
    /\ UNCHANGED <<issues, board, agent, snapshot, task, context, finished, mistaken>>

(***************************************************************************)
(* pull-plan.py.                                                           *)
(***************************************************************************)

\* An agent's script goes on with an issue, or ends and forgets it.
Goes(a, next, n) ==
    /\ agent' = [agent EXCEPT ![a] = next]
    /\ task' = [task EXCEPT ![a] = IF next = "idle" THEN 0 ELSE n]

DoneOn(b) == {n \in Numbers : b[n] = "Done"}

\* Issues of other repositories are no candidates, but Done they count by number:
\* whichever of them are so when the board is listed.
Pull(a) ==
    /\ agent[a] = "idle"
    /\ \E others \in SUBSET Shared :
         /\ snapshot' = [snapshot EXCEPT ![a] =
                           [todo |-> {n \in Numbers : board[n] = "Todo"},
                            done |-> DoneOn(board) \cup others]]
         /\ mistaken' = mistaken \cup others
    /\ agent' = [agent EXCEPT ![a] = "pick"]
    /\ UNCHANGED <<issues, board, push, created, task, context, finished>>

\* The first candidate whose links are all Done; candidates whose body cannot be
\* read are skipped, so it may be any. Status and links are those of the listing.
Claim(a) ==
    /\ agent[a] = "pick"
    /\ \E n \in DOMAIN issues :
         /\ n \in snapshot[a].todo
         /\ issues[n].links \subseteq snapshot[a].done
         /\ board' = [board EXCEPT ![n] = "In Progress"]
         /\ \E next \in {"write", "idle"} : Goes(a, next, n)
    /\ snapshot' = [snapshot EXCEPT ![a] = NoListing]
    /\ UNCHANGED <<issues, push, created, context, finished, mistaken>>

\* The assignment before it may fail and nothing changes.
WriteContext(a) ==
    /\ agent[a] = "write"
    /\ context' = [context EXCEPT ![a] = task[a]]
    /\ Goes(a, "idle", 0)
    /\ UNCHANGED <<issues, board, push, created, snapshot, finished, mistaken>>

(***************************************************************************)
(* claim-plan.sh: any issue, whatever its status and its dependencies; the *)
(* context file comes first, and complete-plan.py cannot read its format.    *)
(***************************************************************************)
ClaimByNumber(a) ==
    /\ agent[a] = "idle"
    /\ \E n \in DOMAIN issues : Goes(a, "move", n)
    /\ context' = [context EXCEPT ![a] = 0]
    /\ UNCHANGED <<issues, board, push, created, snapshot, finished, mistaken>>

MoveToProgress(a) ==
    /\ agent[a] = "move" /\ board[task[a]] # "absent"
    /\ board' = [board EXCEPT ![task[a]] = "In Progress"]
    /\ Goes(a, "idle", 0)
    /\ UNCHANGED <<issues, push, created, snapshot, context, finished, mistaken>>

(***************************************************************************)
(* complete-plan.py. The branch is pushed first; a push that fails is only *)
(* a warning.                                                              *)
(***************************************************************************)
Complete(a) ==
    /\ agent[a] = "idle" /\ context[a] # 0
    /\ Goes(a, "done", context[a])
    /\ UNCHANGED <<issues, board, push, created, snapshot, context, finished, mistaken>>

SetDone(a) ==
    /\ agent[a] = "done"
    /\ IF board[task[a]] = "absent" THEN UNCHANGED <<board, finished>>
       ELSE /\ board' = [board EXCEPT ![task[a]] = "Done"]
            /\ finished' = finished \cup {task[a]}
    /\ \E next \in {"unlink", "idle"} : Goes(a, next, task[a])
    /\ UNCHANGED <<issues, push, created, snapshot, context, mistaken>>

Unlink(a) ==
    /\ agent[a] = "unlink"
    /\ context' = [context EXCEPT ![a] = 0]
    /\ Goes(a, "idle", 0)
    /\ UNCHANGED <<issues, board, push, created, snapshot, finished, mistaken>>

\* Nothing to take, a call that failed without effect, or a kill.
AgentEnd(a) ==
    /\ agent[a] # "idle"
    /\ Goes(a, "idle", 0)
    /\ snapshot' = [snapshot EXCEPT ![a] = NoListing]
    /\ UNCHANGED <<issues, board, push, created, context, finished, mistaken>>

BoardNext ==
    \/ PushStart \/ CreateIssue \/ AddToProject \/ SetTodo \/ PushEnd
    \/ \E a \in Agents :
         \/ Pull(a) \/ Claim(a) \/ WriteContext(a) \/ ClaimByNumber(a) \/ MoveToProgress(a)
         \/ Complete(a) \/ SetDone(a) \/ Unlink(a) \/ AgentEnd(a)

BoardSpec == BoardInit /\ [][BoardNext]_boardVars

(***************************************************************************)
(* Properties.                                                             *)
(***************************************************************************)

\* The tasks a task depends on that have an issue whose number was Done at some time.
Provided(n) ==
    {d \in Plan[issues[n].task] :
        \E m \in finished \cup mistaken : m \in DOMAIN issues /\ issues[m].task = d + 1}

\* A context file pull-plan.py wrote is for a task all of whose dependencies in
\* the plan were finished under some issue, whatever runs of push-plans.py were
\* cut short, whatever is Done twice or reopened, and however old the listing was
\* (pull-plan.py:221-229, push-plans.py:147-152) - or for one an issue of another
\* repository, Done under the same number, was taken for (pull-plan.py:162-174).
DependenciesFirst ==
    \A a \in Agents :
        context[a] # 0 => Provided(context[a]) = Plan[issues[context[a]].task]
=============================================================================
