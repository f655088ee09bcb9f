----------------------------- MODULE WriterProofs -----------------------------
(***************************************************************************)
(* What the tool writes to the platform the repository is on: the issues   *)
(* of a plan, whose order holds for every plan and any number of agents,   *)
(* runs of push-plans.py and issues; the request of rotate-secrets, what   *)
(* it says was done being so for every list of leaks, every number of runs *)
(* and every failure between two calls; and the comments of pr-comment,    *)
(* which are on the lines a request adds, for every diff and findings.     *)
(***************************************************************************)
EXTENDS PlanBoard, SecretRotation, PullRequestComments, FiniteSetTheorems, SequenceTheorems, TLAPS

-----------------------------------------------------------------------------
(* The plan board.                                                         *)

\* Only what the argument needs of the types: numbers of issues and lengths.
BoardShape ==
    /\ issues \in Seq([task : DOMAIN Plan, links : SUBSET Numbers]) /\ Len(issues) <= MaxIssues
    /\ board \in [Numbers -> Status]
    /\ created \in Seq(Numbers)
    /\ agent \in [Agents -> {"idle", "pick", "write", "assign", "move", "done", "unlink"}]
    /\ snapshot \in [Agents -> [todo : SUBSET Numbers, done : SUBSET Numbers]]
    /\ task \in [Agents -> Numbers \cup {0}]
    /\ context \in [Agents -> Numbers \cup {0}]

\* The issues of the running push are those of the first tasks, in order.
PushInOrder ==
    \A j \in DOMAIN created : created[j] \in DOMAIN issues /\ issues[created[j]].task = j

\* Every issue links an issue of every task its own depends on: when it was created, all
\* earlier tasks had theirs.
LinksComplete ==
    \A n \in DOMAIN issues : \A d \in Plan[issues[n].task] :
        \E m \in issues[n].links : m \in DOMAIN issues /\ issues[m].task = d + 1

\* What the scripts can take for finished.
Passing == finished \cup mistaken

\* What is Done was finished, and what a listing shows as Done was, here or elsewhere.
DoneWasFinished ==
    /\ DoneOn(board) \subseteq finished
    /\ \A a \in Agents : snapshot[a].done \subseteq Passing

Ready(n) == n \in DOMAIN issues /\ issues[n].links \subseteq Passing

OnlyReadyTaken ==
    \A a \in Agents : /\ agent[a] = "write" => Ready(task[a])
                      /\ context[a] # 0 => Ready(context[a])

BoardInv == BoardShape /\ PushInOrder /\ LinksComplete /\ DoneWasFinished /\ OnlyReadyTaken

LEMMA PlanFacts ==
    /\ Plan \in Seq(SUBSET Nat) /\ MaxIssues \in Nat /\ Shared \subseteq Numbers
    /\ \A k \in DOMAIN Plan : k \in Nat /\ \A d \in Plan[k] : d \in Nat /\ d + 1 \in 1..k - 1
<1>1. Plan \in Seq(SUBSET Nat) /\ \A k \in DOMAIN Plan : \A d \in Plan[k] : d \in 0..k - 2
  BY PlanAssumption
<1>2. ASSUME NEW k \in DOMAIN Plan PROVE k \in Nat
  BY <1>1, <1>2
<1>3. ASSUME NEW k \in DOMAIN Plan, NEW d \in Plan[k] PROVE d \in Nat /\ d + 1 \in 1..k - 1
  BY <1>1, <1>2, <1>3
<1>. QED  BY <1>1, <1>2, <1>3, PlanAssumption DEF Numbers

LEMMA BoardInitially == BoardInit => BoardInv
BY PlanFacts DEF BoardInit, BoardInv, BoardShape, PushInOrder, LinksComplete, DoneWasFinished, DoneOn,
                 OnlyReadyTaken, NoListing, Status, Numbers

\* The invariant looks at issues, at finished, and at what each part of it names.
LEMMA IssueKeeps == BoardInv /\ CreateIssue => BoardInv'
<1>. SUFFICES ASSUME BoardInv, CreateIssue PROVE BoardInv'
  OBVIOUS
<1>. DEFINE k == Len(created) + 1
            issue == [task |-> k, links |-> Linked(Plan[k])]
<1>1. /\ k \in DOMAIN Plan /\ k \in Nat /\ Len(issues) < MaxIssues /\ Len(issues) \in Nat
      /\ MaxIssues \in Nat
  BY PlanFacts DEF CreateIssue, BoardInv, BoardShape
<1>2. issues' = Append(issues, issue) /\ issue \in [task : DOMAIN Plan, links : SUBSET Numbers]
  <2>1. Linked(Plan[k]) \subseteq Numbers
    <3>1. \A j \in DOMAIN created : created[j] \in Numbers
      BY DEF BoardInv, BoardShape
    <3>. QED  BY <3>1 DEF Linked
  <2>. QED  BY <1>1, <2>1 DEF CreateIssue
<1>3. /\ issues' \in Seq([task : DOMAIN Plan, links : SUBSET Numbers])
      /\ Len(issues') = Len(issues) + 1
      /\ DOMAIN issues' = DOMAIN issues \cup {Len(issues) + 1}
      /\ \A n \in DOMAIN issues : issues'[n] = issues[n]
      /\ issues'[Len(issues) + 1] = issue
  BY <1>1, <1>2 DEF BoardInv, BoardShape
<1>4. /\ created' = <<>> \/ created' = Append(created, Len(issues) + 1)
      /\ UNCHANGED <<board, agent, snapshot, task, context, finished, mistaken>>
  BY DEF CreateIssue
<1>5. Len(issues) + 1 \in Numbers
  BY <1>1 DEF Numbers
<1>6. BoardShape'
  <2>1. created' \in Seq(Numbers)
    <3>1. created \in Seq(Numbers)
      BY DEF BoardInv, BoardShape
    <3>2. Append(created, Len(issues) + 1) \in Seq(Numbers)
      BY <1>5, <3>1
    <3>. QED  BY <1>4, <3>2, EmptySeq
  <2>. QED  BY <1>1, <1>3, <1>4, <2>1 DEF BoardInv, BoardShape
<1>7. PushInOrder'
  <2>1. CASE created' = <<>>
    BY <2>1 DEF PushInOrder
  <2>2. CASE created' = Append(created, Len(issues) + 1)
    <3>1. /\ DOMAIN created' = DOMAIN created \cup {k}
          /\ \A j \in DOMAIN created : created'[j] = created[j]
          /\ created'[k] = Len(issues) + 1
      BY <2>2 DEF BoardInv, BoardShape
    <3>. QED  BY <1>3, <3>1 DEF PushInOrder, BoardInv
  <2>. QED  BY <1>4, <2>1, <2>2
<1>8. LinksComplete'
  <2>1. ASSUME NEW n \in DOMAIN issues, NEW d \in Plan[issues[n].task]
        PROVE  \E m \in issues'[n].links : m \in DOMAIN issues' /\ issues'[m].task = d + 1
    BY <1>3, <2>1 DEF LinksComplete, BoardInv
  <2>2. ASSUME NEW d \in Plan[k]
        PROVE  \E m \in issue.links : m \in DOMAIN issues' /\ issues'[m].task = d + 1
    <3>1. d \in Nat /\ d + 1 \in DOMAIN created
      BY <1>1, <2>2, PlanFacts DEF BoardInv, BoardShape
    <3>2. created[d + 1] \in Linked(Plan[k])
      BY <2>2, <3>1 DEF Linked
    <3>3. created[d + 1] \in DOMAIN issues /\ issues[created[d + 1]].task = d + 1
      BY <3>1 DEF PushInOrder, BoardInv
    <3>. QED  BY <1>3, <3>2, <3>3
  <2>. QED  BY <1>3, <2>1, <2>2 DEF LinksComplete
<1>9. OnlyReadyTaken'
  BY <1>3, <1>4 DEF OnlyReadyTaken, Ready, Passing, BoardInv
<1>10. DoneWasFinished'
  BY <1>4 DEF DoneWasFinished, DoneOn, Passing, BoardInv
<1>. QED  BY <1>6, <1>7, <1>8, <1>9, <1>10 DEF BoardInv

\* The other steps of push-plans.py.
LEMMA PushKeeps == BoardInv /\ (PushStart \/ AddToProject \/ SetTodo \/ PushEnd) => BoardInv'
<1>. SUFFICES ASSUME BoardInv, PushStart \/ AddToProject \/ SetTodo \/ PushEnd PROVE BoardInv'
  OBVIOUS
<1>1. /\ created' = created \/ created' = <<>>
      /\ board' = board \/ \E x, s : s \in {"none", "Todo"} /\ board' = [board EXCEPT ![x] = s]
      /\ UNCHANGED <<issues, agent, snapshot, task, context, finished, mistaken>>
  BY DEF PushStart, AddToProject, SetTodo, PushEnd
<1>2. board' \in [Numbers -> Status] /\ DoneOn(board') \subseteq DoneOn(board)
  <2>1. CASE board' = board
    BY <2>1 DEF BoardInv, BoardShape
  <2>2. ASSUME NEW s \in {"none", "Todo"}, NEW x, board' = [board EXCEPT ![x] = s]
        PROVE  board' \in [Numbers -> Status] /\ DoneOn(board') \subseteq DoneOn(board)
    <3>1. s \in Status /\ s # "Done"
      BY DEF Status
    <3>2. \A n \in Numbers : board'[n] = board[n] \/ board'[n] = s
      BY <2>2 DEF BoardInv, BoardShape
    <3>3. board' \in [Numbers -> Status]
      BY <2>2, <3>1 DEF BoardInv, BoardShape
    <3>. QED  BY <3>1, <3>2, <3>3 DEF DoneOn
  <2>. QED  BY <1>1, <2>1, <2>2
<1>3. BoardShape'
  <2>1. created' \in Seq(Numbers)
    <3>1. created \in Seq(Numbers)
      BY DEF BoardInv, BoardShape
    <3>. QED  BY <1>1, <3>1, EmptySeq
  <2>. QED  BY <1>1, <1>2, <2>1 DEF BoardInv, BoardShape
<1>4. PushInOrder'
  BY <1>1 DEF BoardInv, PushInOrder
<1>5. LinksComplete'
  BY <1>1 DEF BoardInv, LinksComplete
<1>6. DoneWasFinished'
  BY <1>1, <1>2 DEF BoardInv, DoneWasFinished, DoneOn, Passing
<1>7. OnlyReadyTaken'
  BY <1>1 DEF BoardInv, OnlyReadyTaken, Ready, Passing
<1>. QED  BY <1>3, <1>4, <1>5, <1>6, <1>7 DEF BoardInv

\* A step of an agent: it creates nothing, what was finished stays so, and what it takes
\* next is ready.
LEMMA AgentKeeps ==
    ASSUME BoardInv, NEW a \in Agents,
           UNCHANGED <<issues, created>>, BoardShape',
           finished \subseteq finished', mistaken \subseteq mistaken', DoneOn(board') \subseteq finished',
           \A b \in Agents : snapshot'[b] = snapshot[b] \/ snapshot'[b].done \subseteq Passing',
           \A b \in Agents : b # a => agent'[b] = agent[b] /\ task'[b] = task[b] /\ context'[b] = context[b],
           agent'[a] = "write" => Ready(task'[a]),
           context'[a] # 0 => Ready(context'[a])
    PROVE  BoardInv'
<1>1. PushInOrder' /\ LinksComplete'
  BY DEF BoardInv, PushInOrder, LinksComplete
<1>2. DoneWasFinished'
  BY DEF BoardInv, DoneWasFinished, DoneOn, Passing
<1>3. OnlyReadyTaken'
  BY DEF BoardInv, OnlyReadyTaken, Ready, Passing
<1>. QED  BY <1>1, <1>2, <1>3 DEF BoardInv

LEMMA TypesOfGoes ==
    ASSUME BoardShape, NEW a \in Agents, NEW n \in Numbers \cup {0},
           NEW next \in {"idle", "pick", "write", "assign", "move", "done", "unlink"}, Goes(a, next, n)
    PROVE  /\ agent' \in [Agents -> {"idle", "pick", "write", "assign", "move", "done", "unlink"}]
           /\ task' \in [Agents -> Numbers \cup {0}]
           /\ agent'[a] = next
           /\ next # "idle" => task'[a] = n
           /\ \A b \in Agents : b # a => agent'[b] = agent[b] /\ task'[b] = task[b]
BY DEF BoardShape, Goes

LEMMA PullKeeps == ASSUME BoardInv, NEW a \in Agents, Pull(a) PROVE BoardInv'
<1>. DEFINE taken(others) == [todo |-> {n \in Numbers : board[n] = "Todo"}, done |-> DoneOn(board) \cup others]
<1>1. PICK others \in SUBSET Shared :
        snapshot' = [snapshot EXCEPT ![a] = taken(others)] /\ mistaken' = mistaken \cup others
  BY DEF Pull
<1>2. /\ agent' = [agent EXCEPT ![a] = "pick"]
      /\ UNCHANGED <<issues, board, push, created, task, context, finished>>
  BY DEF Pull
<1>3. taken(others) \in [todo : SUBSET Numbers, done : SUBSET Numbers]
  <2>1. DoneOn(board) \cup others \subseteq Numbers
    BY PlanFacts DEF DoneOn
  <2>. QED  BY <2>1
<1>4. DoneOn(board) \subseteq finished /\ taken(others).done \subseteq Passing'
  BY <1>1, <1>2 DEF BoardInv, DoneWasFinished, Passing
<1>. HIDE DEF taken
<1>5. BoardShape'
  BY <1>1, <1>2, <1>3 DEF BoardInv, BoardShape
<1>6. \A b \in Agents : snapshot'[b] = snapshot[b] \/ snapshot'[b].done \subseteq Passing'
  BY <1>1, <1>4 DEF BoardInv, BoardShape
<1>7. /\ agent'[a] = "pick" /\ \A b \in Agents : b # a => agent'[b] = agent[b]
      /\ context[a] # 0 => Ready(context[a])
  BY <1>2 DEF BoardInv, BoardShape, OnlyReadyTaken
<1>8. mistaken \subseteq mistaken'
  BY <1>1
<1>. QED  BY <1>2, <1>4, <1>5, <1>6, <1>7, <1>8, AgentKeeps DEF Ready

\* The agent reads links and states in one listing: what that shows as Done passes for finished.
LEMMA ClaimKeeps == ASSUME BoardInv, NEW a \in Agents, Claim(a) PROVE BoardInv'
<1>1. PICK n \in DOMAIN issues, next \in {"write", "idle"} :
        /\ issues[n].links \subseteq snapshot[a].done
        /\ board' = [board EXCEPT ![n] = "In Progress"]
        /\ Goes(a, next, n)
  BY DEF Claim
<1>2. /\ snapshot' = [snapshot EXCEPT ![a] = NoListing]
      /\ UNCHANGED <<issues, created, context, finished, mistaken>>
  BY DEF Claim
<1>3. n \in Numbers
  BY PlanFacts DEF BoardInv, BoardShape, Numbers
<1>4. /\ agent' \in [Agents -> {"idle", "pick", "write", "assign", "move", "done", "unlink"}]
      /\ task' \in [Agents -> Numbers \cup {0}]
      /\ agent'[a] = next /\ (next # "idle" => task'[a] = n)
      /\ \A b \in Agents : b # a => agent'[b] = agent[b] /\ task'[b] = task[b]
  BY <1>1, <1>3, TypesOfGoes DEF BoardInv
<1>5. NoListing \in [todo : SUBSET Numbers, done : SUBSET Numbers] /\ NoListing.done = {}
  BY DEF NoListing
<1>6. board' \in [Numbers -> Status] /\ DoneOn(board') \subseteq DoneOn(board)
  BY <1>1 DEF BoardInv, BoardShape, Status, DoneOn
<1>7. BoardShape'
  BY <1>2, <1>4, <1>5, <1>6 DEF BoardInv, BoardShape
<1>8. \A b \in Agents : snapshot'[b] = snapshot[b] \/ snapshot'[b].done \subseteq Passing'
  BY <1>2, <1>5 DEF BoardInv, BoardShape
<1>9. Ready(n) /\ (context'[a] # 0 => Ready(context'[a]))
  BY <1>1, <1>2 DEF BoardInv, DoneWasFinished, OnlyReadyTaken, Ready
<1>10. DoneOn(board') \subseteq finished'
  BY <1>2, <1>6 DEF BoardInv, DoneWasFinished
<1>. QED  BY <1>2, <1>4, <1>7, <1>8, <1>9, <1>10, AgentKeeps DEF Ready

\* The steps after a task was taken.
LEMMA LaterAgentSteps ==
    ASSUME BoardInv, NEW a \in Agents,
           \/ WriteContext(a) \/ ClaimByNumber(a) \/ MoveToProgress(a)
           \/ Complete(a) \/ SetDone(a) \/ Unlink(a) \/ AgentEnd(a)
    PROVE  BoardInv'
<1>. DEFINE Steps == {"idle", "pick", "write", "assign", "move", "done", "unlink"}
<1>0. /\ BoardShape /\ DoneWasFinished /\ OnlyReadyTaken
      /\ NoListing \in [todo : SUBSET Numbers, done : SUBSET Numbers] /\ NoListing.done = {}
      /\ \A n \in DOMAIN issues : n \in Numbers
  <2>1. BoardShape /\ DoneWasFinished /\ OnlyReadyTaken
    BY DEF BoardInv
  <2>2. NoListing \in [todo : SUBSET Numbers, done : SUBSET Numbers] /\ NoListing.done = {}
    BY DEF NoListing
  <2>3. \A n \in DOMAIN issues : n \in Numbers
    BY <2>1, PlanFacts DEF BoardShape, Numbers
  <2>. QED  BY <2>1, <2>2, <2>3
<1>1. /\ UNCHANGED <<issues, created, mistaken>> /\ finished \subseteq finished'
      /\ \E next \in Steps \ {"write"}, n \in Numbers \cup {0} : Goes(a, next, n)
  <2>1. task[a] \in Numbers \cup {0} /\ context[a] \in Numbers \cup {0} /\ 0 \in Numbers \cup {0}
    BY <1>0 DEF BoardShape
  <2>2. UNCHANGED <<issues, created, mistaken>> /\ finished \subseteq finished'
    BY DEF WriteContext, ClaimByNumber, MoveToProgress, Complete, SetDone, Unlink, AgentEnd
  <2>3. CASE WriteContext(a) \/ MoveToProgress(a) \/ Unlink(a) \/ AgentEnd(a)
    BY <2>1, <2>2, <2>3 DEF WriteContext, MoveToProgress, Unlink, AgentEnd
  <2>4. CASE ClaimByNumber(a)
    BY <1>0, <2>2, <2>4 DEF ClaimByNumber
  <2>5. CASE Complete(a)
    BY <2>1, <2>2, <2>5 DEF Complete
  <2>6. CASE SetDone(a)
    BY <2>1, <2>2, <2>6 DEF SetDone
  <2>. QED  BY <2>3, <2>4, <2>5, <2>6
<1>2. /\ agent' \in [Agents -> Steps] /\ task' \in [Agents -> Numbers \cup {0}]
      /\ agent'[a] # "write"
      /\ \A b \in Agents : b # a => agent'[b] = agent[b] /\ task'[b] = task[b]
  BY <1>0, <1>1, TypesOfGoes
<1>3. /\ context' \in [Agents -> Numbers \cup {0}]
      /\ \A b \in Agents : b # a => context'[b] = context[b]
      /\ context'[a] # 0 => Ready(context'[a])
  <2>1. CASE WriteContext(a)
    <3>1. context' = [context EXCEPT ![a] = task[a]] /\ Ready(task[a])
      BY <1>0, <2>1 DEF WriteContext, OnlyReadyTaken
    <3>. QED  BY <1>0, <3>1 DEF BoardShape
  <2>2. CASE ClaimByNumber(a) \/ Unlink(a)
    <3>1. context' = [context EXCEPT ![a] = 0]
      BY <2>2 DEF ClaimByNumber, Unlink
    <3>. QED  BY <1>0, <3>1 DEF BoardShape
  <2>3. CASE MoveToProgress(a) \/ Complete(a) \/ SetDone(a) \/ AgentEnd(a)
    <3>1. context' = context
      BY <2>3 DEF MoveToProgress, Complete, SetDone, AgentEnd
    <3>. QED  BY <1>0, <3>1 DEF BoardShape, OnlyReadyTaken
  <2>. QED  BY <2>1, <2>2, <2>3
<1>4. board' \in [Numbers -> Status] /\ DoneOn(board') \subseteq finished'
  <2>1. CASE board' = board
    BY <1>0, <1>1, <2>1 DEF BoardShape, DoneWasFinished
  <2>2. CASE board' = [board EXCEPT ![task[a]] = "In Progress"]
    <3>1. board' \in [Numbers -> Status] /\ DoneOn(board') \subseteq DoneOn(board)
      BY <1>0, <2>2 DEF BoardShape, Status, DoneOn
    <3>. QED  BY <1>0, <1>1, <3>1 DEF DoneWasFinished
  <2>3. CASE board' = [board EXCEPT ![task[a]] = "Done"] /\ finished' = finished \cup {task[a]}
    <3>1. board' \in [Numbers -> Status] /\ DoneOn(board') \subseteq DoneOn(board) \cup {task[a]}
      BY <1>0, <2>3 DEF BoardShape, Status, DoneOn
    <3>. QED  BY <1>0, <2>3, <3>1 DEF DoneWasFinished
  <2>. QED
    BY <2>1, <2>2, <2>3 DEF WriteContext, ClaimByNumber, MoveToProgress, Complete, SetDone, Unlink,
                            AgentEnd
<1>5. /\ snapshot' \in [Agents -> [todo : SUBSET Numbers, done : SUBSET Numbers]]
      /\ \A b \in Agents : snapshot'[b] = snapshot[b] \/ snapshot'[b].done \subseteq Passing'
  <2>1. snapshot' = snapshot \/ snapshot' = [snapshot EXCEPT ![a] = NoListing]
    BY DEF WriteContext, ClaimByNumber, MoveToProgress, Complete, SetDone, Unlink, AgentEnd
  <2>. QED  BY <1>0, <2>1 DEF BoardShape
<1>6. BoardShape'
  BY <1>0, <1>1, <1>2, <1>3, <1>4, <1>5 DEF BoardShape
<1>. QED  BY <1>1, <1>2, <1>3, <1>4, <1>5, <1>6, AgentKeeps

LEMMA BoardStep == BoardInv /\ [BoardNext]_boardVars => BoardInv'
<1>. SUFFICES ASSUME BoardInv, [BoardNext]_boardVars PROVE BoardInv'
  OBVIOUS
<1>1. CASE UNCHANGED boardVars
  BY <1>1 DEF boardVars, BoardInv, BoardShape, PushInOrder, LinksComplete, DoneWasFinished, DoneOn,
              OnlyReadyTaken, Ready, Passing
<1>2. CASE BoardNext
  BY <1>2, PushKeeps, IssueKeeps, PullKeeps, ClaimKeeps, LaterAgentSteps DEF BoardNext
<1>. QED  BY <1>1, <1>2

\* Whatever is pushed again, cut short, closed twice or reopened, nobody gets a context
\* file for a task with a dependency that was never finished, unless an issue of another
\* repository was Done under the number of an issue of it (pull-plan.py:162-174, 216-222).
THEOREM PlanOrder == BoardSpec => []DependenciesFirst
<1>1. BoardInv => DependenciesFirst
  <2>. SUFFICES ASSUME BoardInv, NEW a \in Agents, context[a] # 0
                PROVE  Provided(context[a]) = Plan[issues[context[a]].task]
    BY DEF DependenciesFirst
  <2>1. Ready(context[a])
    BY DEF BoardInv, OnlyReadyTaken
  <2>2. \A d \in Plan[issues[context[a]].task] :
            \E m \in issues[context[a]].links : m \in DOMAIN issues /\ issues[m].task = d + 1
    BY <2>1 DEF BoardInv, LinksComplete, Ready
  <2>. QED  BY <2>1, <2>2 DEF Provided, Ready, Passing
<1>. QED  BY <1>1, BoardInitially, BoardStep, PTL DEF BoardSpec

-----------------------------------------------------------------------------
(* rotate-secrets.                                                         *)

InProgress == {"create", "deactivate", "store"}

Reporting == {"replace", "commit", "open", "opened"}

RotationShape ==
    /\ leaks \in Seq([rule : Rules, secret : Secrets]) /\ Len(leaks) <= MaxLeaks
    /\ results \in Seq(Row)
    /\ store \in [Names -> Nat]
    /\ keys \in Seq([run : Nat, leak : Nat])
    /\ value \in Nat /\ revoked \in BOOLEAN /\ at \in Nat /\ runs \in Nat

\* The rows are those of the leaks before the one the command is at, then of all.
OneRowEach ==
    /\ rotating \in InProgress \cup {"rotate"} => at = Len(results) + 1 /\ at <= Len(leaks) + 1
    /\ rotating \in InProgress => at \in DOMAIN leaks
    /\ rotating \in Reporting => Len(results) = Len(leaks)

\* Once a key was created for a leak, the command holds that key until its row is written,
\* and it holds the key to be revoked as long as the provider has not said it is.
HoldsOwnKey ==
    /\ rotating \in {"deactivate", "store"} =>
         value \in DOMAIN keys /\ keys[value] = [run |-> runs, leak |-> at]
    /\ rotating \in {"rotate", "create", "deactivate"} => ~revoked
    /\ rotating = "store" /\ revoked => leaks[at].secret \in inactive

\* A row, and the world it tells of.
RowTrue(i) ==
    /\ results[i].revoked /\ leaks[i].rule # "gitlab-pat" => leaks[i].secret \in inactive
    /\ results[i].stored => /\ store[Name(i)] \in DOMAIN keys
                            /\ keys[store[Name(i)]] = [run |-> runs, leak |-> i]

RowsTrue == Len(results) <= Len(leaks) /\ \A i \in DOMAIN results : RowTrue(i)

RotationInv == RotationShape /\ OneRowEach /\ HoldsOwnKey /\ RowsTrue

-----------------------------------------------------------------------------
(* Names.                                                                  *)

Alike(i) == {j \in DOMAIN leaks : leaks[j].rule = leaks[i].rule}

UpTo(i) == {j \in Alike(i) : j <= i}

LEMMA NameUnfolded ==
    ASSUME NEW i PROVE Name(i) = <<leaks[i].rule, IF Alike(i) = {i} THEN 0 ELSE Cardinality(UpTo(i))>>
BY DEF Name, Alike, UpTo

LEMMA UpToFinite ==
    ASSUME RotationShape, NEW i \in DOMAIN leaks
    PROVE  IsFiniteSet(UpTo(i)) /\ Cardinality(UpTo(i)) \in 0..MaxLeaks
<1>1. Len(leaks) \in Nat /\ DOMAIN leaks = 1..Len(leaks) /\ MaxLeaks \in Nat
  BY RotationAssumption DEF RotationShape
<1>2. IsFiniteSet(1..Len(leaks)) /\ Cardinality(1..Len(leaks)) = Len(leaks)
  <2>1. 1 \in Int /\ Len(leaks) \in Int
    BY <1>1
  <2>2. /\ IsFiniteSet(1..Len(leaks))
        /\ Cardinality(1..Len(leaks)) = IF 1 > Len(leaks) THEN 0 ELSE Len(leaks) - 1 + 1
    BY <2>1, FS_Interval
  <2>. QED  BY <1>1, <2>2
<1>3. UpTo(i) \subseteq 1..Len(leaks)
  BY <1>1 DEF UpTo, Alike
<1>4. IsFiniteSet(UpTo(i)) /\ Cardinality(UpTo(i)) <= Len(leaks)
  BY <1>2, <1>3, FS_Subset
<1>5. Cardinality(UpTo(i)) \in Nat
  BY <1>4, FS_CardinalityType
<1>. QED  BY <1>1, <1>4, <1>5 DEF RotationShape

LEMMA NameIsName == ASSUME RotationShape, NEW i \in DOMAIN leaks PROVE Name(i) \in Names
<1>1. leaks[i].rule \in Rules
  <2>1. leaks \in Seq([rule : Rules, secret : Secrets]) /\ i \in 1..Len(leaks)
    BY DEF RotationShape
  <2>2. leaks[i] \in [rule : Rules, secret : Secrets]
    BY <2>1, ElementOfSeq
  <2>. QED  BY <2>2
<1>2. MaxLeaks \in Nat
  BY RotationAssumption
<1>. QED  BY <1>1, <1>2, UpToFinite, NameUnfolded DEF Names

LEMMA LaterIsMore ==
    ASSUME RotationShape, NEW i \in DOMAIN leaks, NEW j \in DOMAIN leaks, i < j, leaks[i].rule = leaks[j].rule
    PROVE  Name(i) # Name(j)
<1>1. i \in Nat /\ j \in Nat
  BY DEF RotationShape
<1>2. Alike(i) = Alike(j) /\ i \in Alike(i) /\ j \in Alike(i)
  BY DEF Alike
<1>3. Alike(i) # {i} /\ Alike(j) # {j}
  BY <1>1, <1>2
<1>4. UpTo(i) \subseteq UpTo(j) /\ j \in UpTo(j) /\ j \notin UpTo(i)
  <2>1. \A k \in Alike(i) : k \in Nat
    BY DEF Alike, RotationShape
  <2>. QED  BY <1>1, <1>2, <2>1 DEF UpTo
<1>5. Cardinality(UpTo(i)) # Cardinality(UpTo(j))
  BY <1>4, UpToFinite, FS_Subset
<1>. QED  BY <1>3, <1>5, NameUnfolded

\* Two leaks never share the name of a value: rows of one rule are numbered in order.
LEMMA NamesDiffer ==
    ASSUME RotationShape, NEW i \in DOMAIN leaks, NEW j \in DOMAIN leaks, i # j PROVE Name(i) # Name(j)
<1>1. i \in Nat /\ j \in Nat
  BY DEF RotationShape
<1>2. CASE leaks[i].rule # leaks[j].rule
  BY <1>2, NameUnfolded
<1>3. CASE leaks[i].rule = leaks[j].rule
  BY <1>1, <1>3, LaterIsMore
<1>. QED  BY <1>2, <1>3

-----------------------------------------------------------------------------
(* The steps of the command.                                               *)

LEMMA RotationInitially == (\E r \in Reports : RotationInit(r)) => RotationInv
<1>. SUFFICES ASSUME NEW r \in Reports, RotationInit(r) PROVE RotationInv
  OBVIOUS
<1>1. PICK l \in LeakLists : r[1] = l
  BY DEF Reports
<1>2. l \in Seq([rule : Rules, secret : Secrets]) /\ Len(l) <= MaxLeaks
  BY RotationAssumption
<1>3. leaks = l /\ Len(leaks) \in Nat
  BY <1>1, <1>2 DEF RotationInit
<1>4. RotationShape
  <2>1. store \in [Names -> Nat]
    BY DEF RotationInit
  <2>2. results \in Seq(Row) /\ keys \in Seq([run : Nat, leak : Nat])
    BY EmptySeq DEF RotationInit
  <2>. QED  BY <1>2, <1>3, <2>1, <2>2 DEF RotationInit, RotationShape
<1>5. OneRowEach /\ HoldsOwnKey
  BY DEF RotationInit, OneRowEach, HoldsOwnKey, InProgress, Reporting
<1>6. RowsTrue
  BY <1>3 DEF RotationInit, RowsTrue
<1>. QED  BY <1>4, <1>5, <1>6 DEF RotationInv

\* What may happen to the world without a row becoming false: more secrets are revoked,
\* more keys created, and nothing is stored but under the name of the leak at hand.
Later ==
    /\ UNCHANGED <<leaks, runs>>
    /\ inactive \subseteq inactive'
    /\ keys' = keys \/ keys' = Append(keys, [run |-> runs, leak |-> at])
    /\ \/ store' = store
       \/ store' = [store EXCEPT ![Name(at)] = value] /\ at \in DOMAIN leaks /\ at \notin DOMAIN results

LEMMA Appended ==
    ASSUME NEW S, NEW s \in Seq(S), NEW e \in S
    PROVE  /\ Append(s, e) \in Seq(S) /\ Len(Append(s, e)) = Len(s) + 1 /\ Len(s) \in Nat
           /\ Append(s, e)[Len(s) + 1] = e /\ Len(s) + 1 \in DOMAIN Append(s, e)
           /\ \A k \in DOMAIN s : k \in DOMAIN Append(s, e) /\ Append(s, e)[k] = s[k]
           /\ \A k \in DOMAIN Append(s, e) : k \in DOMAIN s \/ k = Len(s) + 1
OBVIOUS

LEMMA KeysGrow ==
    ASSUME RotationShape, keys' = keys \/ keys' = Append(keys, [run |-> runs, leak |-> at])
    PROVE  /\ keys' \in Seq([run : Nat, leak : Nat])
           /\ \A k \in DOMAIN keys : k \in DOMAIN keys' /\ keys'[k] = keys[k]
<1>1. [run |-> runs, leak |-> at] \in [run : Nat, leak : Nat] /\ keys \in Seq([run : Nat, leak : Nat])
  BY DEF RotationShape
<1>2. CASE keys' = keys
  BY <1>1, <1>2
<1>3. CASE keys' = Append(keys, [run |-> runs, leak |-> at])
  BY <1>1, <1>3, Appended
<1>. QED  BY <1>2, <1>3

LEMMA RowsStayTrue ==
    ASSUME RotationShape, RowsTrue, Later, NEW i \in DOMAIN results, results'[i] = results[i]
    PROVE  RowTrue(i)'
<1>1. RowTrue(i) /\ i \in DOMAIN leaks
  <2>1. Len(results) \in Nat /\ Len(leaks) \in Nat /\ DOMAIN results = 1..Len(results)
        /\ DOMAIN leaks = 1..Len(leaks)
    BY DEF RotationShape
  <2>. QED  BY <2>1 DEF RowsTrue
<1>2. Name(i)' = Name(i)
  BY DEF Later, Name
<1>3. store'[Name(i)] = store[Name(i)]
  <2>1. CASE store' = store
    BY <2>1
  <2>2. CASE store' = [store EXCEPT ![Name(at)] = value] /\ at \in DOMAIN leaks /\ at # i
    <3>1. Name(i) # Name(at) /\ Name(i) \in Names
      BY <1>1, <2>2, NamesDiffer, NameIsName
    <3>. QED  BY <2>2, <3>1 DEF RotationShape
  <2>. QED  BY <2>1, <2>2 DEF Later
<1>4. \A k \in DOMAIN keys : k \in DOMAIN keys' /\ keys'[k] = keys[k]
  BY KeysGrow DEF Later
<1>5. results'[i].stored =>
        /\ store'[Name(i)'] \in DOMAIN keys'
        /\ keys'[store'[Name(i)']] = [run |-> runs', leak |-> i]
  BY <1>1, <1>2, <1>3, <1>4 DEF RowTrue, Later
<1>6. results'[i].revoked /\ leaks'[i].rule # "gitlab-pat" => leaks'[i].secret \in inactive'
  BY <1>1 DEF RowTrue, Later
<1>. QED  BY <1>5, <1>6 DEF RowTrue

\* A row is added for the leak at hand.
LEMMA ReportKeeps ==
    ASSUME RotationInv, rotating \in InProgress \cup {"rotate"}, at \in DOMAIN leaks, Later,
           NEW row \in Row, Report(row),
           row.revoked /\ leaks[at].rule # "gitlab-pat" => leaks[at].secret \in inactive',
           row.stored => store'[Name(at)] = value,
           row.stored => value \in DOMAIN keys /\ keys[value] = [run |-> runs, leak |-> at]
    PROVE  RotationInv'
<1>1. /\ RotationShape /\ at = Len(results) + 1 /\ at <= Len(leaks) + 1 /\ RowsTrue
      /\ Len(leaks) \in Nat /\ DOMAIN leaks = 1..Len(leaks) /\ at \in Nat
  BY DEF RotationInv, OneRowEach, RotationShape
<1>2. /\ results' = Append(results, row) /\ rotating' = "rotate" /\ at' = at + 1 /\ value' = 0
      /\ revoked' = FALSE /\ UNCHANGED <<leaks, runs>>
  BY DEF Report
<1>3. /\ results' \in Seq(Row) /\ Len(results') = Len(results) + 1 /\ Len(results) \in Nat
      /\ results'[at] = row /\ at \in DOMAIN results'
      /\ \A k \in DOMAIN results : k \in DOMAIN results' /\ results'[k] = results[k]
      /\ \A k \in DOMAIN results' : k \in DOMAIN results \/ k = at
  <2>1. results \in Seq(Row)
    BY <1>1 DEF RotationShape
  <2>. QED  BY <1>1, <1>2, <2>1, Appended
<1>4. keys' \in Seq([run : Nat, leak : Nat]) /\ \A k \in DOMAIN keys : k \in DOMAIN keys' /\ keys'[k] = keys[k]
  BY <1>1, KeysGrow DEF Later
<1>5. store' \in [Names -> Nat]
  BY <1>1 DEF RotationShape, Later
<1>6. RotationShape'
  <2>1. revoked' \in BOOLEAN /\ leaks' = leaks
    BY <1>2
  <2>2. value' \in Nat /\ at' \in Nat /\ runs' \in Nat
    BY <1>1, <1>2 DEF RotationShape
  <2>3. leaks \in Seq([rule : Rules, secret : Secrets]) /\ Len(leaks) <= MaxLeaks
    BY <1>1 DEF RotationShape
  <2>. QED  BY <1>3, <1>4, <1>5, <2>1, <2>2, <2>3, Zenon DEF RotationShape
<1>7. OneRowEach'
  <2>1. at' = Len(results') + 1 /\ at' <= Len(leaks') + 1
    BY <1>1, <1>2, <1>3
  <2>2. rotating' \notin InProgress /\ rotating' \notin Reporting
    BY <1>2 DEF InProgress, Reporting
  <2>. QED  BY <2>1, <2>2 DEF OneRowEach
<1>8. HoldsOwnKey'
  BY <1>2 DEF HoldsOwnKey
<1>9. ASSUME NEW i \in DOMAIN results PROVE RowTrue(i)'
  BY <1>1, <1>3, RowsStayTrue
<1>10. ASSUME NEW i, i = at PROVE RowTrue(i)'
  <2>1. results'[i] = row /\ leaks' = leaks /\ runs' = runs
    BY <1>2, <1>3, <1>10
  <2>2. Name(i)' = Name(at)
    BY <1>2, <1>10 DEF Name
  <2>3. row.stored => /\ store'[Name(at)] \in DOMAIN keys'
                      /\ keys'[store'[Name(at)]] = [run |-> runs, leak |-> at]
    BY <1>4
  <2>. QED  BY <1>10, <2>1, <2>2, <2>3 DEF RowTrue
<1>11. RowsTrue'
  <2>1. Len(results') <= Len(leaks')
    BY <1>1, <1>2, <1>3
  <2>. QED  BY <1>3, <1>9, <1>10, <2>1 DEF RowsTrue
<1>. QED  BY <1>6, <1>7, <1>8, <1>11 DEF RotationInv

LEMMA RevocationKeeps ==
    ASSUME RotationInv, rotating \in InProgress \cup {"rotate"}, at \in DOMAIN leaks, Later,
           NEW done \in BOOLEAN, ReportRevocation(done),
           done /\ leaks[at].rule # "gitlab-pat" => leaks[at].secret \in inactive'
    PROVE  RotationInv'
<1>. DEFINE row == [revoked |-> done, stored |-> FALSE, error |-> ~done]
<1>1. row \in Row /\ row.revoked = done /\ row.stored = FALSE
  BY DEF Row
<1>2. Report(row)
  BY DEF ReportRevocation
<1>. HIDE DEF row
<1>. QED  BY <1>1, <1>2, ReportKeeps

\* A step that writes no row.
LEMMA MoveOn ==
    ASSUME RotationInv, Later, results' = results, RotationShape', OneRowEach', HoldsOwnKey'
    PROVE  RotationInv'
<1>1. \A i \in DOMAIN results : RowTrue(i)'
  BY RowsStayTrue DEF RotationInv
<1>2. RowsTrue'
  BY <1>1 DEF RowsTrue, RotationInv, Later
<1>. QED  BY <1>2 DEF RotationInv

LEMMA StartKeeps == RotationInv /\ Start => RotationInv'
<1>. SUFFICES ASSUME RotationInv, Start PROVE RotationInv'
  OBVIOUS
<1>1. /\ rotating' = "rotate" /\ at' = 1 /\ value' = 0 /\ revoked' = FALSE /\ results' = <<>>
      /\ runs' = runs + 1 /\ UNCHANGED <<leaks, inactive, keys, store>>
  BY DEF Start, world
<1>2. RotationShape /\ Len(leaks) \in Nat
  BY DEF RotationInv, RotationShape
<1>3. RotationShape'
  <2>1. results' \in Seq(Row)
    BY <1>1, EmptySeq
  <2>2. revoked' \in BOOLEAN
    BY <1>1
  <2>3. value' \in Nat /\ at' \in Nat /\ runs' \in Nat
    BY <1>1, <1>2 DEF RotationShape
  <2>. QED  BY <1>1, <1>2, <2>1, <2>2, <2>3 DEF RotationShape
<1>4. Len(results') = 0 /\ DOMAIN results' = {}
  BY <1>1
<1>5. OneRowEach'
  <2>1. rotating' \notin InProgress /\ rotating' \notin Reporting
    BY <1>1 DEF InProgress, Reporting
  <2>. QED  BY <1>1, <1>2, <1>4, <2>1 DEF OneRowEach
<1>6. HoldsOwnKey'
  BY <1>1 DEF HoldsOwnKey
<1>7. RowsTrue'
  BY <1>1, <1>2, <1>4 DEF RowsTrue
<1>. QED  BY <1>3, <1>5, <1>6, <1>7 DEF RotationInv

\* The leaks no provider takes, the listing of keys, and the tokens one call revokes.
LEMMA TakeLeakKeeps == RotationInv /\ (ReportOnly \/ ListKeys \/ RevokeToken) => RotationInv'
<1>. SUFFICES ASSUME RotationInv, ReportOnly \/ ListKeys \/ RevokeToken PROVE RotationInv'
  OBVIOUS
<1>1. rotating = "rotate" /\ at \in DOMAIN leaks
  BY DEF ReportOnly, ListKeys, RevokeToken, Rotatable
<1>2. CASE ReportOnly
  <2>1. PICK failed \in BOOLEAN : Report([revoked |-> FALSE, stored |-> FALSE, error |-> failed])
    BY <1>2 DEF ReportOnly
  <2>. DEFINE row == [revoked |-> FALSE, stored |-> FALSE, error |-> failed]
  <2>2. row \in Row /\ row.revoked = FALSE /\ row.stored = FALSE
    BY DEF Row
  <2>3. Report(row)
    BY <2>1
  <2>4. Later
    BY <1>2, <2>1 DEF ReportOnly, Report, Later
  <2>. HIDE DEF row
  <2>. QED  BY <1>1, <2>2, <2>3, <2>4, ReportKeeps
<1>3. CASE ListKeys
  <2>1. CASE ReportRevocation(FALSE) /\ UNCHANGED <<inactive, keys, store>>
    <3>1. Later
      BY <2>1 DEF ReportRevocation, Report, Later
    <3>. QED  BY <1>1, <2>1, <3>1, RevocationKeeps
  <2>2. CASE /\ rotating' = "create"
             /\ UNCHANGED <<leaks, mode, at, value, revoked, results, modified, runs, world>>
    <3>1. Later /\ RotationShape'
      BY <2>2 DEF Later, world, RotationInv, RotationShape
    <3>2. OneRowEach' /\ HoldsOwnKey'
      BY <1>1, <2>2 DEF world, RotationInv, OneRowEach, HoldsOwnKey, InProgress, Reporting
    <3>. QED  BY <2>2, <3>1, <3>2, MoveOn
  <2>. QED  BY <1>3, <2>1, <2>2 DEF ListKeys
<1>4. CASE RevokeToken
  <2>1. PICK done \in BOOLEAN :
          /\ ReportRevocation(done)
          /\ inactive' = inactive \/ Deactivated
          /\ done => Deactivated \/ leaks[at].rule = "gitlab-pat"
    BY <1>4 DEF RevokeToken
  <2>2. Later
    BY <1>4, <2>1 DEF RevokeToken, ReportRevocation, Report, Later, Deactivated
  <2>3. done /\ leaks[at].rule # "gitlab-pat" => leaks[at].secret \in inactive'
    BY <2>1 DEF Deactivated
  <2>. QED  BY <1>1, <2>1, <2>2, <2>3, RevocationKeeps
<1>. QED  BY <1>2, <1>3, <1>4

\* A created key is the last of all, and the one the command holds from now on.
LEMMA CreateKeeps == RotationInv /\ CreateKey => RotationInv'
<1>. SUFFICES ASSUME RotationInv, CreateKey PROVE RotationInv'
  OBVIOUS
<1>1. rotating = "create" /\ at \in DOMAIN leaks /\ ~revoked /\ RotationShape
  BY DEF CreateKey, RotationInv, OneRowEach, HoldsOwnKey, InProgress
<1>2. CASE /\ keys' \in {keys, Append(keys, [run |-> runs, leak |-> at])}
           /\ ReportRevocation(FALSE) /\ UNCHANGED <<inactive, store>>
  <2>1. Later
    BY <1>2 DEF ReportRevocation, Report, Later
  <2>. QED  BY <1>1, <1>2, <2>1, RevocationKeeps DEF InProgress
<1>3. CASE /\ keys' = Append(keys, [run |-> runs, leak |-> at])
           /\ value' = Len(keys')
           /\ rotating' = IF leaks[at].secret \in InIAM THEN "deactivate" ELSE "store"
           /\ UNCHANGED <<leaks, mode, at, revoked, results, modified, exposed, inactive, store,
                          branched, runs>>
  <2>1. Later
    BY <1>3 DEF Later
  <2>2. /\ keys' \in Seq([run : Nat, leak : Nat])
        /\ Len(keys') \in DOMAIN keys' /\ Len(keys') \in Nat
        /\ keys'[Len(keys')] = [run |-> runs, leak |-> at]
    <3>1. [run |-> runs, leak |-> at] \in [run : Nat, leak : Nat] /\ keys \in Seq([run : Nat, leak : Nat])
      BY <1>1 DEF RotationShape
    <3>. DEFINE e == [run |-> runs, leak |-> at]
                grown == Append(keys, e)
    <3>2. /\ grown \in Seq([run : Nat, leak : Nat]) /\ Len(grown) = Len(keys) + 1 /\ Len(keys) \in Nat
          /\ grown[Len(keys) + 1] = e /\ Len(keys) + 1 \in DOMAIN grown
      BY <3>1, Appended
    <3>3. keys' = grown
      BY <1>3
    <3>. HIDE DEF grown
    <3>. QED  BY <3>2, <3>3
  <2>3. RotationShape'
    BY <1>1, <1>3, <2>2 DEF RotationShape
  <2>4. OneRowEach'
    BY <1>1, <1>3 DEF RotationInv, OneRowEach, InProgress, Reporting
  <2>5. HoldsOwnKey'
    BY <1>1, <1>3, <2>2 DEF HoldsOwnKey
  <2>. QED  BY <1>3, <2>1, <2>3, <2>4, <2>5, MoveOn
<1>. QED  BY <1>2, <1>3 DEF CreateKey

LEMMA DeactivateKeeps == RotationInv /\ Deactivate => RotationInv'
<1>. SUFFICES ASSUME RotationInv, Deactivate PROVE RotationInv'
  OBVIOUS
<1>1. /\ rotating = "deactivate" /\ at \in DOMAIN leaks /\ RotationShape /\ UNCHANGED <<keys, store>>
      /\ value \in DOMAIN keys /\ keys[value] = [run |-> runs, leak |-> at]
  BY DEF Deactivate, RotationInv, OneRowEach, HoldsOwnKey, InProgress
<1>2. CASE (Deactivated \/ UNCHANGED inactive) /\ ReportRevocation(FALSE)
  <2>1. Later
    BY <1>1, <1>2 DEF ReportRevocation, Report, Later, Deactivated
  <2>. QED  BY <1>1, <1>2, <2>1, RevocationKeeps DEF InProgress
<1>3. CASE /\ revoked' \in BOOLEAN
           /\ IF revoked' THEN Deactivated ELSE UNCHANGED inactive
           /\ rotating' = "store"
           /\ UNCHANGED <<leaks, mode, at, value, results, modified, exposed, branched, runs>>
  <2>1. Later
    BY <1>1, <1>3 DEF Later, Deactivated
  <2>2. RotationShape'
    BY <1>1, <1>3 DEF RotationShape
  <2>3. OneRowEach'
    BY <1>1, <1>3 DEF RotationInv, OneRowEach, InProgress, Reporting
  <2>4. revoked' => leaks[at].secret \in inactive'
    BY <1>3 DEF Deactivated
  <2>5. HoldsOwnKey'
    BY <1>1, <1>3, <2>4 DEF HoldsOwnKey
  <2>. QED  BY <1>3, <2>1, <2>2, <2>3, <2>5, MoveOn
<1>. QED  BY <1>2, <1>3 DEF Deactivate

\* What is stored is the key the command holds, under the name of the leak at hand.
LEMMA StoreKeeps == RotationInv /\ (StoreValue \/ StoreRaises) => RotationInv'
<1>. SUFFICES ASSUME RotationInv, StoreValue \/ StoreRaises PROVE RotationInv'
  OBVIOUS
<1>1. /\ rotating = "store" /\ at \in DOMAIN leaks /\ RotationShape /\ at = Len(results) + 1
      /\ value \in DOMAIN keys /\ keys[value] = [run |-> runs, leak |-> at]
      /\ revoked => leaks[at].secret \in inactive
      /\ revoked \in BOOLEAN /\ UNCHANGED <<inactive, keys, leaks, runs>>
  BY DEF StoreValue, StoreRaises, Report, RotationInv, OneRowEach, HoldsOwnKey, InProgress, RotationShape
<1>2. at \notin DOMAIN results /\ Name(at) \in Names
  <2>1. results \in Seq(Row) /\ Len(results) \in Nat
    BY <1>1 DEF RotationShape
  <2>. QED  BY <1>1, <2>1, NameIsName
<1>3. store' = store \/ Written => Later
  BY <1>1, <1>2 DEF Later, Written
<1>4. Written => store'[Name(at)] = value
  BY <1>1, <1>2 DEF Written, RotationShape
<1>5. CASE StoreValue
  <2>1. PICK stored \in BOOLEAN, failed \in BOOLEAN :
          /\ Report([revoked |-> revoked, stored |-> stored, error |-> failed])
          /\ store' = store \/ Written
          /\ stored => Written
    BY <1>5 DEF StoreValue
  <2>. DEFINE row == [revoked |-> revoked, stored |-> stored, error |-> failed]
  <2>2. row \in Row /\ row.revoked = revoked /\ row.stored = stored
    BY <1>1 DEF Row
  <2>3. Report(row)
    BY <2>1
  <2>. HIDE DEF row
  <2>4. /\ row.revoked /\ leaks[at].rule # "gitlab-pat" => leaks[at].secret \in inactive'
        /\ row.stored => store'[Name(at)] = value
    BY <1>1, <1>4, <2>1, <2>2
  <2>. QED  BY <1>1, <1>3, <2>1, <2>2, <2>3, <2>4, ReportKeeps DEF InProgress
<1>6. CASE StoreRaises
  <2>1. /\ Later /\ rotating' = "idle"
        /\ UNCHANGED <<at, value, revoked, results>>
        /\ store' = store \/ store' = [store EXCEPT ![Name(at)] = value]
    BY <1>3, <1>6 DEF StoreRaises, Written
  <2>2. store' \in [Names -> Nat]
    BY <1>1, <2>1 DEF RotationShape
  <2>3. RotationShape'
    BY <1>1, <2>1, <2>2 DEF RotationShape
  <2>4. OneRowEach' /\ HoldsOwnKey'
    BY <2>1 DEF OneRowEach, HoldsOwnKey, InProgress, Reporting
  <2>. QED  BY <2>1, <2>3, <2>4, MoveOn
<1>. QED  BY <1>5, <1>6

\* The request and its ends change neither the rows nor what they tell of.
LEMMA RequestKeeps ==
    /\ RotationInv
    /\ EndRotation \/ Replace \/ EndReplacement \/ Commit \/ OpenRequest \/ Abandon
    => RotationInv'
<1>. SUFFICES ASSUME RotationInv,
                     EndRotation \/ Replace \/ EndReplacement \/ Commit \/ OpenRequest \/ Abandon
              PROVE  RotationInv'
  OBVIOUS
<1>1. /\ UNCHANGED <<leaks, value, revoked, results, inactive, keys, store, runs>>
      /\ at' = at \/ at' = 1 \/ at' = at + 1
  BY DEF EndRotation, Replace, EndReplacement, Commit, OpenRequest, Abandon, world
<1>2. RotationShape /\ RotationShape' /\ Later
  BY <1>1 DEF RotationInv, RotationShape, Later
<1>3. \/ rotating' = "idle"
      \/ rotating' \in Reporting /\ Len(results) = Len(leaks)
  <2>1. CASE EndRotation
    <3>1. rotating = "rotate" /\ at > Len(leaks) /\ rotating' = "replace"
      BY <2>1 DEF EndRotation
    <3>2. at = Len(results) + 1 /\ at <= Len(leaks) + 1
      BY <3>1 DEF RotationInv, OneRowEach
    <3>3. Len(results) \in Nat /\ Len(leaks) \in Nat
      BY <1>2 DEF RotationShape
    <3>. QED  BY <3>1, <3>2, <3>3 DEF Reporting
  <2>2. CASE Replace \/ EndReplacement \/ Commit \/ OpenRequest
    <3>1. rotating \in Reporting
      BY <2>2 DEF Replace, EndReplacement, Commit, OpenRequest, Reporting
    <3>2. rotating' = "idle" \/ rotating' \in Reporting
      BY <2>2, <3>1 DEF Replace, EndReplacement, Commit, OpenRequest, Reporting
    <3>. QED  BY <3>1, <3>2 DEF RotationInv, OneRowEach
  <2>3. CASE Abandon
    BY <2>3 DEF Abandon
  <2>. QED  BY <2>1, <2>2, <2>3
<1>4. OneRowEach' /\ HoldsOwnKey'
  BY <1>1, <1>3 DEF OneRowEach, HoldsOwnKey, InProgress, Reporting
<1>. QED  BY <1>1, <1>2, <1>4, MoveOn

LEMMA RotationStep == RotationInv /\ [RotationNext]_rotationVars => RotationInv'
<1>. SUFFICES ASSUME RotationInv, [RotationNext]_rotationVars PROVE RotationInv'
  OBVIOUS
<1>1. CASE UNCHANGED rotationVars
  <2>1. Later /\ RotationShape' /\ OneRowEach' /\ HoldsOwnKey' /\ results' = results
    BY <1>1 DEF rotationVars, RotationInv, RotationShape, OneRowEach, HoldsOwnKey, Later
  <2>. QED  BY <2>1, MoveOn
<1>2. CASE RotationNext
  BY <1>2, StartKeeps, TakeLeakKeeps, CreateKeeps, DeactivateKeeps, StoreKeeps, RequestKeeps
     DEF RotationNext
<1>. QED  BY <1>1, <1>2

\* Whatever is refused, times out or is killed between the calls, and however often the
\* command runs, an opened request tells no lie (secret_rotator.py:405-482).
THEOREM RequestsTellTheTruth == RotationSpec => []ReportTruthful
<1>1. RotationInv => ReportTruthful
  <2>. SUFFICES ASSUME RotationInv, rotating = "opened"
                PROVE  /\ DOMAIN results = DOMAIN leaks
                       /\ \A i \in DOMAIN results :
                            /\ results[i].revoked /\ leaks[i].rule # "gitlab-pat" => leaks[i].secret \in inactive
                            /\ results[i].stored =>
                                 /\ store[Name(i)] # 0
                                 /\ keys[store[Name(i)]] = [run |-> runs, leak |-> i]
    BY DEF ReportTruthful
  <2>1. RotationShape /\ Len(results) = Len(leaks)
    BY DEF RotationInv, OneRowEach, Reporting
  <2>2. DOMAIN results = DOMAIN leaks /\ 0 \notin DOMAIN keys
    BY <2>1 DEF RotationShape
  <2>3. \A i \in DOMAIN results : RowTrue(i)
    BY DEF RotationInv, RowsTrue
  <2>. QED  BY <2>2, <2>3 DEF RowTrue
<1>. QED  BY <1>1, RotationInitially, RotationStep, PTL DEF RotationSpec

-----------------------------------------------------------------------------
(* pr-comment: the lines of a diff, and the findings of a file.            *)

NoDisguise == \A i \in DOMAIN review.diff : review.diff[i].kind # "removed--"

\* The file the walk is in is the last it met.
FileKnown ==
    \/ diffFile = NoPath /\ \A f \in 1..lineAt - 1 : review.diff[f].kind # "file"
    \/ \E f \in 1..lineAt - 1 :
         /\ review.diff[f].kind = "file" /\ \A j \in f + 1..lineAt - 1 : review.diff[j].kind # "file"
         /\ diffFile = review.diff[f].path /\ diffFile # NoPath

\* In a hunk the walk has counted the lines of the new file so far.
LineKnown ==
    \A h \in 1..lineAt - 1 :
        review.diff[h].kind = "hunk" /\ (\A j \in h + 1..lineAt - 1 : review.diff[j].kind \notin {"hunk", "file"}) =>
          newLine = review.diff[h].start + Cardinality(NewLines(h, lineAt - 1))

OnTheChange(c) ==
    <<c.path, c.line>> \in Added /\ \A i \in c.shown : <<c.path, review.findings[i].line>> \in Added

WalkInv ==
    /\ review \in Reviews
    /\ lineAt \in 1..Len(review.diff) + 1 /\ newLine \in Nat
    /\ FileKnown
    /\ NoDisguise => LineKnown /\ changed \subseteq Added /\ \A c \in comments : OnTheChange(c)

\* The findings of files the command is done with.
Handled == {i \in DOMAIN review.findings : review.findings[i].path \notin uncommented \cup {NoPath}}

CountInv ==
    /\ review \in Reviews
    /\ NoPath \notin uncommented
    /\ reported.posted \in Nat /\ reported.skipped \in Nat
    /\ reported.posted + reported.skipped = Cardinality(Handled)
    /\ reported.files \subseteq {c.path : c \in comments}
    /\ commenting = "done" => uncommented = {}

LEMMA DiffTyped ==
    ASSUME NEW r \in Reviews
    PROVE  /\ r.diff \in Seq(DiffLine) /\ Len(r.diff) \in Nat /\ DOMAIN r.diff = 1..Len(r.diff)
           /\ \A i \in 1..Len(r.diff) : r.diff[i].start \in Nat
           /\ IsDiff(r.diff)
<1>1. IsDiff(r.diff)
  BY CommentsAssumption
<1>2. r.diff \in Seq(DiffLine)
  BY <1>1 DEF IsDiff
<1>3. \A i \in 1..Len(r.diff) : r.diff[i] \in DiffLine
  BY <1>2
<1>4. \A l \in DiffLine : l.start \in Nat
  BY DEF DiffLine
<1>. QED  BY <1>1, <1>2, <1>3, <1>4

\* The cases of IsDiff.
LEMMA DiffLines ==
    ASSUME NEW r \in Reviews, NEW i \in DOMAIN r.diff
    PROVE  /\ r.diff[i].kind = "file" => r.diff[i].path # NoPath
           /\ r.diff[i].kind = "hunk" => \E f \in 1..i : r.diff[f].kind = "file"
           /\ r.diff[i].kind = "header" => ~\E h \in DOMAIN r.diff : Within(r.diff, i, h)
           /\ r.diff[i].kind = "added" => \E h \in DOMAIN r.diff : Within(r.diff, i, h)
<1>1. IsDiff(r.diff)
  BY DiffTyped
<1>. QED  BY <1>1 DEF IsDiff

\* In a hunk the walk knows the file.
LEMMA FileOfHunk ==
    ASSUME WalkInv, NEW h \in 1..Len(review.diff), review.diff[h].kind = "hunk", h <= lineAt
    PROVE  /\ diffFile # NoPath
           /\ h < lineAt /\ (\A j \in h + 1..lineAt - 1 : review.diff[j].kind # "file") => diffFile = FileAt(h)
<1>1. review \in Reviews /\ lineAt \in Nat /\ FileKnown
  BY DiffTyped DEF WalkInv
<1>2. PICK g \in 1..h : review.diff[g].kind = "file"
  BY <1>1, DiffTyped, DiffLines
<1>3. g \in 1..lineAt - 1
  BY <1>1, <1>2
<1>4. PICK f \in 1..lineAt - 1 :
         /\ review.diff[f].kind = "file" /\ \A j \in f + 1..lineAt - 1 : review.diff[j].kind # "file"
         /\ diffFile = review.diff[f].path /\ diffFile # NoPath
  BY <1>1, <1>2, <1>3 DEF FileKnown
<1>5. ASSUME h < lineAt, \A j \in h + 1..lineAt - 1 : review.diff[j].kind # "file" PROVE diffFile = FileAt(h)
  <2>. DEFINE Last(k) == review.diff[k].kind = "file" /\ \A j \in k + 1..h : review.diff[j].kind # "file"
  <2>1. f \in 1..h
    BY <1>1, <1>4, <1>5
  <2>2. Last(f)
    BY <1>1, <1>4, <1>5
  <2>3. ASSUME NEW k \in 1..h, Last(k) PROVE k = f
    BY <2>1, <2>2, <2>3
  <2>4. (CHOOSE k \in 1..h : Last(k)) = f
    BY <2>1, <2>2, <2>3
  <2>. QED  BY <1>4, <2>4 DEF FileAt
<1>. QED  BY <1>4, <1>5

LEMMA NewLinesCount ==
    ASSUME NEW h \in Nat, NEW i \in Nat, h < i
    PROVE  /\ Cardinality(NewLines(h, i - 1)) \in Nat
           /\ Cardinality(NewLines(h, i)) =
                Cardinality(NewLines(h, i - 1))
                  + (IF review.diff[i].kind \in {"added", "added++", "context"} THEN 1 ELSE 0)
<1>1. IsFiniteSet(NewLines(h, i - 1)) /\ i \notin NewLines(h, i - 1)
  <2>1. NewLines(h, i - 1) \subseteq h + 1..i - 1
    BY DEF NewLines
  <2>2. IsFiniteSet(h + 1..i - 1)
    BY FS_Interval
  <2>. QED  BY <2>1, <2>2, FS_Subset
<1>2. CASE review.diff[i].kind \in {"added", "added++", "context"}
  <2>1. NewLines(h, i) = NewLines(h, i - 1) \cup {i}
    BY <1>2 DEF NewLines
  <2>. QED  BY <1>1, <1>2, <2>1, FS_AddElement, FS_CardinalityType
<1>3. CASE review.diff[i].kind \notin {"added", "added++", "context"}
  <2>1. NewLines(h, i) = NewLines(h, i - 1)
    BY <1>3 DEF NewLines
  <2>. QED  BY <1>1, <1>3, <2>1, FS_CardinalityType
<1>. QED  BY <1>2, <1>3

LEMMA NoNewLines ==
    ASSUME NEW h \in Nat
    PROVE  Cardinality(NewLines(h, h)) = 0
<1>1. NewLines(h, h) = {}
  BY DEF NewLines
<1>. QED  BY <1>1, FS_EmptySet

LEMMA WalkLineInv ==
    ASSUME WalkInv, WalkLine
    PROVE  WalkInv'
<1>. DEFINE i == lineAt
            l == review.diff[i]
<1>1. /\ review \in Reviews /\ i \in 1..Len(review.diff) /\ Len(review.diff) \in Nat /\ newLine \in Nat
      /\ DOMAIN review.diff = 1..Len(review.diff) /\ FileKnown
  BY DiffTyped DEF WalkInv, WalkLine
<1>2. /\ lineAt' = i + 1 /\ review' = review /\ comments' = comments
      /\ diffFile' = IF l.kind = "file" THEN l.path ELSE diffFile
      /\ newLine' = IF l.kind = "hunk" /\ diffFile # NoPath THEN l.start
                    ELSE IF Counts(l.kind) /\ diffFile # NoPath THEN newLine + 1 ELSE newLine
      /\ changed' = changed \cup IF l.kind = "added" /\ diffFile # NoPath THEN {<<diffFile, newLine>>} ELSE {}
  BY DEF WalkLine
<1>3. lineAt' \in 1..Len(review.diff) + 1 /\ lineAt' - 1 = i /\ newLine' \in Nat
  BY <1>1, <1>2, DiffTyped
<1>4. FileKnown'
  <2>1. CASE l.kind = "file"
    <3>1. l.path # NoPath
      BY <1>1, <2>1, DiffLines
    <3>2. \A j \in i + 1..i : review.diff[j].kind # "file"
      BY <1>1
    <3>. QED  BY <1>1, <1>2, <1>3, <2>1, <3>1, <3>2 DEF FileKnown
  <2>2. CASE l.kind # "file" /\ diffFile = NoPath /\ \A f \in 1..i - 1 : review.diff[f].kind # "file"
    <3>1. \A f \in 1..i : f = i \/ f \in 1..i - 1
      BY <1>1
    <3>. QED  BY <1>2, <1>3, <2>2, <3>1 DEF FileKnown
  <2>3. ASSUME l.kind # "file", NEW f \in 1..i - 1, review.diff[f].kind = "file", diffFile = review.diff[f].path,
               diffFile # NoPath, \A j \in f + 1..i - 1 : review.diff[j].kind # "file"
        PROVE  FileKnown'
    <3>1. f \in 1..i /\ \A j \in f + 1..i : j = i \/ j \in f + 1..i - 1
      BY <1>1
    <3>. QED  BY <1>2, <1>3, <2>3, <3>1 DEF FileKnown
  <2>. QED  BY <1>1, <2>1, <2>2, <2>3 DEF FileKnown
<1>5. ASSUME NoDisguise PROVE LineKnown'
  <2>1. LineKnown
    BY <1>5 DEF WalkInv
  <2>2. ASSUME NEW h \in 1..i, review.diff[h].kind = "hunk",
               \A j \in h + 1..i : review.diff[j].kind \notin {"hunk", "file"}
        PROVE  newLine' = review.diff[h].start + Cardinality(NewLines(h, i))
    <3>1. h \in 1..Len(review.diff) /\ diffFile # NoPath
      BY <1>1, <2>2, FileOfHunk
    <3>2. CASE h = i
      <4>1. newLine' = review.diff[h].start
        BY <1>2, <2>2, <3>1, <3>2
      <4>2. Cardinality(NewLines(h, h)) = 0
        BY <3>1, NoNewLines
      <4>3. review.diff[h].start \in Nat
        BY <1>1, <3>1, DiffTyped
      <4>4. Cardinality(NewLines(h, i)) = 0
        BY <3>2, <4>2
      <4>. QED  BY <4>1, <4>3, <4>4
    <3>3. CASE h # i
      <4>1. h < i /\ h \in 1..i - 1 /\ i \in h + 1..i
        BY <1>1, <3>1, <3>3
      <4>2. newLine = review.diff[h].start + Cardinality(NewLines(h, i - 1))
        BY <1>1, <2>1, <2>2, <4>1 DEF LineKnown
      <4>3. l.kind \notin {"hunk", "file", "header", "removed--"}
        <5>1. Within(review.diff, i, h)
          BY <2>2, <4>1 DEF Within
        <5>2. l.kind # "header"
          BY <1>1, <3>1, <5>1, DiffLines
        <5>. QED  BY <1>1, <1>5, <2>2, <4>1, <5>2 DEF NoDisguise
      <4>4. newLine' = newLine + (IF l.kind \in {"added", "added++", "context"} THEN 1 ELSE 0)
        BY <1>1, <1>2, <3>1, <4>3 DEF Counts
      <4>5. /\ Cardinality(NewLines(h, i)) = Cardinality(NewLines(h, i - 1))
                  + (IF l.kind \in {"added", "added++", "context"} THEN 1 ELSE 0)
            /\ Cardinality(NewLines(h, i - 1)) \in Nat
        BY <1>1, <3>1, <4>1, NewLinesCount
      <4>6. review.diff[h].start \in Nat
        BY <1>1, <3>1, DiffTyped
      <4>. QED  BY <4>2, <4>4, <4>5, <4>6
    <3>. QED  BY <3>2, <3>3
  <2>3. \A h : NewLines(h, lineAt - 1)' = NewLines(h, i)
    BY <1>2, <1>3 DEF NewLines
  <2>4. LineKnown' <=>
          \A h \in 1..i :
              review.diff[h].kind = "hunk" /\ (\A j \in h + 1..i : review.diff[j].kind \notin {"hunk", "file"}) =>
                newLine' = review.diff[h].start + Cardinality(NewLines(h, lineAt - 1)')
    BY <1>2, <1>3 DEF LineKnown
  <2>. QED  BY <2>2, <2>3, <2>4
<1>6. Added' = Added
  BY <1>2 DEF Added, FileAt, NewLines
<1>7. ASSUME NoDisguise PROVE changed' \subseteq Added
  <2>1. changed \subseteq Added /\ LineKnown
    BY <1>7 DEF WalkInv
  <2>2. ASSUME l.kind = "added", diffFile # NoPath PROVE <<diffFile, newLine>> \in Added
    <3>1. PICK h \in 1..Len(review.diff) : Within(review.diff, i, h)
      BY <1>1, <2>2, DiffLines
    <3>2. h < i /\ review.diff[h].kind = "hunk" /\ \A j \in h + 1..i : review.diff[j].kind \notin {"hunk", "file"}
      BY <3>1 DEF Within
    <3>3. newLine = review.diff[h].start + Cardinality(NewLines(h, i - 1))
      BY <1>1, <2>1, <3>2 DEF LineKnown
    <3>4. diffFile = FileAt(h)
      BY <1>1, <3>2, FileOfHunk
    <3>5. <<i, h>> \in {q \in (DOMAIN review.diff) \X (DOMAIN review.diff) :
                 Within(review.diff, q[1], q[2]) /\ review.diff[q[1]].kind \in {"added", "added++"}}
      BY <1>1, <2>2, <3>1
    <3>. DEFINE p == <<i, h>>
    <3>6. p[1] = i /\ p[2] = h
      OBVIOUS
    <3>. HIDE DEF p
    <3>7. <<FileAt(p[2]), review.diff[p[2]].start + Cardinality(NewLines(p[2], p[1] - 1))>> \in Added
      BY <3>5 DEF Added, p
    <3>. QED  BY <3>3, <3>4, <3>6, <3>7
  <2>. QED  BY <1>2, <2>1, <2>2
<1>8. NoDisguise' = NoDisguise /\ \A c : OnTheChange(c)' = OnTheChange(c)
  BY <1>2, <1>6 DEF NoDisguise, OnTheChange
<1>. HIDE DEF i, l
<1>. QED  BY <1>1, <1>2, <1>3, <1>4, <1>5, <1>6, <1>7, <1>8 DEF WalkInv

\* Only WalkLine moves the walk; the others may post.
LEMMA WalkKept ==
    ASSUME WalkInv, UNCHANGED <<review, lineAt, diffFile, newLine, changed>>,
           NoDisguise => \A c \in comments' \ comments : OnTheChange(c)
    PROVE  WalkInv'
<1>1. /\ review' = review /\ lineAt' = lineAt /\ diffFile' = diffFile
      /\ newLine' = newLine /\ changed' = changed
  OBVIOUS
<1>2. Added' = Added
  BY <1>1 DEF Added, FileAt, NewLines
<1>3. NoDisguise' = NoDisguise /\ LineKnown' = LineKnown /\ FileKnown' = FileKnown
  BY <1>1 DEF NoDisguise, LineKnown, NewLines, FileKnown
<1>4. \A c : OnTheChange(c)' = OnTheChange(c)
  BY <1>1, <1>2 DEF OnTheChange
<1>. QED  BY <1>1, <1>2, <1>3, <1>4 DEF WalkInv

LEMMA PostCommentInv ==
    ASSUME WalkInv, NEW path \in uncommented, PostComment(path)
    PROVE  WalkInv'
<1>1. UNCHANGED <<review, lineAt, diffFile, newLine, changed>>
  BY DEF PostComment
<1>2. PICK first \in Relevant(path) : comments' \subseteq comments \cup {Comment(path, first)}
  BY DEF PostComment
<1>3. ASSUME NoDisguise PROVE OnTheChange(Comment(path, first))
  <2>1. changed \subseteq Added
    BY <1>3 DEF WalkInv
  <2>2. \A i \in Relevant(path) : <<path, review.findings[i].line>> \in Added
    BY <2>1 DEF Relevant
  <2>3. /\ Comment(path, first).path = path
        /\ Comment(path, first).line = review.findings[first].line
        /\ Comment(path, first).shown \subseteq Relevant(path)
    BY DEF Comment
  <2>. QED  BY <1>2, <2>2, <2>3 DEF OnTheChange
<1>. QED  BY <1>1, <1>2, <1>3, WalkKept

LEMMA WalkStep ==
    ASSUME WalkInv, [CommentsNext]_reviewVars
    PROVE  WalkInv'
<1>1. CASE WalkLine
  BY <1>1, WalkLineInv
<1>2. ASSUME NEW path \in uncommented, PostComment(path) PROVE WalkInv'
  BY <1>2, PostCommentInv
<1>3. ASSUME UNCHANGED <<review, lineAt, diffFile, newLine, changed, comments>> PROVE WalkInv'
  <2>1. comments' \ comments = {}
    BY <1>3
  <2>. QED  BY <1>3, <2>1, WalkKept
<1>4. ASSUME NEW path \in uncommented, SkipFile(path) \/ LineFails(path) PROVE WalkInv'
  BY <1>3, <1>4 DEF SkipFile, LineFails
<1>5. CASE Push \/ FetchDiff \/ EndWalk \/ EndComments
  BY <1>3, <1>5 DEF Push, FetchDiff, EndWalk, EndComments
<1>6. CASE UNCHANGED reviewVars
  BY <1>3, <1>6 DEF reviewVars
<1>. QED  BY <1>1, <1>2, <1>4, <1>5, <1>6 DEF CommentsNext

\* With a file, all its findings are handled.
LEMMA TakesFile ==
    ASSUME CountInv, NEW path \in uncommented, uncommented' = uncommented \ {path}, review' = review
    PROVE  /\ Cardinality(Handled') = Cardinality(Handled) + Cardinality(FindingsIn(path))
           /\ Cardinality(FindingsIn(path)) \in Nat /\ Cardinality(Relevant(path)) \in Nat
           /\ Cardinality(Relevant(path)) <= Cardinality(FindingsIn(path))
<1>1. review \in Reviews /\ NoPath \notin uncommented
  BY DEF CountInv
<1>2. IsFiniteSet(DOMAIN review.findings)
  <2>1. Len(review.findings) \in Nat /\ DOMAIN review.findings = 1..Len(review.findings)
    BY <1>1, CommentsAssumption
  <2>. QED  BY <2>1, FS_Interval
<1>3. /\ IsFiniteSet(Handled) /\ IsFiniteSet(FindingsIn(path))
  BY <1>2, FS_Subset DEF Handled, FindingsIn
<1>4. Handled' = Handled \cup FindingsIn(path) /\ Handled \cap FindingsIn(path) = {}
  BY <1>1 DEF Handled, FindingsIn
<1>5. Relevant(path) \in SUBSET FindingsIn(path)
  BY DEF Relevant
<1>6. Cardinality(Handled) \in Nat /\ Cardinality(FindingsIn(path)) \in Nat
  BY <1>3, FS_CardinalityType
<1>7. Cardinality(Handled') = Cardinality(Handled) + Cardinality(FindingsIn(path)) - Cardinality({})
  BY <1>3, <1>4, FS_Union
<1>8. /\ IsFiniteSet(Relevant(path))
      /\ Cardinality(Relevant(path)) <= Cardinality(FindingsIn(path))
  BY <1>3, <1>5, FS_Subset
<1>. QED  BY <1>6, <1>7, <1>8, FS_EmptySet, FS_CardinalityType

LEMMA CountStep ==
    ASSUME CountInv, [CommentsNext]_reviewVars
    PROVE  CountInv'
<1>. USE DEF CountInv
<1>1. ASSUME NEW path \in uncommented, SkipFile(path) PROVE CountInv'
  <2>1. /\ review' = review /\ comments' = comments /\ uncommented' = uncommented \ {path}
        /\ commenting' = "post"
        /\ reported' = [posted |-> reported.posted, skipped |-> reported.skipped + Cardinality(FindingsIn(path)),
                        files |-> reported.files]
    BY <1>1 DEF SkipFile, Counted, Posting, Upcoming
  <2>2. /\ Cardinality(Handled') = Cardinality(Handled) + Cardinality(FindingsIn(path))
        /\ Cardinality(FindingsIn(path)) \in Nat
    BY <2>1, TakesFile
  <2>. QED  BY <2>1, <2>2
<1>2. ASSUME NEW path \in uncommented, PostComment(path) PROVE CountInv'
  <2>. DEFINE relevant == Cardinality(Relevant(path))
              all == Cardinality(FindingsIn(path))
  <2>1. /\ review' = review /\ uncommented' = uncommented \ {path} /\ commenting' = "post"
        /\ comments \subseteq comments'
    BY <1>2 DEF PostComment, Posting, Upcoming
  <2>2. /\ Cardinality(Handled') = Cardinality(Handled) + all
        /\ all \in Nat /\ relevant \in Nat /\ relevant <= all
    BY <2>1, TakesFile
  <2>3. PICK first \in Relevant(path) :
          \/ /\ comments' = comments \cup {Comment(path, first)}
             /\ reported' = [posted |-> reported.posted + relevant, skipped |-> reported.skipped + (all - relevant),
                             files |-> reported.files \cup {path}]
          \/ reported' = [posted |-> reported.posted + 0, skipped |-> reported.skipped + (relevant + (all - relevant)),
                          files |-> reported.files \cup {}]
    BY <1>2 DEF PostComment, Counted
  <2>4. reported'.posted \in Nat /\ reported'.skipped \in Nat
        /\ reported'.posted + reported'.skipped = reported.posted + reported.skipped + all
    <3>. HIDE DEF relevant, all
    <3>. QED  BY <2>2, <2>3
  <2>5. reported'.files \subseteq {c.path : c \in comments'}
    <3>1. Comment(path, first).path = path
      BY DEF Comment
    <3>. QED  BY <2>1, <2>3, <3>1
  <2>. HIDE DEF all
  <2>. QED  BY <2>1, <2>2, <2>4, <2>5
<1>3. ASSUME UNCHANGED <<review, uncommented, comments, reported>>,
             commenting' = "done" => uncommented = {}
      PROVE  CountInv'
  BY <1>3 DEF Handled
<1>4. ASSUME NEW path \in uncommented, LineFails(path) PROVE CountInv'
  BY <1>3, <1>4 DEF LineFails
<1>5. CASE Push \/ FetchDiff \/ WalkLine \/ EndWalk \/ EndComments
  BY <1>3, <1>5 DEF Push, FetchDiff, WalkLine, EndWalk, EndComments
<1>6. CASE UNCHANGED reviewVars
  BY <1>3, <1>6 DEF reviewVars
<1>. QED  BY <1>1, <1>2, <1>4, <1>5, <1>6 DEF CommentsNext

LEMMA CommentsInitially ==
    (\E r \in Reviews : CommentsInit(r)) => WalkInv /\ CountInv
<1>1. SUFFICES ASSUME NEW r \in Reviews, CommentsInit(r) PROVE WalkInv /\ CountInv
  OBVIOUS
<1>2. /\ review = r /\ commenting = "fetch" /\ lineAt = 1 /\ diffFile = NoPath /\ newLine = 0 /\ changed = {}
      /\ uncommented = {r.findings[i].path : i \in DOMAIN r.findings} \ {NoPath}
      /\ comments = {} /\ reported = [posted |-> 0, skipped |-> 0, files |-> {}]
  BY <1>1 DEF CommentsInit
<1>3. WalkInv
  <2>1. lineAt \in 1..Len(review.diff) + 1 /\ 1..lineAt - 1 = {}
    BY <1>2, DiffTyped
  <2>2. FileKnown /\ LineKnown
    BY <1>2, <2>1 DEF FileKnown, LineKnown
  <2>. QED  BY <1>2, <2>1, <2>2 DEF WalkInv
<1>4. CountInv
  <2>1. Handled = {}
    BY <1>2 DEF Handled
  <2>. QED  BY <1>2, <2>1, FS_EmptySet DEF CountInv
<1>. QED  BY <1>3, <1>4

\* For every diff and every list of findings, and wherever the head of the request moves and
\* an answer of the platform is lost (GitHubPRCommenter.post_findings, the walk of
\* PRDiffParser): a comment and the findings it shows are on lines the request adds, unless
\* the diff removes text that looks like the header of a file; a file is reported as commented
\* only if its comment is there; and at the end every finding of a file is counted once.
THEOREM CommentsAreOnTheChange ==
    CommentsSpec => []CommentsOnTheChange
<1>1. WalkInv /\ CountInv => CommentsOnTheChange
  <2>1. SUFFICES ASSUME WalkInv, CountInv PROVE CommentsOnTheChange
    OBVIOUS
  <2>2. NoDisguise => \A c \in comments : OnTheChange(c)
    BY <2>1 DEF WalkInv
  <2>3. commenting = "done" =>
          Handled = {i \in DOMAIN review.findings : review.findings[i].path # NoPath}
    BY <2>1 DEF CountInv, Handled
  <2>. QED  BY <2>1, <2>2, <2>3 DEF CommentsOnTheChange, NoDisguise, OnTheChange, CountInv
<1>. QED  BY <1>1, CommentsInitially, WalkStep, CountStep, PTL DEF CommentsSpec
=============================================================================
