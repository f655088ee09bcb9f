------------------------ MODULE GrypeDatabaseProofs ------------------------
(***************************************************************************)
(* `current` always names a whole generation, for any number of refreshes, *)
(* scans and generations, however the clock moves and whenever a refresh   *)
(* is killed, as long as none is interrupted before it notes that it has   *)
(* published.                                                              *)
(***************************************************************************)
EXTENDS GrypeDatabase, FiniteSetTheorems, TLAPS

Critical == Steps \ {"idle", "start"}

\* The step of a refresh decides what it holds, and all of them share the lock.
Holds(r) ==
    /\ pc[r] \in Critical => lock = r
    /\ pc[r] \in Critical \ {"make"} => mine[r] \in 1..made
    /\ pc[r] \in Unpublished \ {"undo", "erase"} => mine[r] # current
    /\ pc[r] \in {"undo", "erase"} => mine[r] # current \/ mine[r] \in unnoted
    /\ pc[r] \in {"note", "glob", "prune"} => mine[r] = current
    /\ pc[r] = "prune" => mine[r] \notin doomed[r]
    /\ pc[r] \in {"stage", "swap"} => disk[mine[r]] = "received" /\ stamp[mine[r]] = asked[r]
    /\ pc[r] = "load" => disk[mine[r]] = "empty"
    /\ pc[r] = "receipt" => disk[mine[r]] = "loaded"
    /\ pc[r] = "fill" => disk[mine[r]] = "torn"

CurrentMade == current # None => current \in 1..made

IInv == TypeOK /\ (\A r \in Refreshers : Holds(r)) /\ CurrentMade /\ CurrentUsable

LEMMA TypeInit == Init => TypeOK
BY ConstantsAssumption DEF Init, TypeOK, Gens, Contents, Steps

LEMMA LeaveTypes ==
    ASSUME TypeOK, NEW r \in Refreshers, Leave(r),
           disk' \in [Gens -> Contents], links' \subseteq Gens
    PROVE  TypeOK'
<1>1. 0 \in 0..MaxClock
  BY ConstantsAssumption
<1>. QED  BY <1>1 DEF TypeOK, Leave, Steps, outside

\* A directory that is being removed still is one of those, and no whole one.
LEMMA LessIsContent ==
    ASSUME NEW c, NEW rest \in Less(c)
    PROVE  /\ rest \in Contents \ {"received", "torn", "empty"}
           /\ rest = "gutted" => c = "received"
BY DEF Less, Contents

LEMMA TypeNext == IInv /\ [Next]_vars => TypeOK'
<1>. SUFFICES ASSUME TypeOK, \A r \in Refreshers : Holds(r), [Next]_vars PROVE TypeOK'
  BY DEF IInv
<1>. USE DEF process, directory, outside, pruning
<1>a. /\ MaxGens \in Nat /\ MaxClock \in Nat /\ 0 \in 0..MaxClock
      /\ regime.gens \in 0..MaxGens /\ regime.clock \in 0..MaxClock
  BY ConstantsAssumption DEF TypeOK
<1>1. ASSUME NEW r \in Refreshers, Begin(r) PROVE TypeOK'
  <2>1. clock' \in 0..MaxClock
    BY <1>1, <1>a DEF Begin, TypeOK
  <2>. QED  BY <1>1, <2>1 DEF Begin, TypeOK, Steps
<1>2. ASSUME NEW r \in Refreshers, Lock(r) \/ Busy(r) PROVE TypeOK'
  BY <1>2, <1>a DEF Lock, Busy, TypeOK, Steps
<1>3. ASSUME NEW r \in Refreshers, MakeSnapshot(r) PROVE TypeOK'
  <2>1. made' \in 0..MaxGens /\ made' \in Gens
    BY <1>3, <1>a DEF MakeSnapshot, TypeOK, Gens
  <2>. QED  BY <1>3, <2>1 DEF MakeSnapshot, TypeOK, Steps, Contents
<1>4. ASSUME NEW r \in Refreshers, Load(r) \/ OpenReceipt(r) \/ FillReceipt(r) PROVE TypeOK'
  <2>1. /\ disk' \in [Gens -> Contents] /\ stamp' \in [Gens -> 0..MaxClock]
        /\ pc' \in [Refreshers -> Steps]
    BY <1>4 DEF Load, OpenReceipt, FillReceipt, Build, TypeOK, Contents, Steps
  <2>2. UNCHANGED <<clock, lock, asked, mine, pruning, made, links, current, unnoted, outside>>
    BY <1>4 DEF Load, OpenReceipt, FillReceipt, Build
  <2>. QED  BY <2>1, <2>2 DEF TypeOK
<1>5. ASSUME NEW r \in Refreshers, StageLink(r) \/ Fail(r) PROVE TypeOK'
  <2>1. CASE StageLink(r)
    <3>1. mine[r] \in 1..made
      BY <2>1 DEF StageLink, Holds, Critical, Steps
    <3>2. mine[r] \in Gens
      BY <3>1, <1>a DEF TypeOK, Gens
    <3>. QED  BY <2>1, <3>2 DEF StageLink, TypeOK, Steps
  <2>2. CASE Fail(r)
    BY <2>2 DEF Fail, TypeOK, Steps
  <2>. QED  BY <1>5, <2>1, <2>2
<1>6. ASSUME NEW r \in Refreshers, Swap(r) \/ Note(r) \/ Interrupt(r) PROVE TypeOK'
  <2>1. CASE Swap(r)
    BY <2>1 DEF Swap, TypeOK, Steps
  <2>2. CASE Note(r)
    BY <2>2 DEF Note, TypeOK, Steps
  <2>3. CASE Interrupt(r)
    <3>1. mine[r] \in 1..made
      BY <2>3 DEF Interrupt, Holds, Critical, Steps
    <3>2. mine[r] \in Gens
      BY <3>1, <1>a DEF TypeOK, Gens
    <3>. QED  BY <2>3, <3>2 DEF Interrupt, TypeOK, Steps
  <2>. QED  BY <1>6, <2>1, <2>2, <2>3
<1>7. ASSUME NEW r \in Refreshers, Glob(r) PROVE TypeOK'
  BY <1>7 DEF Glob, Others, TypeOK, Steps, WithReceipt, WithoutReceipt
<1>8. ASSUME NEW r \in Refreshers, NEW g \in Gens, Remove(r, g) \/ RemoveFails(r, g) PROVE TypeOK'
  <2>1. CASE Remove(r, g)
    <3>1. PICK rest \in Less(disk[g]) :
            /\ disk' = [disk EXCEPT ![g] = rest]
            /\ doomed' = [doomed EXCEPT ![r] = IF rest = "absent" THEN @ \ {g} ELSE @]
      BY <2>1 DEF Remove
    <3>2. rest \in Contents
      BY <3>1, LessIsContent
    <3>. QED  BY <2>1, <3>1, <3>2 DEF Remove, TypeOK
  <2>2. CASE RemoveFails(r, g)
    BY <2>2 DEF RemoveFails, TypeOK
  <2>. QED  BY <1>8, <2>1, <2>2
<1>u. ASSUME NEW r \in Refreshers, Undo(r) \/ Erase(r) PROVE TypeOK'
  <2>1. CASE Undo(r)
    BY <2>1 DEF Undo, TypeOK, Steps
  <2>2. CASE Erase(r)
    <3>1. PICK rest \in Less(disk[mine[r]]) : disk' = [disk EXCEPT ![mine[r]] = rest]
      BY <2>2 DEF Erase
    <3>2. rest \in Contents
      BY <3>1, LessIsContent
    <3>. QED  BY <2>2, <3>1, <3>2 DEF Erase, TypeOK
  <2>. QED  BY <1>u, <2>1, <2>2
<1>9. ASSUME NEW r \in Refreshers, Return(r) \/ SyncFails(r) \/ Undone(r) \/ UndoFails(r) \/ Kill(r) PROVE TypeOK'
  <2>1. Leave(r)
    BY <1>9 DEF Return, SyncFails, Undone, UndoFails, Kill
  <2>2. disk' \in [Gens -> Contents] /\ links' \subseteq Gens
    BY <1>9 DEF Return, SyncFails, Undone, UndoFails, Kill, TypeOK, Contents
  <2>. QED  BY <2>1, <2>2, LeaveTypes
<1>10. ASSUME NEW s \in Scans, Resolve(s) \/ EndScan(s) PROVE TypeOK'
  BY <1>10 DEF Resolve, EndScan, TypeOK
<1>11. CASE StepBack
  BY <1>11, <1>a DEF StepBack, TypeOK
<1>12. CASE UNCHANGED vars
  BY <1>12 DEF vars, TypeOK
<1>. QED
  BY <1>1, <1>2, <1>3, <1>4, <1>5, <1>6, <1>7, <1>8, <1>u, <1>9, <1>10, <1>11, <1>12
     DEF Next, Refresh
-----------------------------------------------------------------------------
(* The inductive invariant, one step per action of the refresh r that moves. *)

LEMMA InvInit == Init => IInv
BY TypeInit DEF Init, IInv, Holds, CurrentMade, CurrentUsable, Critical, Unpublished

\* Outside its critical steps a refresh holds nothing: it is enough to look at
\* the one that moves and at the lock.
LEMMA OthersIdle ==
    ASSUME IInv, NEW r \in Refreshers, lock = r \/ lock = None,
           NEW q \in Refreshers, q # r
    PROVE  pc[q] \in {"idle", "start"}
<1>1. pc[q] \in Steps /\ (pc[q] \in Critical => lock = q)
  BY DEF IInv, TypeOK, Holds
<1>2. lock # q
  BY ConstantsAssumption
<1>. QED  BY <1>1, <1>2 DEF Critical

\* A refresh outside its critical steps satisfies Holds whatever happens to the disk.
LEMMA OutsideHolds ==
    ASSUME NEW q \in Refreshers, pc[q] \in {"idle", "start"}
    PROVE  Holds(q)
BY DEF Holds, Critical, Unpublished

LEMMA MoverOnly ==
    ASSUME TypeOK, NEW r \in Refreshers, Refresh(r), NEW q \in Refreshers, q # r
    PROVE  /\ pc'[q] = pc[q] /\ mine'[q] = mine[q] /\ asked'[q] = asked[q]
           /\ doomed'[q] = doomed[q] /\ spared'[q] = spared[q]
<1>. USE DEF process, directory, outside, pruning, TypeOK
<1>1. CASE Begin(r) \/ Lock(r) \/ Busy(r) \/ MakeSnapshot(r)
  BY <1>1 DEF Begin, Lock, Busy, MakeSnapshot
<1>2. CASE Load(r) \/ OpenReceipt(r) \/ FillReceipt(r)
  BY <1>2 DEF Load, OpenReceipt, FillReceipt, Build
<1>3. CASE StageLink(r) \/ Swap(r) \/ Note(r) \/ Interrupt(r) \/ Fail(r)
  BY <1>3 DEF StageLink, Swap, Note, Interrupt, Fail
<1>4. CASE Glob(r) \/ \E g \in Gens : Remove(r, g) \/ RemoveFails(r, g)
  BY <1>4 DEF Glob, Remove, RemoveFails
<1>5. CASE Return(r) \/ SyncFails(r) \/ Undo(r) \/ Erase(r) \/ Undone(r) \/ UndoFails(r) \/ Kill(r)
  BY <1>5 DEF Return, SyncFails, Undo, Erase, Undone, UndoFails, Kill, Leave
<1>. QED  BY <1>1, <1>2, <1>3, <1>4, <1>5 DEF Refresh

\* A refresh without the lock changes nothing the holder of the lock relies on.
LEMMA OutsideHarmless ==
    ASSUME TypeOK, NEW r \in Refreshers, Refresh(r), pc[r] \in {"idle", "start"},
           lock # None, lock # r
    PROVE  UNCHANGED <<lock, made, disk, stamp, links, current, unnoted>>
BY DEF Refresh, Begin, Lock, Busy, MakeSnapshot, Load, OpenReceipt, FillReceipt, Build,
       StageLink, Swap, Note, Interrupt, Fail, Glob, Remove, RemoveFails, Return, SyncFails, Undo, Erase, Undone, UndoFails, Kill, Leave, directory, Unpublished

LEMMA OthersHold ==
    ASSUME IInv, NEW r \in Refreshers, Refresh(r), NEW q \in Refreshers, q # r
    PROVE  Holds(q)'
<1>. TypeOK /\ Holds(r) /\ Holds(q)
  BY DEF IInv
<1>1. pc'[q] = pc[q] /\ mine'[q] = mine[q] /\ asked'[q] = asked[q] /\ doomed'[q] = doomed[q]
  BY MoverOnly
<1>2. CASE lock = r \/ lock = None
  <2>1. pc'[q] \in {"idle", "start"}
    BY <1>1, <1>2, OthersIdle
  <2>. QED  BY <2>1 DEF Holds, Critical, Unpublished
<1>3. CASE lock # r /\ lock # None
  <2>1. pc[r] \in {"idle", "start"}
    BY <1>3 DEF TypeOK, Holds, Critical
  <2>2. UNCHANGED <<lock, made, disk, stamp, links, current, unnoted>>
    BY <1>3, <2>1, OutsideHarmless
  <2>. QED  BY <1>1, <2>2 DEF Holds
<1>. QED  BY <1>2, <1>3

LEMMA MoverHolds ==
    ASSUME IInv, NEW r \in Refreshers, Refresh(r)
    PROVE  Holds(r)' /\ CurrentMade' /\ CurrentUsable'
<1>. TypeOK /\ Holds(r) /\ CurrentMade /\ CurrentUsable
  BY DEF IInv
<1>. USE DEF process, directory, outside, pruning
<1>a. /\ pc[r] \in Steps /\ made \in Nat /\ made \in 0..MaxGens /\ MaxGens \in Nat
      /\ None \notin Gens /\ current \in Gens \cup {None} /\ regime.gens \in 0..MaxGens
  BY ConstantsAssumption DEF TypeOK, Gens
<1>b. mine[r] \in 1..made => mine[r] \in Gens
  BY <1>a DEF Gens
<1>1. CASE Begin(r) \/ Lock(r) \/ Busy(r)
  <2>1. pc'[r] \in {"start", "idle", "make"} /\ (pc'[r] = "make" => lock' = r)
    BY <1>1 DEF Begin, Lock, Busy, TypeOK
  <2>2. UNCHANGED directory
    BY <1>1 DEF Begin, Lock, Busy
  <2>. QED  BY <2>1, <2>2 DEF Holds, Critical, Unpublished, CurrentMade, CurrentUsable
<1>2. CASE MakeSnapshot(r)
  <2>1. /\ lock' = r /\ pc'[r] = "load" /\ mine'[r] = made' /\ made' = made + 1
        /\ current' = current /\ unnoted' = unnoted /\ disk' = [disk EXCEPT ![made'] = "empty"] /\ made' \in Gens
    BY <1>2, <1>a DEF MakeSnapshot, Holds, Critical, TypeOK, Gens, Steps
  <2>2. current # made'
    BY <2>1, <1>a, ConstantsAssumption DEF CurrentMade, Gens
  <2>3. Holds(r)'
    BY <2>1, <2>2, <1>a DEF Holds, Critical, Unpublished, TypeOK
  <2>4. CurrentMade' /\ CurrentUsable'
    BY <2>1, <2>2, <1>a DEF CurrentMade, CurrentUsable, TypeOK
  <2>. QED  BY <2>3, <2>4
<1>3. CASE Load(r) \/ OpenReceipt(r) \/ FillReceipt(r)
  <2>1. /\ lock = r /\ mine[r] \in Gens /\ mine[r] \in 1..made /\ mine[r] # current
    BY <1>3, <1>b DEF Load, OpenReceipt, FillReceipt, Build, Holds, Critical, Unpublished, Steps
  <2>2. UNCHANGED <<lock, made, mine, asked, current, unnoted>>
    BY <1>3 DEF Load, OpenReceipt, FillReceipt, Build
  <2>3. /\ \A g \in Gens : g # mine[r] => disk'[g] = disk[g]
        /\ \/ pc'[r] = "receipt" /\ disk'[mine[r]] = "loaded"
           \/ pc'[r] = "fill" /\ disk'[mine[r]] = "torn"
           \/ pc'[r] = "stage" /\ disk'[mine[r]] = "received" /\ stamp'[mine[r]] = asked[r]
    BY <1>3, <2>1 DEF Load, OpenReceipt, FillReceipt, Build, TypeOK
  <2>4. Holds(r)'
    BY <2>1, <2>2, <2>3 DEF Holds, Critical, Unpublished, Steps
  <2>5. CurrentMade' /\ CurrentUsable'
    BY <2>1, <2>2, <2>3, <1>a DEF CurrentMade, CurrentUsable
  <2>. QED  BY <2>4, <2>5
<1>4. CASE StageLink(r) \/ Fail(r)
  <2>1. /\ pc[r] \in Unpublished \ {"undo", "erase"} /\ pc'[r] \in {"swap", "undo"}
        /\ pc'[r] = "swap" => pc[r] = "stage"
        /\ UNCHANGED <<lock, made, mine, asked, current, disk, stamp, unnoted>>
    BY <1>4 DEF StageLink, Fail, TypeOK, Unpublished
  <2>. QED  BY <2>1 DEF Holds, Critical, Unpublished, Steps, CurrentMade, CurrentUsable
<1>5. CASE Swap(r)
  <2>1. /\ pc[r] = "swap" /\ pc'[r] = "note" /\ current' = mine[r]
        /\ UNCHANGED <<lock, made, mine, disk, unnoted>>
    BY <1>5 DEF Swap, TypeOK
  <2>. QED  BY <2>1 DEF Holds, Critical, Unpublished, Steps, CurrentMade, CurrentUsable
<1>n. CASE Note(r)
  <2>1. /\ pc[r] = "note" /\ pc'[r] = "glob"
        /\ UNCHANGED <<lock, made, mine, disk, current, unnoted>>
    BY <1>n DEF Note, TypeOK
  <2>. QED  BY <2>1 DEF Holds, Critical, Unpublished, Steps, CurrentMade, CurrentUsable
<1>i. CASE Interrupt(r)
  <2>1. /\ pc[r] = "note" /\ pc'[r] = "undo" /\ unnoted' = unnoted \cup {mine[r]}
        /\ UNCHANGED <<lock, made, mine, disk, current>>
    BY <1>i DEF Interrupt, TypeOK
  <2>. QED  BY <2>1 DEF Holds, Critical, Unpublished, Steps, CurrentMade, CurrentUsable
<1>6. CASE Glob(r)
  <2>1. /\ pc[r] = "glob" /\ pc'[r] = "prune" /\ mine[r] \notin doomed'[r]
        /\ UNCHANGED <<lock, made, mine, disk, current, unnoted>>
    BY <1>6 DEF Glob, TypeOK, WithReceipt, WithoutReceipt
  <2>. QED  BY <2>1 DEF Holds, Critical, Unpublished, Steps, CurrentMade, CurrentUsable
<1>7. ASSUME NEW g \in Gens, Remove(r, g) \/ RemoveFails(r, g)
      PROVE  Holds(r)' /\ CurrentMade' /\ CurrentUsable'
  <2>1. /\ pc[r] = "prune" /\ g \in doomed[r] /\ g # mine[r] /\ mine[r] = current
        /\ mine[r] \in 1..made /\ lock = r /\ mine[r] \in Gens
    BY <1>7, <1>b DEF Remove, RemoveFails, Holds, Critical, Steps
  <2>2. /\ UNCHANGED <<lock, pc, made, mine, current, unnoted>>
        /\ disk'[mine[r]] = disk[mine[r]]
        /\ doomed'[r] \subseteq doomed[r]
    <3>1. CASE Remove(r, g)
      BY <3>1, <2>1 DEF Remove, TypeOK
    <3>2. CASE RemoveFails(r, g)
      BY <3>2, <2>1 DEF RemoveFails, TypeOK
    <3>. QED  BY <1>7, <3>1, <3>2
  <2>. QED  BY <2>1, <2>2 DEF Holds, Critical, Unpublished, Steps, CurrentMade, CurrentUsable
<1>u. CASE Undo(r) \/ Erase(r)
  <2>1. /\ pc[r] \in {"undo", "erase"} /\ pc'[r] = "erase" /\ mine[r] \in Gens
        /\ mine[r] # current \/ mine[r] \in unnoted
        /\ UNCHANGED <<lock, made, mine, current, unnoted>>
    BY <1>u, <1>b DEF Undo, Erase, Holds, Critical, Unpublished, Steps, TypeOK
  <2>2. \A g \in Gens : g # mine[r] => disk'[g] = disk[g]
    BY <1>u, <2>1 DEF Undo, Erase, TypeOK
  <2>. QED  BY <2>1, <2>2, <1>a DEF Holds, Critical, Unpublished, Steps, CurrentMade, CurrentUsable
<1>8. CASE Return(r) \/ SyncFails(r) \/ Undone(r) \/ UndoFails(r) \/ Kill(r)
  <2>1. pc'[r] = "idle" /\ UNCHANGED <<made, current, disk, unnoted>>
    BY <1>8 DEF Return, SyncFails, Undone, UndoFails, Kill, Leave, TypeOK
  <2>. QED  BY <2>1 DEF Holds, Critical, Unpublished, CurrentMade, CurrentUsable
<1>. QED  BY <1>1, <1>2, <1>3, <1>4, <1>5, <1>n, <1>i, <1>6, <1>7, <1>u, <1>8 DEF Refresh

LEMMA InvNext == IInv /\ [Next]_vars => IInv'
<1>. SUFFICES ASSUME IInv, [Next]_vars PROVE IInv'
  OBVIOUS
<1>1. TypeOK'
  BY TypeNext
<1>2. ASSUME NEW r \in Refreshers, Refresh(r) PROVE IInv'
  <2>1. \A q \in Refreshers : Holds(q)'
    BY <1>2, MoverHolds, OthersHold
  <2>. QED  BY <1>1, <1>2, <2>1, MoverHolds DEF IInv
<1>3. CASE UNCHANGED <<process, directory>>
  BY <1>1, <1>3 DEF IInv, Holds, CurrentMade, CurrentUsable, process, directory, pruning
<1>4. UNCHANGED <<process, directory>> \/ \E r \in Refreshers : Refresh(r)
  BY DEF Next, Resolve, EndScan, StepBack, vars, process, directory, pruning
<1>. QED  BY <1>2, <1>3, <1>4

\* The invariant of the proof holds in every reachable state.
LEMMA InvAlways == Spec => []IInv
BY InvInit, InvNext, PTL DEF Spec

-----------------------------------------------------------------------------
(* What a prune leaves.                                                    *)

\* While a refresh prunes, one generation at most, beside its own, those it is to remove
\* and those it could not read or remove, is on disk.
Swept(r) ==
    pc[r] = "prune" =>
        \E k \in Gens \cup {None} :
            \A g \in Gens \ {mine[r], k} : g \in doomed[r] \cup spared[r] \/ disk[g] = "absent"

LEMMA GlobSweeps == ASSUME IInv, NEW r \in Refreshers, Glob(r) PROVE Swept(r)'
<1>1. PICK skipped \in SUBSET Others(r) :
        /\ {g \in Others(r) : disk[g] = "torn"} \subseteq skipped
        /\ \E kept \in SUBSET Newest(WithReceipt(r) \ skipped) :
             /\ Cardinality(kept) = IF WithReceipt(r) \subseteq skipped THEN 0 ELSE 1
             /\ doomed' = [doomed EXCEPT ![r] =
                              (WithoutReceipt(r) \cup WithReceipt(r)) \ (skipped \cup kept)]
        /\ spared' = [spared EXCEPT ![r] = skipped]
  BY DEF Glob
<1>0. PICK kept \in SUBSET Newest(WithReceipt(r) \ skipped) :
        /\ Cardinality(kept) = IF WithReceipt(r) \subseteq skipped THEN 0 ELSE 1
        /\ doomed' = [doomed EXCEPT ![r] =
                         (WithoutReceipt(r) \cup WithReceipt(r)) \ (skipped \cup kept)]
  BY <1>1
<1>2. /\ UNCHANGED <<disk, mine>> /\ doomed \in [Refreshers -> SUBSET Gens] /\ disk \in [Gens -> Contents]
      /\ spared \in [Refreshers -> SUBSET Gens]
  BY DEF Glob, IInv, TypeOK, directory
<1>3. kept \subseteq Gens /\ kept \subseteq WithReceipt(r) \ skipped
  BY DEF WithReceipt, Newest
<1>4. IsFiniteSet(kept)
  <2>1. IsFiniteSet(Gens)
    BY FS_Interval, ConstantsAssumption DEF Gens
  <2>. QED  BY <1>3, <2>1, FS_Subset
<1>5. PICK k \in Gens \cup {None} : kept \subseteq {k}
  <2>1. CASE WithReceipt(r) \subseteq skipped
    BY <1>3, <2>1
  <2>2. CASE ~(WithReceipt(r) \subseteq skipped)
    <3>1. Cardinality(kept) = 1
      BY <1>0, <2>2
    <3>2. \E x : kept = {x}
      BY <1>4, <3>1, FS_Singleton
    <3>. QED  BY <1>3, <3>2
  <2>. QED  BY <2>1, <2>2
<1>6. /\ doomed'[r] = (WithoutReceipt(r) \cup WithReceipt(r)) \ (skipped \cup kept)
      /\ spared'[r] = skipped
  BY <1>0, <1>1, <1>2
<1>7. ASSUME NEW g \in Gens \ {mine[r], k} PROVE g \in doomed'[r] \cup spared'[r] \/ disk'[g] = "absent"
  <2>1. disk[g] \in Contents /\ disk'[g] = disk[g]
    BY <1>2
  <2>2. CASE disk[g] = "torn"
    BY <1>1, <1>6, <2>2 DEF Others
  <2>3. CASE disk[g] \in {"empty", "loaded", "received", "gutted"}
    <3>1. g \in WithReceipt(r) \cup WithoutReceipt(r) /\ g \notin kept
      BY <1>5, <2>3 DEF WithReceipt, WithoutReceipt
    <3>. QED  BY <1>6, <3>1
  <2>. QED  BY <2>1, <2>2, <2>3 DEF Contents
<1>8. mine'[r] = mine[r]
  BY <1>2
<1>. QED  BY <1>7, <1>8 DEF Swept

LEMMA SweptKept ==
    ASSUME IInv, \A q \in Refreshers : Swept(q), NEW r \in Refreshers, Refresh(r)
    PROVE  \A q \in Refreshers : Swept(q)'
<1>. TypeOK
  BY DEF IInv
<1>. SUFFICES ASSUME NEW q \in Refreshers, pc'[q] = "prune" PROVE Swept(q)'
  BY DEF Swept
<1>1. CASE Glob(r) /\ q = r
  BY <1>1, GlobSweeps
<1>2. CASE pc[q] = "prune"
  <2>1. PICK k \in Gens \cup {None} :
          \A g \in Gens \ {mine[q], k} : g \in doomed[q] \cup spared[q] \/ disk[g] = "absent"
    BY <1>2 DEF Swept
  <2>2. mine'[q] = mine[q]
        /\ \A g \in Gens : (g \in doomed[q] \cup spared[q] \/ disk[g] = "absent")
                              => (g \in doomed'[q] \cup spared'[q] \/ disk'[g] = "absent")
    <3>1. CASE q = r
      <4>1. PICK g \in Gens : Remove(r, g) \/ RemoveFails(r, g)
        BY <1>2, <3>1 DEF Refresh, Begin, Lock, Busy, MakeSnapshot, Load, OpenReceipt, FillReceipt, Build,
           StageLink, Swap, Note, Interrupt, Fail, Glob, Return, SyncFails, Undo, Erase, Undone, UndoFails, Kill, Leave, TypeOK, Steps
      <4>2. CASE Remove(r, g)
        <5>1. PICK rest \in Less(disk[g]) :
                /\ disk' = [disk EXCEPT ![g] = rest]
                /\ doomed' = [doomed EXCEPT ![r] = IF rest = "absent" THEN @ \ {g} ELSE @]
          BY <4>2 DEF Remove
        <5>2. g \in doomed[r] /\ UNCHANGED <<mine, spared>>
          BY <4>2 DEF Remove
        <5>3. disk'[g] = "absent" \/ g \in doomed'[r]
          BY <5>1, <5>2 DEF TypeOK
        <5>4. \A h \in Gens \ {g} : disk'[h] = disk[h] /\ (h \in doomed[r] => h \in doomed'[r])
          BY <5>1 DEF TypeOK
        <5>. QED  BY <3>1, <5>2, <5>3, <5>4
      <4>3. CASE RemoveFails(r, g)
        BY <3>1, <4>3 DEF RemoveFails, TypeOK, directory
      <4>. QED  BY <4>1, <4>2, <4>3
    <3>2. CASE q # r
      <4>1. lock = q
        BY <1>2 DEF IInv, Holds, Critical, Steps
      <4>2. pc[r] \in {"idle", "start"} /\ lock # r /\ lock # None
        BY <3>2, <4>1, OthersIdle, ConstantsAssumption
      <4>3. UNCHANGED disk
        BY <4>2, OutsideHarmless
      <4>. QED  BY <3>2, <4>3, MoverOnly
    <3>. QED  BY <3>1, <3>2
  <2>. QED  BY <2>1, <2>2 DEF Swept
<1>3. CASE pc[q] # "prune"
  <2>1. q = r
    BY <1>3, MoverOnly
  <2>2. Glob(r)
    BY <1>3, <2>1 DEF Refresh, Begin, Lock, Busy, MakeSnapshot, Load, OpenReceipt, FillReceipt, Build,
       StageLink, Swap, Note, Interrupt, Fail, Remove, RemoveFails, Return, SyncFails, Undo, Erase, Undone, UndoFails, Kill, Leave, TypeOK, process
  <2>. QED  BY <2>1, <2>2, <1>1
<1>. QED  BY <1>2, <1>3

LEMMA SweptAlways == Spec => [](IInv /\ \A r \in Refreshers : Swept(r))
<1>. DEFINE S == \A r \in Refreshers : Swept(r)
<1>1. Init => S
  BY DEF Init, Swept
<1>2. IInv /\ S /\ [Next]_vars => S'
  <2>. SUFFICES ASSUME IInv, S, [Next]_vars PROVE S'
    OBVIOUS
  <2>1. CASE \E r \in Refreshers : Refresh(r)
    BY <2>1, SweptKept
  <2>2. CASE UNCHANGED <<process, directory>>
    BY <2>2 DEF Swept, process, directory, pruning
  <2>3. UNCHANGED <<process, directory>> \/ \E r \in Refreshers : Refresh(r)
    BY DEF Next, Resolve, EndScan, StepBack, vars, process, directory, pruning
  <2>. QED  BY <2>1, <2>2, <2>3
<1>. HIDE DEF S
<1>3. Spec => [](IInv /\ S)
  BY InvAlways, <1>1, <1>2, PTL DEF Spec
<1>. QED  BY <1>3 DEF S

-----------------------------------------------------------------------------
(* Calm: refreshes one after the other, a clock that only advances, and no *)
(* kill between the receipt and the swap. Then receipts order generations. *)

Calm == regime.atOnce = 1 /\ ~regime.back /\ ~regime.late

Building(g) == \E r \in Refreshers : pc[r] \in Unpublished /\ mine[r] = g

\* The generations a prune ranks, the one under construction aside.
Published == {g \in Gens : disk[g] \in {"received", "gutted"} /\ ~Building(g)}

OneAtATime == \A q, r \in Refreshers : pc[q] # "idle" /\ pc[r] # "idle" => q = r

\* The steps after which a refresh publishes nothing any more.
Over == {"note", "glob", "prune", "undo", "erase"}

\* `current` has the latest receipt, and a refresh that is under way a later one.
Ordered ==
    /\ \A g \in Gens : stamp[g] <= clock
    /\ \A r \in Refreshers :
         /\ asked[r] <= clock
         /\ pc[r] \notin {"idle"} \cup Over => \A g \in Published : stamp[g] < asked[r]
    /\ \A g \in Published : g # current => current # None /\ stamp[g] < stamp[current]

\* A generation read since before the last swap is the newest of the previous ones.
Previous(g) ==
    /\ g # current
    /\ g \in Published
    /\ g \in 1..made
    /\ disk[g] = "received"
    /\ \A r \in Refreshers : pc[r] = "prune" => g \notin doomed[r]
    /\ \A h \in Published \ {current, g} : stamp[h] < stamp[g]

Reader(s) ==
    /\ reading[s] = None => swaps[s] = 0
    /\ reading[s] # None /\ swaps[s] = 0 => reading[s] = current
    /\ reading[s] # None /\ swaps[s] = 1 /\ reading[s] \notin unnoted => Previous(reading[s])

InOrder == OneAtATime /\ Ordered /\ \A s \in Scans : Reader(s)

LEMMA Alone ==
    ASSUME IInv, Calm, OneAtATime, NEW r \in Refreshers, Refresh(r), NEW q \in Refreshers, q # r
    PROVE  pc[q] = "idle" /\ pc'[q] = "idle"
<1>1. pc[q] = "idle"
  <2>1. CASE pc[r] # "idle"
    BY <2>1 DEF OneAtATime
  <2>2. CASE pc[r] = "idle"
    <3>. DEFINE busy == {p \in Refreshers : pc[p] # "idle"}
    <3>1. Cardinality(busy) < 1
      BY <2>2 DEF Refresh, Begin, Lock, Busy, MakeSnapshot, Load, OpenReceipt, FillReceipt, Build,
         StageLink, Swap, Note, Interrupt, Fail, Glob, Remove, RemoveFails, Return, SyncFails, Undo, Erase, Undone, UndoFails, Kill, Calm
    <3>2. ASSUME pc[q] # "idle" PROVE FALSE
      <4>1. busy = {q}
        BY <3>2 DEF OneAtATime
      <4>2. Cardinality(busy) = 1
        BY <4>1, FS_Singleton
      <4>. QED  BY <3>1, <4>2
    <3>. QED  BY <3>2
  <2>. QED  BY <2>1, <2>2
<1>. QED  BY <1>1, MoverOnly DEF IInv

\* What is under construction is the mover's, before and after its step.
LEMMA BuildingAlone ==
    ASSUME IInv, Calm, OneAtATime, NEW r \in Refreshers, Refresh(r), NEW g
    PROVE  /\ Building(g) <=> (pc[r] \in Unpublished /\ mine[r] = g)
           /\ Building(g)' <=> (pc'[r] \in Unpublished /\ mine'[r] = g)
BY Alone DEF Building, Unpublished

\* Short of a swap no generation is published, and those that were keep their receipt.
LEMMA PublishedShrinks ==
    ASSUME IInv, Calm, OneAtATime, NEW r \in Refreshers, Refresh(r), ~Swap(r)
    PROVE  Published' \subseteq Published /\ \A g \in Published : stamp'[g] = stamp[g]
<1>. TypeOK /\ Holds(r)
  BY DEF IInv
<1>. USE DEF directory
<1>. SUFFICES ASSUME NEW g \in Gens
              PROVE  /\ g \in Published' => g \in Published
                     /\ g \in Published => stamp'[g] = stamp[g]
  BY DEF Published
<1>b. /\ Building(g) <=> (pc[r] \in Unpublished /\ mine[r] = g)
      /\ Building(g)' <=> (pc'[r] \in Unpublished /\ mine'[r] = g)
  BY BuildingAlone
<1>1. CASE Begin(r) \/ Lock(r) \/ Busy(r) \/ Glob(r) \/ SyncFails(r) \/ Return(r)
  <2>1. UNCHANGED <<disk, stamp>> /\ pc[r] \notin Unpublished
    BY <1>1 DEF Begin, Lock, Busy, Glob, SyncFails, Return, Leave, Unpublished
  <2>. QED  BY <2>1, <1>b DEF Published
<1>2. CASE StageLink(r) \/ Fail(r) \/ Undo(r)
  <2>1. UNCHANGED <<disk, stamp, mine>> /\ pc[r] \in Unpublished /\ pc'[r] \in Unpublished
    BY <1>2 DEF StageLink, Fail, Undo, Unpublished, TypeOK
  <2>. QED  BY <2>1, <1>b DEF Published
<1>3. CASE MakeSnapshot(r)
  <2>1. /\ disk'[g] # disk[g] => disk'[g] = "empty"
        /\ stamp' = stamp /\ pc[r] \notin Unpublished
    BY <1>3 DEF MakeSnapshot, TypeOK, Unpublished
  <2>. QED  BY <2>1, <1>b DEF Published
<1>4. CASE Load(r) \/ OpenReceipt(r) \/ FillReceipt(r)
  <2>1. /\ pc[r] \in Unpublished /\ pc'[r] \in Unpublished /\ mine' = mine
        /\ mine[r] # g => disk'[g] = disk[g] /\ stamp'[g] = stamp[g]
    BY <1>4 DEF Load, OpenReceipt, FillReceipt, Build, TypeOK, Unpublished
  <2>. QED  BY <2>1, <1>b DEF Published
<1>n. CASE Note(r) \/ Interrupt(r)
  <2>1. UNCHANGED <<disk, stamp, mine>> /\ pc[r] \notin Unpublished
    BY <1>n DEF Note, Interrupt, Unpublished
  <2>. QED  BY <2>1, <1>b DEF Published
<1>5. ASSUME NEW h \in Gens, Remove(r, h) \/ RemoveFails(r, h)
      PROVE  /\ g \in Published' => g \in Published
             /\ g \in Published => stamp'[g] = stamp[g]
  <2>1. CASE Remove(r, h)
    <3>1. PICK rest \in Less(disk[h]) : disk' = [disk EXCEPT ![h] = rest]
      BY <2>1 DEF Remove
    <3>2. /\ UNCHANGED <<pc, mine, stamp>>
          /\ disk'[g] \in {"received", "gutted"} => disk[g] \in {"received", "gutted"}
      BY <2>1, <3>1, LessIsContent DEF Remove, TypeOK
    <3>. QED  BY <3>2, <1>b DEF Published
  <2>2. CASE RemoveFails(r, h)
    BY <2>2, <1>b DEF RemoveFails, Published
  <2>. QED  BY <1>5, <2>1, <2>2
<1>6. CASE Erase(r)
  <2>1. PICK rest \in Less(disk[mine[r]]) : disk' = [disk EXCEPT ![mine[r]] = rest]
    BY <1>6 DEF Erase
  <2>2. /\ pc[r] \in Unpublished /\ UNCHANGED <<pc, mine, stamp>>
        /\ disk'[g] \in {"received", "gutted"} => disk[g] \in {"received", "gutted"}
    BY <1>6, <2>1, LessIsContent DEF Erase, TypeOK, Unpublished, process
  <2>. QED  BY <2>2, <1>b DEF Published
<1>7. CASE Undone(r) \/ UndoFails(r) \/ Kill(r)
  <2>1. UNCHANGED <<disk, stamp>>
    BY <1>7 DEF Undone, UndoFails, Kill, Leave
  <2>2. pc[r] \in Unpublished => disk[mine[r]] \notin {"received", "gutted"}
    BY <1>7 DEF Undone, UndoFails, Kill, MayEnd, Calm
  <2>. QED  BY <2>1, <2>2, <1>b DEF Published
<1>. QED  BY <1>1, <1>2, <1>3, <1>4, <1>n, <1>5, <1>6, <1>7 DEF Refresh

\* Short of a swap `current` and the scans stay where they are.
LEMMA CurrentStays ==
    ASSUME NEW r \in Refreshers, Refresh(r), ~Swap(r)
    PROVE  UNCHANGED <<current, regime, reading, swaps>> /\ unnoted \subseteq unnoted'
BY DEF Refresh, Begin, Lock, Busy, MakeSnapshot, Load, OpenReceipt, FillReceipt, Build,
       StageLink, Note, Interrupt, Fail, Glob, Remove, RemoveFails, Return, SyncFails, Undo, Erase, Undone, UndoFails, Kill, Leave, directory, outside

LEMMA OrderKept ==
    ASSUME IInv, Calm, OneAtATime, Ordered, NEW r \in Refreshers, Refresh(r), ~Swap(r)
    PROVE  Ordered'
<1>. TypeOK /\ Holds(r)
  BY DEF IInv
<1>. USE DEF process, directory, outside
<1>a. /\ Published' \subseteq Published /\ \A g \in Published : stamp'[g] = stamp[g]
      /\ current' = current
  BY PublishedShrinks, CurrentStays
<1>b. /\ clock \in Nat /\ clock' \in Nat /\ clock <= clock' /\ asked[r] \in Nat
      /\ \A g \in Gens : stamp[g] \in Nat
  <2>1. clock' = clock \/ clock' = clock + 1
    BY DEF Refresh, Begin, Lock, Busy, MakeSnapshot, Load, OpenReceipt, FillReceipt, Build,
       StageLink, Swap, Note, Interrupt, Fail, Glob, Remove, RemoveFails, Return, SyncFails, Undo, Erase, Undone, UndoFails, Kill, Leave
  <2>. QED  BY <2>1, ConstantsAssumption DEF TypeOK
<1>1. \A g \in Gens : stamp'[g] <= clock'
  <2>1. CASE FillReceipt(r)
    <3>1. \A g \in Gens : stamp'[g] \in {stamp[g], asked[r]}
      BY <2>1 DEF FillReceipt, TypeOK
    <3>. QED  BY <3>1, <1>b DEF Ordered
  <2>2. CASE ~FillReceipt(r)
    <3>1. stamp' = stamp
      BY <2>2 DEF Refresh, Begin, Lock, Busy, MakeSnapshot, Load, OpenReceipt,
         StageLink, Swap, Note, Interrupt, Fail, Glob, Remove, RemoveFails, Return, SyncFails, Undo, Erase, Undone, UndoFails, Kill, Leave
    <3>. QED  BY <3>1, <1>b DEF Ordered
  <2>. QED  BY <2>1, <2>2
<1>2. \A g \in Published' : g # current' => current' # None /\ stamp'[g] < stamp'[current']
  <2>1. current # None => stamp'[current] = stamp[current]
    <3>1. CASE FillReceipt(r)
      <4>1. mine[r] # current
        BY <3>1 DEF FillReceipt, Build, Holds, Unpublished
      <4>. QED  BY <3>1, <4>1 DEF FillReceipt, TypeOK
    <3>2. CASE ~FillReceipt(r)
      BY <3>2 DEF Refresh, Begin, Lock, Busy, MakeSnapshot, Load, OpenReceipt, StageLink, Note, Interrupt,
         Fail, Glob, Remove, RemoveFails, Return, SyncFails, Undo, Erase, Undone, UndoFails, Kill, Leave
    <3>. QED  BY <3>1, <3>2
  <2>. QED  BY <1>a, <2>1 DEF Ordered
<1>3. asked'[r] <= clock'
  <2>1. asked'[r] \in {0, asked[r]} \/ asked'[r] = clock'
    BY DEF Refresh, Begin, Lock, Busy, MakeSnapshot, Load, OpenReceipt, FillReceipt, Build,
       StageLink, Swap, Note, Interrupt, Fail, Glob, Remove, RemoveFails, Return, SyncFails, Undo, Erase, Undone, UndoFails, Kill, Leave, TypeOK
  <2>. QED  BY <2>1, <1>b DEF Ordered
<1>4. ASSUME pc'[r] \notin {"idle"} \cup Over, NEW g \in Published'
      PROVE  stamp'[g] < asked'[r]
  <2>1. g \in Published /\ g \in Gens /\ stamp'[g] = stamp[g]
    BY <1>a DEF Published
  <2>2. CASE Begin(r)
    <3>1. asked'[r] = clock + 1
      BY <2>2 DEF Begin, TypeOK
    <3>. QED  BY <2>1, <3>1, <1>b DEF Ordered
  <2>3. CASE ~Begin(r)
    <3>1. asked'[r] = asked[r] /\ pc[r] \notin {"idle"} \cup Over
      BY <1>4, <2>3 DEF Over, Refresh, Lock, Busy, MakeSnapshot, Load, OpenReceipt, FillReceipt, Build,
         StageLink, Swap, Note, Interrupt, Fail, Glob, Remove, RemoveFails, Return, SyncFails, Undo, Erase, Undone, UndoFails, Kill, Leave, TypeOK
    <3>. QED  BY <2>1, <3>1 DEF Ordered
  <2>. QED  BY <2>2, <2>3
<1>5. ASSUME NEW q \in Refreshers, q # r
      PROVE  asked'[q] <= clock' /\ pc'[q] \in {"idle"} \cup Over
  <2>1. asked'[q] = asked[q] /\ pc'[q] = "idle" /\ asked[q] \in Nat
    BY <1>5, MoverOnly, Alone, ConstantsAssumption DEF TypeOK
  <2>. QED  BY <2>1, <1>b DEF Ordered
<1>. QED  BY <1>1, <1>2, <1>3, <1>4, <1>5 DEF Ordered

\* No step but a swap takes the previous generation away, the choice of what to prune
\* included.
LEMMA PreviousKept ==
    ASSUME IInv, Calm, OneAtATime, NEW r \in Refreshers, Refresh(r), ~Swap(r),
           NEW g \in Gens, Previous(g)
    PROVE  Previous(g)'
<1>. TypeOK /\ Holds(r)
  BY DEF IInv
<1>. USE DEF directory
<1>a. /\ Published' \subseteq Published /\ \A h \in Published : stamp'[h] = stamp[h]
      /\ current' = current
  BY PublishedShrinks, CurrentStays
<1>b. /\ Building(g) <=> (pc[r] \in Unpublished /\ mine[r] = g)
      /\ Building(g)' <=> (pc'[r] \in Unpublished /\ mine'[r] = g)
  BY BuildingAlone
<1>c. made \in Nat /\ g \in 1..made /\ ~Building(g) /\ disk[g] = "received"
  BY ConstantsAssumption DEF Previous, Published, TypeOK
<1>1. disk'[g] = "received" /\ ~Building(g)' /\ g \in 1..made'
  <2>1. CASE MakeSnapshot(r)
    <3>1. made' = made + 1 /\ made' # g
      BY <2>1, <1>c DEF MakeSnapshot
    <3>2. disk'[g] = disk[g] /\ mine'[r] = made' /\ g \in 1..made'
      BY <2>1, <3>1, <1>c DEF MakeSnapshot, TypeOK
    <3>. QED  BY <3>1, <3>2, <1>b, <1>c
  <2>2. CASE Load(r) \/ OpenReceipt(r) \/ FillReceipt(r) \/ Erase(r)
    <3>1. pc[r] \in Unpublished
      BY <2>2 DEF Load, OpenReceipt, FillReceipt, Build, Erase, Unpublished
    <3>2. mine[r] # g
      BY <3>1, <1>b, <1>c
    <3>3. /\ disk'[g] = disk[g] /\ made' = made
          /\ mine'[r] = mine[r]
      BY <2>2, <3>2 DEF Load, OpenReceipt, FillReceipt, Build, Erase, TypeOK, process
    <3>. QED  BY <3>2, <3>3, <1>b, <1>c
  <2>3. ASSUME NEW h \in Gens, Remove(r, h) \/ RemoveFails(r, h)
        PROVE  disk'[g] = "received" /\ ~Building(g)' /\ g \in 1..made'
    <3>1. h # g
      BY <2>3 DEF Remove, RemoveFails, Previous
    <3>2. disk'[g] = disk[g] /\ UNCHANGED <<pc, mine, made>>
      BY <2>3, <3>1 DEF Remove, RemoveFails, TypeOK
    <3>. QED  BY <3>2, <1>b, <1>c
  <2>4. CASE \/ Begin(r) \/ Lock(r) \/ Busy(r) \/ StageLink(r) \/ Note(r) \/ Fail(r) \/ Glob(r)
             \/ SyncFails(r) \/ Return(r) \/ Undo(r) \/ Undone(r) \/ UndoFails(r) \/ Kill(r)
    <3>1. /\ UNCHANGED <<disk, made>>
          /\ pc'[r] \in Unpublished => pc[r] \in Unpublished /\ mine'[r] = mine[r]
      BY <2>4 DEF Begin, Lock, Busy, StageLink, Note, Fail, Glob, SyncFails, Return, Undo, Undone, UndoFails,
         Kill, Leave, Unpublished, TypeOK
    <3>. QED  BY <3>1, <1>b, <1>c
  <2>5. CASE Interrupt(r)
    <3>1. UNCHANGED <<disk, made, mine>> /\ mine[r] = current
      BY <2>5 DEF Interrupt, Holds
    <3>. QED  BY <3>1, <1>b, <1>c DEF Previous
  <2>. QED  BY <2>1, <2>2, <2>3, <2>4, <2>5 DEF Refresh
<1>2. ASSUME NEW q \in Refreshers, pc'[q] = "prune" PROVE g \notin doomed'[q]
  <2>1. q = r
    BY <1>2, Alone
  <2>2. CASE Glob(r)
    <3>0. PICK skipped \in SUBSET Others(r) :
            \E kept \in SUBSET Newest(WithReceipt(r) \ skipped) :
               /\ Cardinality(kept) = IF WithReceipt(r) \subseteq skipped THEN 0 ELSE 1
               /\ doomed' = [doomed EXCEPT ![r] =
                                (WithoutReceipt(r) \cup WithReceipt(r)) \ (skipped \cup kept)]
      BY <2>2 DEF Glob
    <3>1. PICK kept \in SUBSET Newest(WithReceipt(r) \ skipped) :
            /\ Cardinality(kept) = IF WithReceipt(r) \subseteq skipped THEN 0 ELSE 1
            /\ doomed' = [doomed EXCEPT ![r] =
                             (WithoutReceipt(r) \cup WithReceipt(r)) \ (skipped \cup kept)]
      BY <3>0
    <3>2. pc[r] = "glob" /\ mine[r] = current
      BY <2>2 DEF Glob, Holds
    <3>3. g \in WithReceipt(r) /\ g \notin WithoutReceipt(r)
      BY <3>2, <1>c DEF WithReceipt, WithoutReceipt, Previous
    <3>4. g \in skipped \cup kept
      <4>. SUFFICES ASSUME g \notin skipped PROVE g \in kept
        OBVIOUS
      <4>1. kept # {}
        BY <3>1, <3>3, FS_EmptySet
      <4>2. PICK k \in kept : TRUE
        BY <4>1
      <4>3. /\ k \in Gens /\ k # current /\ disk[k] \in {"received", "gutted"}
            /\ stamp[g] <= stamp[k]
        BY <3>1, <3>2, <3>3, <4>2 DEF Newest, WithReceipt
      <4>4. k \in Published
        BY <3>2, <4>3, BuildingAlone DEF Published, Unpublished
      <4>5. stamp[g] \in Nat /\ stamp[k] \in Nat
        BY <4>3, ConstantsAssumption DEF TypeOK
      <4>6. k = g
        BY <4>3, <4>4, <4>5 DEF Previous
      <4>. QED  BY <4>2, <4>6
    <3>. QED  BY <2>1, <3>1, <3>3, <3>4 DEF TypeOK
  <2>3. CASE ~Glob(r)
    <3>1. PICK h \in Gens : Remove(r, h) \/ RemoveFails(r, h)
      BY <1>2, <2>1, <2>3 DEF Refresh, Begin, Lock, Busy, MakeSnapshot, Load, OpenReceipt,
         FillReceipt, Build, StageLink, Note, Interrupt, Fail, Return, SyncFails, Undo, Erase, Undone, UndoFails,
         Kill, Leave, TypeOK, process
    <3>2. pc[r] = "prune" /\ doomed'[r] \subseteq doomed[r]
      BY <3>1 DEF Remove, RemoveFails, TypeOK
    <3>. QED  BY <2>1, <3>2 DEF Previous
  <2>. QED  BY <2>2, <2>3
<1>3. g \in Published'
  BY <1>1 DEF Published
<1>4. \A h \in Published' \ {current', g} : stamp'[h] < stamp'[g]
  BY <1>a DEF Previous
<1>. QED  BY <1>a, <1>1, <1>2, <1>3, <1>4 DEF Previous

\* A swap puts a later receipt in front, and makes what was current the previous one.
LEMMA SwapInOrder ==
    ASSUME IInv, Calm, InOrder, NEW r \in Refreshers, Swap(r)
    PROVE  Ordered' /\ \A s \in Scans : Reader(s)'
<1>. TypeOK /\ Holds(r) /\ OneAtATime /\ Ordered /\ Refresh(r) /\ CurrentMade /\ CurrentUsable
  BY DEF IInv, InOrder, Refresh
<1>1. /\ pc[r] = "swap" /\ pc'[r] = "note" /\ current' = mine[r]
      /\ mine[r] # current /\ mine[r] \in 1..made /\ mine[r] \in Gens
      /\ UNCHANGED <<clock, lock, asked, mine, doomed, made, disk, stamp, unnoted, reading>>
  <2>1. mine[r] \in 1..made /\ made \in 0..MaxGens /\ MaxGens \in Nat
    BY ConstantsAssumption DEF Swap, Holds, Critical, Steps, TypeOK
  <2>. QED  BY <2>1 DEF Swap, TypeOK, Holds, Unpublished, Gens, pruning
<1>2. /\ stamp[mine[r]] = asked[r] /\ disk[mine[r]] = "received"
      /\ \A g \in Published : stamp[g] < stamp[mine[r]]
  BY <1>1 DEF Holds, Ordered, Over
<1>3. \A g \in Gens : /\ Building(g) <=> mine[r] = g
                      /\ ~Building(g)'
  BY <1>1, BuildingAlone DEF Unpublished
<1>4. Published' = Published \cup {mine[r]}
  BY <1>1, <1>2, <1>3 DEF Published
<1>5. Ordered'
  <2>1. \A g \in Published' : g # current' => current' # None /\ stamp'[g] < stamp'[current']
    BY <1>1, <1>2, <1>4, ConstantsAssumption DEF Gens
  <2>2. \A q \in Refreshers : pc'[q] \in {"idle"} \cup Over
    BY <1>1, Alone DEF Over
  <2>. QED  BY <1>1, <2>1, <2>2 DEF Ordered
<1>6. ASSUME NEW s \in Scans PROVE Reader(s)'
  <2>. Reader(s) /\ reading[s] \in Gens \cup {None} /\ swaps[s] \in 0..2 /\ None \notin Gens
    BY ConstantsAssumption DEF InOrder, TypeOK, Gens
  <2>1. swaps'[s] = IF reading[s] = None THEN 0 ELSE IF swaps[s] < 2 THEN swaps[s] + 1 ELSE 2
    BY DEF Swap
  <2>2. CASE reading[s] = None
    BY <1>1, <2>1, <2>2 DEF Reader
  <2>3. CASE reading[s] # None /\ swaps[s] = 0
    <3>. SUFFICES ASSUME reading[s] \notin unnoted PROVE Reader(s)'
      BY <1>1, <2>1, <2>3 DEF Reader
    <3>1. reading[s] = current /\ current \in Published /\ current \in 1..made
          /\ disk[current] = "received"
      BY <1>1, <1>3, <2>3 DEF Reader, Published, CurrentMade, CurrentUsable
    <3>2. \A h \in Published' \ {current', current} : stamp'[h] < stamp'[current]
      BY <1>1, <1>4, <2>3, <3>1 DEF Ordered
    <3>3. \A q \in Refreshers : pc'[q] # "prune"
      BY <1>1, Alone
    <3>. QED  BY <1>1, <1>4, <2>1, <2>3, <3>1, <3>2, <3>3 DEF Reader, Previous
  <2>4. CASE reading[s] # None /\ swaps[s] # 0
    <3>1. swaps'[s] = 2
      BY <2>1, <2>4
    <3>. QED  BY <1>1, <2>4, <3>1 DEF Reader
  <2>. QED  BY <2>2, <2>3, <2>4
<1>. QED  BY <1>5, <1>6

LEMMA InOrderAlways == Spec => [](IInv /\ (Calm => InOrder))
<1>1. Init => (Calm => InOrder)
  BY ConstantsAssumption DEF Init, InOrder, OneAtATime, Ordered, Reader, Published
<1>2. ASSUME IInv, Calm => InOrder, [Next]_vars PROVE (Calm => InOrder)'
  <2>1. regime' = regime
    BY <1>2 DEF Next, Refresh, Begin, Lock, Busy, MakeSnapshot, Load, OpenReceipt, FillReceipt,
       Build, StageLink, Swap, Note, Interrupt, Fail, Glob, Remove, RemoveFails, Return, SyncFails, Undo, Erase, Undone, UndoFails, Kill, Leave,
       Resolve, EndScan, StepBack, vars, outside
  <2>. SUFFICES ASSUME Calm, InOrder PROVE InOrder'
    BY <1>2, <2>1 DEF Calm
  <2>. IInv /\ TypeOK /\ OneAtATime /\ Ordered /\ \A s \in Scans : Reader(s)
    BY <1>2 DEF IInv, InOrder
  <2>2. ASSUME NEW r \in Refreshers, Refresh(r) PROVE InOrder'
    <3>1. OneAtATime'
      BY <2>2, Alone DEF OneAtATime
    <3>2. CASE Swap(r)
      BY <3>1, <3>2, SwapInOrder DEF InOrder
    <3>3. CASE ~Swap(r)
      <4>1. UNCHANGED <<current, reading, swaps>> /\ unnoted \subseteq unnoted'
        BY <2>2, <3>3, CurrentStays
      <4>2. \A g \in Gens : Previous(g) => Previous(g)'
        BY <2>2, <3>3, PreviousKept
      <4>3. \A s \in Scans : Reader(s)'
        BY <4>1, <4>2 DEF Reader, TypeOK
      <4>. QED  BY <2>2, <3>1, <3>3, <4>3, OrderKept DEF InOrder
    <3>. QED  BY <3>2, <3>3
  <2>3. CASE UNCHANGED <<clock, process, directory>>
             /\ \A s \in Scans : Reader(s)'
    BY <2>3 DEF InOrder, OneAtATime, Ordered, Published, Building, process, directory, pruning
  <2>4. ASSUME NEW s \in Scans, Resolve(s) \/ EndScan(s)
        PROVE  UNCHANGED <<clock, process, directory>> /\ \A t \in Scans : Reader(t)'
    <3>1. UNCHANGED <<clock, process, directory>>
      BY <2>4 DEF Resolve, EndScan
    <3>2. \A g \in Gens : Previous(g) => Previous(g)'
      BY <3>1 DEF Previous, Published, Building, process, directory, pruning
    <3>3. ASSUME NEW t \in Scans, t # s PROVE Reader(t)'
      <4>1. reading'[t] = reading[t] /\ swaps'[t] = swaps[t]
        BY <2>4, <3>3 DEF Resolve, EndScan, TypeOK
      <4>. QED  BY <3>1, <3>2, <4>1 DEF Reader, TypeOK, directory
    <3>4. Reader(s)'
      <4>1. swaps'[s] = 0 /\ (reading'[s] # None => reading'[s] = current)
        BY <2>4 DEF Resolve, EndScan, TypeOK, Reader
      <4>. QED  BY <3>1, <4>1 DEF Reader, directory
    <3>. QED  BY <3>1, <3>3, <3>4
  <2>5. ~StepBack
    BY DEF StepBack, Calm
  <2>6. CASE UNCHANGED vars
    <3>1. \A s \in Scans : Reader(s)'
      BY <2>6 DEF Reader, Previous, Published, Building, vars
    <3>. QED  BY <2>3, <2>6, <3>1 DEF vars, process, directory, pruning
  <2>. QED  BY <1>2, <2>2, <2>3, <2>4, <2>5, <2>6 DEF Next
<1>. QED  BY InvAlways, <1>1, <1>2, PTL DEF Spec

-----------------------------------------------------------------------------
(* The results.                                                            *)

\* Every variable of a refresh keeps its type (grype_database.refresh).
THEOREM TypeCorrect == Spec => []TypeOK
<1>1. IInv => TypeOK
  BY DEF IInv
<1>. QED  BY InvAlways, <1>1, PTL

\* Whatever fails and whoever is killed, the link `current` names a generation that is
\* whole and has its receipt (refresh: the swap comes after the receipt, the prune spares
\* it), unless an interrupt fell between the swap and `published = True` (lines 59-60).
THEOREM CurrentAlwaysUsable == Spec => []CurrentUsable
<1>1. IInv => CurrentUsable
  BY DEF IInv
<1>. QED  BY InvAlways, <1>1, PTL

\* The prune of one refresh never touches the generation another one is building
\* (refresh: everything from mkdtemp to the prune is under .refresh.lock).
THEOREM BuildsUndisturbed == Spec => []BuildUndisturbed
<1>1. IInv => BuildUndisturbed
  BY DEF IInv, Holds, BuildUndisturbed
<1>. QED  BY InvAlways, <1>1, PTL

\* A refresh that returns leaves its own generation and one more, and none that earlier
\* refreshes were killed over, except what it could not read or not remove (refresh: the
\* prune takes what has no receipt and all but the newest of what has one, OSError and
\* ignore_errors aside).
THEOREM ReturnsClean == Spec => ReturnCleans
<1>1. ASSUME IInv, NEW r \in Refreshers, Swept(r), Return(r)
      PROVE  Cardinality({g \in Gens : disk'[g] # "absent"} \ spared[r]) <= 2
  <2>1. PICK k \in Gens \cup {None} : \A g \in Gens \ {mine[r], k} : g \in spared[r] \/ disk[g] = "absent"
    BY <1>1 DEF Return, Swept
  <2>. DEFINE left == {g \in Gens : disk'[g] # "absent"} \ spared[r]
  <2>2. left \subseteq {mine[r], k}
    BY <1>1, <2>1 DEF Return
  <2>. HIDE DEF left
  <2>3. IsFiniteSet({mine[r]}) /\ Cardinality({mine[r]}) = 1
    BY FS_Singleton
  <2>4. /\ IsFiniteSet({mine[r]} \cup {k})
        /\ Cardinality({mine[r]} \cup {k}) <= 2
    <3>1. Cardinality({mine[r]} \cup {k}) \in {1, 2}
      <4>1. CASE k = mine[r]
        <5>1. {mine[r]} \cup {k} = {mine[r]}
          BY <4>1
        <5>. QED  BY <2>3, <5>1
      <4>2. CASE k # mine[r]
        <5>1. Cardinality({mine[r]} \cup {k}) = 1 + 1
          BY <2>3, <4>2, FS_AddElement
        <5>. QED  BY <5>1
      <4>. QED  BY <4>1, <4>2
    <3>2. IsFiniteSet({mine[r]} \cup {k})
      BY <2>3, FS_AddElement
    <3>. QED  BY <3>1, <3>2
  <2>5. {mine[r]} \cup {k} = {mine[r], k}
    OBVIOUS
  <2>6. Cardinality(left) <= Cardinality({mine[r], k}) /\ Cardinality(left) \in Nat
        /\ Cardinality({mine[r], k}) \in Nat
    BY <2>2, <2>4, <2>5, FS_Subset, FS_CardinalityType
  <2>. QED  BY <2>4, <2>5, <2>6 DEF left
<1>2. IInv /\ (\A r \in Refreshers : Swept(r)) =>
        [\A r \in Refreshers :
           Return(r) => Cardinality({g \in Gens : disk'[g] # "absent"} \ spared[r]) <= 2]_vars
  BY <1>1
<1>. QED  BY SweptAlways, <1>2, PTL DEF ReturnCleans

\* Where refreshes do not overlap, the clock does not step back and none ends over a
\* generation that has its receipt and is not published, the generation a scan resolved
\* outlives the next swap, its own refresh not having removed it (refresh: KEEP_PREVIOUS keeps the newest of the previous ones).
THEOREM CalmReadersServed == Spec => []ReadableInCalm
<1>1. IInv /\ (Calm => InOrder) => ReadableInCalm
  <2>. SUFFICES ASSUME IInv, Calm, InOrder, NEW s \in Scans, reading[s] # None, swaps[s] <= 1,
                       reading[s] \notin unnoted
                PROVE  disk[reading[s]] = "received"
    BY DEF ReadableInCalm, ReadableAcrossOneSwap, Calm
  <2>1. swaps[s] = 0 \/ swaps[s] = 1
    BY DEF IInv, TypeOK
  <2>. QED  BY <2>1 DEF InOrder, Reader, Previous, IInv, CurrentUsable
<1>. QED  BY InOrderAlways, <1>1, PTL
=============================================================================
