--------------------------- MODULE GrypeDatabase ---------------------------
(***************************************************************************)
(* refresh (sourcebastion/grype_database.py): a source-free process builds *)
(* a new generation of the advisory database beside the published ones,    *)
(* publishes it by replacing the link `current`, and prunes older ones.    *)
(* Several refreshes may be started; a non-blocking lock lets one work.    *)
(* Any of them may fail, be interrupted or be killed between two steps,    *)
(* and rmtree removes a directory piece by piece, or not all of it. Scans  *)
(* resolve `current` once and read the generation it named until they end. *)
(***************************************************************************)
EXTENDS Integers, FiniteSets

CONSTANTS
    Refreshers,    \* processes running python -m sourcebastion.grype_database
    Scans,         \* scans reading the database
    MaxGens,       \* bound on the generations ever made
    MaxClock,      \* bound on the wall clock
    Regimes,       \* what the world may do to the refreshes, and its bounds
    None           \* no process, no generation

ASSUME ConstantsAssumption ==
    /\ MaxGens \in Nat
    /\ MaxClock \in Nat
    /\ Regimes \subseteq [atOnce : Nat,         \* refreshes at a time
                         gens : 0..MaxGens, clock : 0..MaxClock,
                         back : BOOLEAN,       \* the wall clock may be set back
                         late : BOOLEAN,       \* refreshes that end over an unpublished receipt
                         readers : BOOLEAN]    \* there are scans
    /\ None \notin Nat
    /\ None \notin Refreshers

Gens == 1..MaxGens

VARIABLES
    clock,    \* datetime.now
    lock,     \* holder of .refresh.lock
    pc,       \* per refresh: its next step
    asked,    \* per refresh: its timestamp, taken before it tries the lock
    mine,     \* per refresh: the generation it builds
    doomed,   \* per refresh: generations its prune is to remove
    spared,   \* per refresh: generations its prune could not read, or not remove
    made,     \* generations made so far; mkdtemp never reuses a name
    disk,     \* per generation: what its directory holds
    stamp,    \* per generation: refreshed_at of its receipt
    links,    \* generations a staged .current-* link names
    current,  \* the generation the link `current` names
    unnoted,  \* generations whose refresh was interrupted before `published = True`
    regime,   \* chosen once
    reading,  \* per scan: the generation it resolved
    swaps     \* per scan: swaps of `current` since it resolved

vars == <<clock, lock, pc, asked, mine, doomed, spared, made, disk, stamp, links, current,
          unnoted, regime, reading, swaps>>

pruning == <<doomed, spared>>
process == <<lock, pc, asked, mine, pruning>>
directory == <<made, disk, stamp, links, current, unnoted>>
outside == <<regime, reading, swaps>>

\* "loaded" has no receipt, "torn" one cut short; "gutted" has its receipt and no longer
\* the whole database.
Contents == {"absent", "empty", "loaded", "torn", "received", "gutted"}

Steps == {"idle", "start", "make", "load", "receipt", "fill", "stage", "swap", "note",
          "glob", "prune", "undo", "erase"}

\* The steps at which a refresh holds a generation it has not published.
Unpublished == {"load", "receipt", "fill", "stage", "swap", "undo", "erase"}

TypeOK ==
    /\ clock \in 0..MaxClock
    /\ lock \in Refreshers \cup {None}
    /\ pc \in [Refreshers -> Steps]
    /\ asked \in [Refreshers -> 0..MaxClock]
    /\ mine \in [Refreshers -> Gens \cup {None}]
    /\ doomed \in [Refreshers -> SUBSET Gens]
    /\ spared \in [Refreshers -> SUBSET Gens]
    /\ made \in 0..MaxGens
    /\ disk \in [Gens -> Contents]
    /\ stamp \in [Gens -> 0..MaxClock]
    /\ links \subseteq Gens
    /\ current \in Gens \cup {None}
    /\ unnoted \subseteq Gens
    /\ regime \in Regimes
    /\ reading \in [Scans -> Gens \cup {None}]
    /\ swaps \in [Scans -> 0..2]

Init ==
    /\ clock = 0
    /\ lock = None
    /\ pc = [r \in Refreshers |-> "idle"]
    /\ asked = [r \in Refreshers |-> 0]
    /\ mine = [r \in Refreshers |-> None]
    /\ doomed = [r \in Refreshers |-> {}]
    /\ spared = [r \in Refreshers |-> {}]
    /\ made = 0
    /\ disk = [g \in Gens |-> "absent"]
    /\ stamp = [g \in Gens |-> 0]
    /\ links = {}
    /\ current = None
    /\ unnoted = {}
    /\ regime \in Regimes
    /\ reading = [s \in Scans |-> None]
    /\ swaps = [s \in Scans |-> 0]

-----------------------------------------------------------------------------
(* Building a generation.                                                  *)

\* The timestamp comes before the lock, so it does not order the generations.
Begin(r) ==
    /\ pc[r] = "idle"
    /\ clock < regime.clock
    /\ Cardinality({q \in Refreshers : pc[q] # "idle"}) < regime.atOnce
    /\ clock' = clock + 1
    /\ asked' = [asked EXCEPT ![r] = clock']
    /\ pc' = [pc EXCEPT ![r] = "start"]
    /\ UNCHANGED <<lock, mine, pruning, directory, outside>>

\* Slip: the lock is taken without LOCK_EX.
LockShared(r) ==
    /\ pc[r] = "start"
    /\ lock' = r
    /\ pc' = [pc EXCEPT ![r] = "make"]
    /\ UNCHANGED <<clock, asked, mine, pruning, directory, outside>>

Lock(r) ==
    /\ pc[r] = "start"
    /\ lock = None
    /\ lock' = r
    /\ pc' = [pc EXCEPT ![r] = "make"]
    /\ UNCHANGED <<clock, asked, mine, pruning, directory, outside>>

Busy(r) ==
    /\ pc[r] = "start"
    /\ lock # None
    /\ pc' = [pc EXCEPT ![r] = "idle"]
    /\ asked' = [asked EXCEPT ![r] = 0]
    /\ UNCHANGED <<clock, lock, mine, pruning, directory, outside>>

MakeSnapshot(r) ==
    /\ pc[r] = "make"
    /\ made < regime.gens
    /\ made' = made + 1
    /\ mine' = [mine EXCEPT ![r] = made']
    /\ disk' = [disk EXCEPT ![made'] = "empty"]
    /\ pc' = [pc EXCEPT ![r] = "load"]
    /\ UNCHANGED <<clock, lock, asked, pruning, stamp, links, current, unnoted, outside>>

\* A step of the build on the refresh's own directory.
Build(r, from, to, content) ==
    /\ pc[r] = from
    /\ disk' = [disk EXCEPT ![mine[r]] = content]
    /\ pc' = [pc EXCEPT ![r] = to]
    /\ UNCHANGED <<clock, lock, asked, mine, pruning, made, links, current, unnoted, outside>>

\* grype db update and grype db status both succeed.
Load(r) == Build(r, "load", "receipt", "loaded") /\ UNCHANGED stamp

OpenReceipt(r) == Build(r, "receipt", "fill", "torn") /\ UNCHANGED stamp

FillReceipt(r) ==
    /\ Build(r, "fill", "stage", "received")
    /\ stamp' = [stamp EXCEPT ![mine[r]] = asked[r]]

StageLink(r) ==
    /\ pc[r] = "stage"
    /\ links' = links \cup {mine[r]}
    /\ pc' = [pc EXCEPT ![r] = "swap"]
    /\ UNCHANGED <<clock, lock, asked, mine, pruning, made, disk, stamp, current, unnoted, outside>>

\* os.replace of the staged link over `current`.
Swap(r) ==
    /\ pc[r] = "swap"
    /\ current' = mine[r]
    /\ links' = links \ {mine[r]}
    /\ swaps' = [s \in Scans |-> IF reading[s] = None THEN 0
                                 ELSE IF swaps[s] < 2 THEN swaps[s] + 1 ELSE 2]
    /\ pc' = [pc EXCEPT ![r] = "note"]
    /\ UNCHANGED <<clock, lock, asked, mine, pruning, made, disk, stamp, unnoted, regime, reading>>

\* published = True.
Note(r) ==
    /\ pc[r] = "note"
    /\ pc' = [pc EXCEPT ![r] = "glob"]
    /\ UNCHANGED <<clock, lock, asked, mine, pruning, directory, outside>>

\* A KeyboardInterrupt between the two: the finally clause takes the generation `current`
\* already names for one that was not published.
Interrupt(r) ==
    /\ pc[r] = "note"
    /\ unnoted' = unnoted \cup {mine[r]}
    /\ pc' = [pc EXCEPT ![r] = "undo"]
    /\ UNCHANGED <<clock, lock, asked, mine, pruning, made, disk, stamp, links, current, outside>>

\* A command, a write or a link fails before the swap, or is interrupted.
Fail(r) ==
    /\ pc[r] \in {"load", "receipt", "fill", "stage", "swap"}
    /\ pc' = [pc EXCEPT ![r] = "undo"]
    /\ UNCHANGED <<clock, lock, asked, mine, pruning, directory, outside>>

-----------------------------------------------------------------------------
(* Pruning, and leaving.                                                   *)

\* Slip: the new generation competes with the older ones for its place.
WithReceiptOwnToo(r) == {g \in Gens : disk[g] \in {"received", "gutted"}}

WithReceipt(r) == {g \in Gens \ {mine[r]} : disk[g] \in {"received", "gutted"}}

\* Slip: only empty directories count as left behind.
WithoutReceiptEmptyOnly(r) == {g \in Gens \ {mine[r]} : disk[g] = "empty"}

WithoutReceipt(r) == {g \in Gens \ {mine[r]} : disk[g] \in {"empty", "loaded"}}

\* Slip: sorted without reverse, the oldest comes first.
NewestReversed(S) == {g \in S : \A h \in S : stamp[g] <= stamp[h]}

\* previous[:KEEP_PREVIOUS] after the sort on refreshed_at, newest first.
Newest(S) == {g \in S : \A h \in S : stamp[h] <= stamp[g]}

Others(r) == {g \in Gens \ {mine[r]} : disk[g] # "absent"}

\* What cannot be read survives, and so does what has a torn receipt, which is neither
\* missing nor readable.
Glob(r) ==
    /\ pc[r] = "glob"
    /\ \E skipped \in SUBSET Others(r) :
         /\ {g \in Others(r) : disk[g] = "torn"} \subseteq skipped
         /\ \E kept \in SUBSET Newest(WithReceipt(r) \ skipped) :
              /\ Cardinality(kept) = IF WithReceipt(r) \subseteq skipped THEN 0 ELSE 1
              /\ doomed' = [doomed EXCEPT ![r] =
                               (WithoutReceipt(r) \cup WithReceipt(r)) \ (skipped \cup kept)]
         /\ spared' = [spared EXCEPT ![r] = skipped]
    /\ pc' = [pc EXCEPT ![r] = "prune"]
    /\ UNCHANGED <<clock, lock, asked, mine, directory, outside>>

\* What is left of a directory when rmtree has removed more of it, in the order the
\* directory lists its files: the receipt may go first, or last.
Less(content) ==
    CASE content = "received" -> {"gutted", "loaded"}
      [] content \in {"gutted", "torn"} -> {"loaded", "absent"}
      [] OTHER -> {"absent"}

Remove(r, g) ==
    /\ pc[r] = "prune"
    /\ g \in doomed[r]
    /\ \E rest \in Less(disk[g]) :
         /\ disk' = [disk EXCEPT ![g] = rest]
         /\ doomed' = [doomed EXCEPT ![r] = IF rest = "absent" THEN @ \ {g} ELSE @]
    /\ UNCHANGED <<clock, lock, pc, asked, mine, spared, made, stamp, links, current, unnoted, outside>>

\* ignore_errors = True: what cannot be removed stays, as far as the removal got.
RemoveFails(r, g) ==
    /\ pc[r] = "prune"
    /\ g \in doomed[r]
    /\ doomed' = [doomed EXCEPT ![r] = @ \ {g}]
    /\ spared' = [spared EXCEPT ![r] = @ \cup {g}]
    /\ UNCHANGED <<clock, lock, pc, asked, mine, directory, outside>>

\* The process ends: the kernel releases its lock.
Leave(r) ==
    /\ pc' = [pc EXCEPT ![r] = "idle"]
    /\ mine' = [mine EXCEPT ![r] = None]
    /\ doomed' = [doomed EXCEPT ![r] = {}]
    /\ spared' = [spared EXCEPT ![r] = {}]
    /\ asked' = [asked EXCEPT ![r] = 0]
    /\ lock' = IF lock = r THEN None ELSE lock
    /\ UNCHANGED <<clock, made, stamp, current, unnoted, outside>>

\* After the prune the staged links other refreshes left behind go too.
Return(r) ==
    /\ pc[r] = "prune"
    /\ doomed[r] = {}
    /\ links' = {}
    /\ Leave(r)
    /\ UNCHANGED disk

\* os.fsync of the directory fails: published, but nothing is pruned.
SyncFails(r) ==
    /\ pc[r] = "glob"
    /\ Leave(r)
    /\ UNCHANGED <<disk, links>>

\* The finally clause of a refresh that has not noted a publication: the link, then the
\* directory.
Undo(r) ==
    /\ pc[r] = "undo"
    /\ links' = links \ {mine[r]}
    /\ pc' = [pc EXCEPT ![r] = "erase"]
    /\ UNCHANGED <<clock, lock, asked, mine, pruning, made, disk, stamp, current, unnoted, outside>>

Erase(r) ==
    /\ pc[r] = "erase"
    /\ disk[mine[r]] # "absent"
    /\ \E rest \in Less(disk[mine[r]]) : disk' = [disk EXCEPT ![mine[r]] = rest]
    /\ UNCHANGED <<clock, process, made, stamp, links, current, unnoted, outside>>

Undone(r) ==
    /\ pc[r] = "erase"
    /\ disk[mine[r]] = "absent"
    /\ Leave(r)
    /\ UNCHANGED <<disk, links>>

\* Ending over a generation that has its receipt and is not published: only where the
\* regime says so.
MayEnd(r) == pc[r] \in Unpublished /\ disk[mine[r]] \in {"received", "gutted"} => regime.late

\* The unlink or the rmtree of the finally clause raises, or is interrupted.
UndoFails(r) ==
    /\ pc[r] \in {"undo", "erase"}
    /\ MayEnd(r)
    /\ Leave(r)
    /\ UNCHANGED <<disk, links>>

\* After the publication an interrupt ends a refresh as a kill does: nothing is undone.
Kill(r) ==
    /\ pc[r] # "idle"
    /\ MayEnd(r)
    /\ Leave(r)
    /\ UNCHANGED <<disk, links>>

-----------------------------------------------------------------------------
(* The scans, and the clock.                                               *)

Resolve(s) ==
    /\ regime.readers
    /\ reading[s] = None
    /\ current # None
    /\ disk[current] # "absent"
    /\ reading' = [reading EXCEPT ![s] = current]
    /\ UNCHANGED <<clock, process, directory, regime, swaps>>

EndScan(s) ==
    /\ reading[s] # None
    /\ reading' = [reading EXCEPT ![s] = None]
    /\ swaps' = [swaps EXCEPT ![s] = 0]
    /\ UNCHANGED <<clock, process, directory, regime>>

StepBack ==
    /\ regime.back
    /\ clock > 0
    /\ clock' = clock - 1
    /\ UNCHANGED <<process, directory, outside>>

Refresh(r) ==
    \/ Begin(r) \/ Lock(r) \/ Busy(r) \/ MakeSnapshot(r) \/ Load(r)
    \/ OpenReceipt(r) \/ FillReceipt(r) \/ StageLink(r) \/ Swap(r) \/ Note(r)
    \/ Interrupt(r) \/ Fail(r)
    \/ Glob(r) \/ (\E g \in Gens : Remove(r, g) \/ RemoveFails(r, g))
    \/ Return(r) \/ SyncFails(r) \/ Undo(r) \/ Erase(r) \/ Undone(r) \/ UndoFails(r) \/ Kill(r)

Next ==
    \/ \E r \in Refreshers : Refresh(r)
    \/ \E s \in Scans : Resolve(s) \/ EndScan(s)
    \/ StepBack

Spec == Init /\ [][Next]_vars

-----------------------------------------------------------------------------
(* Properties.                                                             *)

\* At every moment, kills, failed removals and concurrent refreshes included, `current`
\* names a generation that is whole on disk and has its receipt, unless its refresh was
\* interrupted after the swap and before it noted it (grype_database.py:59-60): the
\* finally clause removes such a generation under the link.
CurrentUsable == current # None /\ current \notin unnoted => disk[current] = "received"

\* A refresh never finds the directory it is building removed or changed by the
\* prune of another one.
BuildUndisturbed ==
    \A r \in Refreshers :
        /\ pc[r] \in {"stage", "swap"} => disk[mine[r]] = "received" /\ stamp[mine[r]] = asked[r]
        /\ pc[r] = "load" => disk[mine[r]] = "empty"
        /\ pc[r] = "receipt" => disk[mine[r]] = "loaded"
        /\ pc[r] = "fill" => disk[mine[r]] = "torn"

\* "Keep the new generation and the newest previous one: a scan that resolved
\* `current` before this swap may still read it": the generation a scan resolved
\* stays whole across one swap (grype_database.py:66-67), its own refresh not having
\* removed it.
ReadableAcrossOneSwap ==
    \A s \in Scans :
        reading[s] # None /\ reading[s] \notin unnoted /\ swaps[s] <= 1 =>
            disk[reading[s]] = "received"

\* The same, where refreshes do not overlap, the clock does not step back and none ends
\* over a generation that has its receipt and is not published.
ReadableInCalm ==
    regime.atOnce = 1 /\ ~regime.back /\ ~regime.late => ReadableAcrossOneSwap

\* A refresh that returns has removed whatever earlier refreshes left behind: beside what
\* it could not read or not remove, only its own generation and one more are on disk.
ReturnCleans ==
    [][\A r \in Refreshers :
         Return(r) => Cardinality({g \in Gens : disk'[g] # "absent"} \ spared[r]) <= 2]_vars
=============================================================================
