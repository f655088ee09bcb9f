-------------------------- MODULE CompositionProofs --------------------------
(***************************************************************************)
(* What composition makes of the requirements of a tree, for every tree:   *)
(* a selected version is a pin that everything that bears on it admits,    *)
(* and a complete inventory has left nothing out. The walks of discovery   *)
(* are the reason: where nothing was reported, a walk has met what the     *)
(* text of the tree leads to, no more and no less, and no cycle.           *)
(* Then what the licence policy makes of the composed inventory: a verdict *)
(* is that of the choices an expression offers, for every expression and   *)
(* policy, whatever the parser's recursion made of it.                     *)
(***************************************************************************)
EXTENDS InventoryComposition, InventoryProofs, LicensePolicy

-----------------------------------------------------------------------------
(* The walks of discovery.                                                 *)

Spots == Paths \X Roles

SeedRole(o) == IF tree[o].kind = "constraints" THEN "constraint" ELSE "requirement"

\* Where the i-th reference of a spot leads, by the text of the tree.
LeadsTo(s, i) ==
    <<tree[s[1]].refs[i].target,
      IF s[2] = "constraint" \/ tree[s[1]].refs[i].kind = "constraint" THEN "constraint" ELSE "requirement">>

Refs(s) == DOMAIN tree[s[1]].refs

\* What the walk of an origin has met, and what of it is done with.
Walked(o) == {s \in Spots : <<o, s[1], s[2]>> \in contexts}
Spot(k) == <<stack[k].path, stack[k].role>>
OnStack(o) == {Spot(k) : k \in {j \in DOMAIN stack : stack[1].path = o}}
WalkedOut(o) == Walked(o) \ OnStack(o)

\* What a record v of a file says of it.
Fits(p, v) ==
    /\ v = "parsed" => tree[p].kind \notin {"absent", "unreadable", "ignored", "foreign"} /\ ~tree[p].bad
    /\ v = "set-aside" => tree[p].refs = <<>> /\ tree[p].kind \notin {"requirements", "foreign"}
    /\ v = "ignored" => tree[p].kind = "ignored"
    /\ tree[p].kind = "ignored" => v \in {"none", "ignored"}
    /\ tree[p].kind = "unreadable" => v \in {"none", "failed"}

Dispositions == {"none", "parsed", "ignored", "unsupported", "failed", "omitted", "set-aside"}

Read(p) == tree[p].kind \in {"requirements", "unreadable"} => record[p] # "none"

RecordInv ==
    /\ tree \in Trees
    /\ record \in [Paths -> Dispositions] /\ pending \subseteq Paths
    /\ \A p \in Paths : Fits(p, record[p])
    /\ stage = "list" => \A p \in Paths : IF p \in pending THEN record[p] = "none" ELSE Read(p)
    /\ stage # "list" /\ ~cut => \A p \in Paths : Read(p)

\* Every walk has met nothing but what it leads to.
Generated(o) ==
    \A Q \in SUBSET Spots :
        /\ <<o, SeedRole(o)>> \in Q
        /\ \A s \in Q \cap Walked(o) : \A i \in Refs(s) : LeadsTo(s, i) \in Walked(o) => LeadsTo(s, i) \in Q
        => Walked(o) \subseteq Q

ContextsInv ==
    /\ contexts \subseteq Paths \X Paths \X Roles
    /\ \A o \in Paths : \A s \in Walked(o) : s[1] \in Documents /\ <<o, SeedRole(o)>> \in Walked(o)
    /\ \A o \in Paths : Generated(o)

Frames == [path : Paths, role : Roles, next : Nat \ {0}]

StackInv ==
    /\ stack \in Seq(Frames)
    /\ stage # "follow" => stack = <<>>
    /\ stack # <<>> => Origin \notin pending
    /\ \A k \in DOMAIN stack : Spot(k) \in Walked(Origin)
    /\ \A j, k \in DOMAIN stack : stack[j].path = stack[k].path => j = k

\* Every document is the seed of a walk or was met by one.
SeedsInv ==
    /\ stage = "list" => ~cut
    /\ stage = "list" \/ cut => contexts = {} /\ references = {}
    /\ stage = "follow" => /\ ~cut /\ pending \subseteq Documents
                           /\ \A o \in pending : Walked(o) = {}
                           /\ \A p \in Documents \ pending : \E o \in Paths : p \in {s[1] : s \in Walked(o)}
    /\ stage \in {"compose", "done"} /\ ~cut =>
         \A p \in Documents : \E o \in Paths : p \in {s[1] : s \in Walked(o)}

\* A reference the walk noted is one of the text.
NotedInv ==
    \A r \in references :
        /\ \E s \in Walked(r.origin) : s[1] = r.source /\ \E i \in Refs(s) : LeadsTo(s, i)[1] = r.target
        /\ r.disposition = "ignored" => tree[r.target].kind = "ignored"

Clean(o) == \A r \in references : r.origin = o => r.disposition \in {"parsed", "ignored"}

Met(o, s, i) ==
    \/ LeadsTo(s, i) \in WalkedOut(o)
    \/ tree[LeadsTo(s, i)[1]].kind = "ignored" /\ \E r \in references : r.origin = o /\ r.disposition = "ignored"

LeftWhole(o) == \A s \in WalkedOut(o) : \A i \in Refs(s) : Met(o, s, i)

NoTrap(o) ==
    \A S \in SUBSET WalkedOut(o) : S # {} => \E s \in S : \A i \in Refs(s) : LeadsTo(s, i) \notin S

InHand(o) ==
    \A k \in DOMAIN stack : stack[1].path = o =>
        \A i \in 1..stack[k].next - 1 :
            Met(o, Spot(k), i) \/ (k < Len(stack) /\ LeadsTo(Spot(k), i) = Spot(k + 1))

\* A walk that has reported nothing but ignored files met no cycle, and left nothing out.
CleanInv == \A o \in Paths : Clean(o) => LeftWhole(o) /\ NoTrap(o) /\ InHand(o)

WalkInv == RecordInv /\ ContextsInv /\ StackInv /\ SeedsInv /\ NotedInv /\ CleanInv

-----------------------------------------------------------------------------
(* Its origins.                                                            *)

\* An origin that is composed: unless composition reports it, it is decided and has all its
\* requirements.
Composed(o) ==
    /\ Undecided(o) => refused
    /\ \A d \in Declarations(o, "requirement") :
         \E x \in occurrences : x.path = d.path /\ x.line = d.line

Covers(o) ==
    {v[1] : v \in Visited(o)} \cup {r.target : r \in {x \in references : x.origin = o}}

ComposeInv ==
    /\ stage \in {"list", "follow", "compose", "done"}
    /\ stage \in {"list", "follow"} => occurrences = {} /\ claimed = {}
    /\ stage \in {"list", "follow", "compose"} => inventory = "none"
    /\ stage = "compose" => pending \subseteq Origins
    /\ stage = "done" => pending = {} /\ (inventory = "complete" => Whole)
    /\ stage \in {"compose", "done"} =>
         /\ \A o \in Origins \ pending : o \in claimed \/ Composed(o)
         /\ claimed \subseteq UNION {Covers(o) : o \in {x \in Origins \ pending : Composed(x)}}
    /\ SelectionsJustified

CompositionInv == (stage = "done" /\ inventory = "failed" /\ occurrences = {}) \/ (WalkInv /\ ComposeInv)

-----------------------------------------------------------------------------
(* Facts about the operators.                                              *)

LEMMA MinOf ==
    ASSUME NEW S, S \subseteq Nat, S # {}
    PROVE  Min(S) \in S /\ \A y \in S : Min(S) <= y
<1>1. \E x \in S : \A y \in S : x <= y
  BY Least
<1>. QED  BY <1>1 DEF Min

LEMMA TreeTyped ==
    ASSUME NEW t \in Trees, NEW p \in Paths
    PROVE  /\ t[p].refs \in Seq(Reference) /\ Len(t[p].refs) \in Nat /\ DOMAIN t[p].refs = 1..Len(t[p].refs)
           /\ \A i \in DOMAIN t[p].refs : t[p].refs[i].target \in {0} \cup Paths
           /\ \A l \in t[p].lines : l.exact \in Nat
           /\ \A l \in t[p].lines : l.exact # 0 => l.exact \in l.range
<1>1. t[p].refs \in Seq(Reference)
  BY CompositionAssumption
<1>2. \A i \in DOMAIN t[p].refs : t[p].refs[i] \in Reference
  BY <1>1
<1>3. \A r \in Reference : r.target \in {0} \cup Paths
  BY DEF Reference
<1>4. t[p].lines \subseteq Requirement
  BY CompositionAssumption
<1>5. \A l \in Requirement : l.exact \in {0} \cup Versions
  BY DEF Requirement
<1>6. Len(t[p].refs) \in Nat /\ DOMAIN t[p].refs = 1..Len(t[p].refs)
  BY <1>1
<1>7. \A l \in t[p].lines : l.exact \in Nat
  <2>. TAKE l \in t[p].lines
  <2>1. l.exact \in {0} \cup Versions
    BY <1>4, <1>5
  <2>2. \A v \in {0} \cup Versions : v \in Nat
    BY CompositionAssumption
  <2>. QED  BY <2>1, <2>2
<1>8. \A l \in t[p].lines : l.exact # 0 => l.exact \in l.range
  BY CompositionAssumption
<1>9. \A i \in DOMAIN t[p].refs : t[p].refs[i].target \in {0} \cup Paths
  BY <1>2, <1>3
<1>. QED  BY <1>1, <1>6, <1>7, <1>8, <1>9

\* A path is no 0, and the numbers of paths can be compared.
LEMMA PathsAreNumbers ==
    /\ Paths \subseteq Nat /\ 0 \notin Paths /\ IsFiniteSet(Paths)
BY CompositionAssumption

LEMMA DocumentRefs ==
    ASSUME RecordInv, NEW p \in Documents
    PROVE  /\ p \in Paths /\ References(record, p) = tree[p].refs
           /\ tree[p].kind \notin {"ignored", "absent", "unreadable"}
<1>1. p \in Paths /\ Fits(p, record[p]) /\ HasDocument(record, p)
  BY DEF RecordInv, Documents
<1>. QED  BY <1>1 DEF Fits, HasDocument, References

LEMMA LoadedFits ==
    ASSUME RecordInv, NEW p \in Paths, NEW explicit \in BOOLEAN
    PROVE  /\ Loaded(p, explicit) \in Dispositions \ {"none"} /\ Fits(p, Loaded(p, explicit))
           /\ record[p] \in {"parsed", "failed"} => Loaded(p, explicit) = record[p]
           /\ record[p] = "set-aside" => Loaded(p, explicit) \in {"parsed", "failed", "set-aside"}
           /\ Loaded(p, explicit) = "parsed" => tree[p].kind \notin {"absent", "unreadable"}
<1>1. Fits(p, record[p]) /\ record[p] \in Dispositions
  BY DEF RecordInv
<1>2. /\ Parsed(p, explicit) \in {"set-aside", "failed", "parsed"}
      /\ Parsed(p, explicit) = "set-aside" => tree[p].refs = <<>> /\ tree[p].kind # "requirements"
      /\ Parsed(p, explicit) = "parsed" => ~tree[p].bad
  BY DEF Parsed
<1>3. CASE record[p] # "none" /\ ~(explicit /\ record[p] = "set-aside")
  <2>1. Loaded(p, explicit) = record[p]
    BY <1>1, <1>3 DEF Loaded, Fits
  <2>2. Fits(p, Loaded(p, explicit)) /\ Loaded(p, explicit) \in Dispositions /\ Loaded(p, explicit) # "none"
    BY <1>1, <1>3, <2>1
  <2>3. Loaded(p, explicit) = "parsed" => tree[p].kind \notin {"absent", "unreadable"}
    BY <2>2 DEF Fits
  <2>. QED  BY <1>3, <2>1, <2>2, <2>3
<1>4. CASE ~(record[p] # "none" /\ ~(explicit /\ record[p] = "set-aside"))
  <2>1. record[p] \in {"none", "set-aside"}
    BY <1>4
  <2>2. CASE tree[p].kind = "ignored"
    <3>1. Loaded(p, explicit) = "ignored"
      BY <1>4, <2>2 DEF Loaded
    <3>. QED  BY <1>1, <2>1, <2>2, <3>1 DEF Fits, Dispositions
  <2>3. CASE tree[p].kind \in {"absent", "unreadable"}
    <3>1. Loaded(p, explicit) = "failed"
      BY <1>4, <2>3 DEF Loaded
    <3>. QED  BY <1>1, <2>1, <2>3, <3>1 DEF Fits, Dispositions
  <2>4. CASE tree[p].kind = "foreign"
    <3>1. Loaded(p, explicit) = "unsupported"
      BY <1>4, <2>4 DEF Loaded
    <3>2. record[p] = "none"
      BY <1>1, <2>1, <2>4 DEF Fits
    <3>. QED  BY <2>4, <3>1, <3>2 DEF Fits, Dispositions
  <2>5. CASE tree[p].kind \notin {"ignored", "absent", "unreadable", "foreign"}
    <3>1. Loaded(p, explicit) = Parsed(p, explicit)
      BY <1>4, <2>5 DEF Loaded
    <3>. QED  BY <1>2, <2>1, <2>5, <3>1 DEF Fits, Dispositions
  <2>. QED  BY <2>2, <2>3, <2>4, <2>5
<1>. QED  BY <1>3, <1>4

-----------------------------------------------------------------------------
(* The walks keep their invariant.                                         *)

LEMMA SpotsKept ==
    ASSUME tree' = tree
    PROVE  /\ \A s : Refs(s)' = Refs(s)
           /\ \A s, i : LeadsTo(s, i)' = LeadsTo(s, i)
           /\ \A o : SeedRole(o)' = SeedRole(o)
BY DEF Refs, LeadsTo, SeedRole

\* What is walked out stays whole and without a cycle while references are noted.
LEMMA LeftKept ==
    ASSUME CleanInv, tree' = tree, references \subseteq references',
           NEW o \in Paths, WalkedOut(o)' = WalkedOut(o), Clean(o)'
    PROVE  /\ Clean(o) /\ LeftWhole(o)' /\ NoTrap(o)'
           /\ \A s, i : Met(o, s, i) => Met(o, s, i)'
<1>1. Clean(o)
  BY DEF Clean
<1>2. LeftWhole(o) /\ NoTrap(o)
  BY <1>1 DEF CleanInv
<1>3. ASSUME NEW s, NEW i, Met(o, s, i) PROVE Met(o, s, i)'
  BY <1>3, SpotsKept DEF Met
<1>4. LeftWhole(o)'
  BY <1>2, <1>3, SpotsKept DEF LeftWhole
<1>5. NoTrap(o)'
  <2>. SUFFICES ASSUME NEW S \in SUBSET WalkedOut(o), S # {}
                PROVE  \E s \in S : \A i \in Refs(s)' : LeadsTo(s, i)' \notin S
    BY DEF NoTrap
  <2>1. PICK s \in S : \A i \in Refs(s) : LeadsTo(s, i) \notin S
    BY <1>2 DEF NoTrap
  <2>. QED  BY <2>1, SpotsKept
<1>. QED  BY <1>1, <1>3, <1>4, <1>5

LEMMA WalkKept ==
    ASSUME WalkInv, UNCHANGED <<tree, record, contexts, references, stack>>
    PROVE  ContextsInv' /\ NotedInv' /\ CleanInv'
<1>1. tree' = tree /\ record' = record /\ contexts' = contexts /\ references' = references /\ stack' = stack
  OBVIOUS
<1>2. \A o : /\ Walked(o)' = Walked(o) /\ OnStack(o)' = OnStack(o) /\ WalkedOut(o)' = WalkedOut(o)
             /\ (Clean(o)' <=> Clean(o))
  BY <1>1 DEF Walked, OnStack, WalkedOut, Spot, Clean
<1>3. Documents' = Documents /\ \A k : Spot(k)' = Spot(k)
  BY <1>1 DEF Documents, HasDocument, Spot
<1>4. \A o, s, i : (Met(o, s, i)' <=> Met(o, s, i))
  BY <1>1, <1>2, SpotsKept DEF Met
<1>5. ContextsInv'
  <2>1. \A o : (Generated(o)' <=> Generated(o))
    BY <1>1, <1>2, SpotsKept DEF Generated
  <2>. QED  BY <1>1, <1>2, <1>3, <2>1, SpotsKept DEF WalkInv, ContextsInv
<1>6. NotedInv'
  BY <1>1, <1>2, SpotsKept DEF WalkInv, NotedInv
<1>7. CleanInv'
  <2>. SUFFICES ASSUME NEW o \in Paths, Clean(o)' PROVE LeftWhole(o)' /\ NoTrap(o)' /\ InHand(o)'
    BY DEF CleanInv
  <2>1. LeftWhole(o) /\ NoTrap(o) /\ InHand(o)
    BY <1>2 DEF WalkInv, CleanInv
  <2>2. LeftWhole(o)' /\ NoTrap(o)'
    BY <1>1, <1>2, <1>4, <2>1, LeftKept DEF WalkInv
  <2>3. \A k, i : (Met(o, Spot(k), i)' <=> Met(o, Spot(k), i)) /\ LeadsTo(Spot(k), i)' = LeadsTo(Spot(k), i)
    <3>. TAKE k, i
    <3>. PICK s : s = Spot(k)
      OBVIOUS
    <3>1. Spot(k)' = s
      BY <1>3
    <3>2. (Met(o, Spot(k), i)' <=> Met(o, s, i)') /\ LeadsTo(Spot(k), i)' = LeadsTo(s, i)
      BY <1>1, <3>1 DEF Met, LeadsTo
    <3>. QED  BY <1>4, <3>2
  <2>. QED  BY <1>1, <1>3, <2>1, <2>2, <2>3 DEF InHand
<1>. QED  BY <1>5, <1>6, <1>7

LEMMA ReadNextWalk ==
    ASSUME WalkInv, ReadNext
    PROVE  WalkInv'
<1>. USE DEF WalkInv
<1>1. /\ stage = "list" /\ stage' = "list" /\ pending # {} /\ tree' = tree /\ stack' = stack /\ cut' = cut
      /\ contexts' = contexts /\ references' = references
  BY DEF ReadNext
<1>2. PICK p, v :
        /\ p \in pending
        /\ v = Loaded(p, FALSE) \/ (v = "none" /\ tree[p].kind = "unlisted")
        /\ pending' = pending \ {p} /\ record' = [record EXCEPT ![p] = v]
  <2>. DEFINE q == Min(pending)
  <2>1. q \in pending
    BY <1>1, MinOf, PathsAreNumbers DEF RecordInv
  <2>2. /\ pending' = pending \ {q}
        /\ record' = [record EXCEPT ![q] = IF tree[q].kind = "unlisted" THEN "none" ELSE Loaded(q, FALSE)]
    BY DEF ReadNext
  <2>. HIDE DEF q
  <2>. QED  BY <2>1, <2>2
<1>3. /\ contexts = {} /\ references = {} /\ stack = <<>> /\ p \in Paths
  BY <1>1, <1>2 DEF SeedsInv, StackInv, RecordInv
<1>4. v \in Dispositions /\ Fits(p, v) /\ Read(p)'
  <2>1. /\ Loaded(p, FALSE) \in Dispositions \ {"none"} /\ Fits(p, Loaded(p, FALSE))
    BY <1>3, LoadedFits
  <2>2. "none" \in Dispositions /\ Fits(p, "none")
    BY DEF Dispositions, Fits
  <2>3. record'[p] = v
    BY <1>2, <1>3 DEF RecordInv
  <2>. QED  BY <1>1, <1>2, <2>1, <2>2, <2>3 DEF Read
<1>5. RecordInv'
  <2>1. record' \in [Paths -> Dispositions] /\ record'[p] = v /\ \A q \in Paths \ {p} : record'[q] = record[q]
    BY <1>2, <1>3, <1>4 DEF RecordInv
  <2>2. \A q \in Paths : Fits(q, record[q])'
    BY <1>1, <1>4, <2>1 DEF RecordInv, Fits
  <2>3. \A q \in Paths \ {p} : (Read(q)' <=> Read(q))
    BY <1>1, <2>1 DEF Read
  <2>4. ASSUME NEW q \in Paths PROVE IF q \in pending' THEN record'[q] = "none" ELSE Read(q)'
    <3>1. IF q \in pending THEN record[q] = "none" ELSE Read(q)
      BY <1>1 DEF RecordInv
    <3>. QED  BY <1>1, <1>2, <1>3, <1>4, <2>1, <2>3, <3>1
  <2>. QED  BY <1>1, <1>2, <2>1, <2>2, <2>4 DEF RecordInv
<1>6. \A o : Walked(o)' = {} /\ WalkedOut(o)' = {}
  BY <1>1, <1>3 DEF Walked, WalkedOut
<1>7. ContextsInv'
  BY <1>1, <1>3, <1>6 DEF ContextsInv, Generated
<1>8. StackInv' /\ SeedsInv' /\ NotedInv'
  BY <1>1, <1>3 DEF StackInv, SeedsInv, NotedInv
<1>9. CleanInv'
  BY <1>1, <1>3, <1>6 DEF CleanInv, LeftWhole, NoTrap, InHand
<1>. QED  BY <1>5, <1>7, <1>8, <1>9

LEMMA BeginWalksWalk ==
    ASSUME WalkInv, BeginWalks
    PROVE  WalkInv'
<1>1. /\ stage = "list" /\ stage' = "follow" /\ pending = {} /\ pending' = Documents /\ tree' = tree
      /\ record' = record /\ cut' = cut
      /\ stack' = stack /\ contexts' = contexts /\ references' = references
  BY DEF BeginWalks, Documents
<1>2. contexts = {} /\ stack = <<>> /\ Documents' = Documents /\ Documents \subseteq Paths
  BY <1>1 DEF WalkInv, SeedsInv, StackInv, Documents, HasDocument
<1>3. ContextsInv' /\ NotedInv' /\ CleanInv'
  BY <1>1, WalkKept
<1>4. RecordInv'
  BY <1>1, <1>2 DEF WalkInv, RecordInv, Fits, Read
<1>5. StackInv'
  BY <1>1, <1>2 DEF WalkInv, StackInv
<1>6. SeedsInv'
  BY <1>1, <1>2 DEF WalkInv, SeedsInv, Walked
<1>. QED  BY <1>3, <1>4, <1>5, <1>6 DEF WalkInv

LEMMA FrontOfStack ==
    ASSUME StackInv, stack # <<>>
    PROVE  /\ Len(stack) \in Nat \ {0} /\ DOMAIN stack = 1..Len(stack) /\ Origin \in Paths
           /\ \A k \in 1..Len(stack) : stack[k] \in Frames /\ Spot(k) \in Walked(Origin)
           /\ Front(stack) \in Seq(Frames) /\ Len(Front(stack)) = Len(stack) - 1
           /\ \A k \in 1..Len(stack) - 1 : Front(stack)[k] = stack[k]
<1>1. Len(stack) \in Nat \ {0} /\ DOMAIN stack = 1..Len(stack) /\ stack \in Seq(Frames)
  BY DEF StackInv
<1>2. \A k \in 1..Len(stack) : stack[k] \in Frames /\ Spot(k) \in Walked(Origin)
  BY <1>1 DEF StackInv
<1>3. Origin \in Paths
  BY <1>1, <1>2 DEF Origin, Frames
<1>4. /\ Front(stack) \in Seq(Frames) /\ Len(Front(stack)) = Len(stack) - 1
      /\ \A k \in 1..Len(stack) - 1 : Front(stack)[k] = stack[k]
  BY <1>1 DEF Front
<1>. QED  BY <1>1, <1>2, <1>3, <1>4

LEMMA AdvancedStack ==
    ASSUME StackInv, stack # <<>>
    PROVE  /\ Advanced \in Seq(Frames) /\ Len(Advanced) = Len(stack)
           /\ \A k \in 1..Len(stack) : /\ Advanced[k].path = stack[k].path /\ Advanced[k].role = stack[k].role
                                       /\ Advanced[k].next = stack[k].next + (IF k = Len(stack) THEN 1 ELSE 0)
<1>. DEFINE n == Len(stack)
            f == [stack[n] EXCEPT !.next = stack[n].next + 1]
<1>1. n \in Nat \ {0} /\ stack \in Seq(Frames) /\ DOMAIN stack = 1..n /\ \A k \in 1..n : stack[k] \in Frames
  BY FrontOfStack DEF StackInv
<1>2. Advanced = [stack EXCEPT ![n] = f]
  BY DEF Advanced
<1>3. f \in Frames /\ f.path = stack[n].path /\ f.role = stack[n].role /\ f.next = stack[n].next + 1
  BY <1>1 DEF Frames
<1>. HIDE DEF f
<1>4. Advanced \in Seq(Frames) /\ Len(Advanced) = n
  BY <1>1, <1>2, <1>3
<1>5. \A k \in 1..n : Advanced[k] = IF k = n THEN f ELSE stack[k]
  BY <1>1, <1>2
<1>6. \A k \in 1..n : stack[k].next + 0 = stack[k].next
  BY <1>1 DEF Frames
<1>. QED  BY <1>3, <1>4, <1>5, <1>6

LEMMA WalkedGrows ==
    ASSUME NEW o \in Paths, NEW t \in Paths, NEW r \in Roles, contexts' = contexts \cup {<<o, t, r>>}
    PROVE  Walked(o)' = Walked(o) \cup {<<t, r>>} /\ \A q : q # o => Walked(q)' = Walked(q)
<1>1. \A s \in Spots : s = <<s[1], s[2]>> /\ s[1] \in Paths /\ s[2] \in Roles
  BY DEF Spots
<1>2. <<t, r>> \in Spots
  BY DEF Spots
<1>3. \A q : \A s \in Spots : <<q, s[1], s[2]>> = <<o, t, r>> <=> q = o /\ s = <<t, r>>
  BY <1>1
<1>4. \A q : \A s \in Spots : s \in Walked(q)' <=> s \in Walked(q) \/ (q = o /\ s = <<t, r>>)
  BY <1>3 DEF Walked
<1>5. \A q : Walked(q) \subseteq Spots /\ Walked(q)' \subseteq Spots
  BY DEF Walked
<1>. QED  BY <1>2, <1>4, <1>5

LEMMA VisitWalk ==
    ASSUME WalkInv, NEW o \in Paths, Visit(o)
    PROVE  WalkInv'
<1>. DEFINE seed == <<o, SeedRole(o)>>
<1>1. /\ stage = "follow" /\ stack = <<>> /\ pending # {} /\ o = Min(pending) /\ pending' = pending \ {o}
      /\ stack' = <<Frame(o, SeedRole(o))>> /\ contexts' = contexts \cup {<<o, o, SeedRole(o)>>}
      /\ tree' = tree /\ stage' = stage /\ record' = record /\ cut' = cut /\ references' = references
  BY DEF Visit, SeedRole
<1>2. o \in pending /\ o \in Documents /\ Walked(o) = {} /\ pending \subseteq Paths /\ SeedRole(o) \in Roles
  <2>1. pending \subseteq Paths
    BY DEF WalkInv, RecordInv
  <2>2. o \in pending
    BY <1>1, <2>1, MinOf, PathsAreNumbers
  <2>. QED  BY <1>1, <2>1, <2>2 DEF WalkInv, SeedsInv, SeedRole, Roles
<1>3. Walked(o)' = {seed} /\ \A q : q # o => Walked(q)' = Walked(q)
  BY <1>1, <1>2, WalkedGrows
<1>4. /\ Len(stack') = 1 /\ DOMAIN stack' = {1} /\ Spot(1)' = seed /\ stack'[1].path = o /\ stack'[1].next = 1
      /\ stack' \in Seq(Frames)
  BY <1>1, <1>2 DEF Frame, Spot, Frames
<1>5. Documents' = Documents
  BY <1>1 DEF Documents, HasDocument
<1>6. RecordInv'
  BY <1>1, <1>2 DEF WalkInv, RecordInv, Fits, Read
<1>7. ContextsInv'
  <2>1. contexts' \subseteq Paths \X Paths \X Roles
    BY <1>1, <1>2 DEF WalkInv, ContextsInv
  <2>2. Generated(o)'
    BY <1>1, <1>3, SpotsKept DEF Generated
  <2>3. ASSUME NEW q \in Paths, q # o PROVE Generated(q)'
    <3>1. Generated(q)
      BY DEF WalkInv, ContextsInv
    <3>. QED  BY <1>1, <1>3, <2>3, <3>1, SpotsKept DEF Generated
  <2>4. ASSUME NEW q \in Paths, NEW s \in Walked(q)' PROVE s[1] \in Documents' /\ <<q, SeedRole(q)'>> \in Walked(q)'
    BY <1>1, <1>2, <1>3, <1>5, SpotsKept DEF WalkInv, ContextsInv
  <2>. QED  BY <2>1, <2>2, <2>3, <2>4 DEF ContextsInv
<1>8. StackInv'
  BY <1>1, <1>3, <1>4 DEF StackInv, Origin
<1>9. SeedsInv'
  <2>1. ASSUME NEW p \in Documents \ pending' PROVE \E q \in Paths : p \in {s[1] : s \in Walked(q)'}
    <3>1. CASE p = o
      BY <1>3, <3>1
    <3>2. CASE p # o
      <4>1. PICK q \in Paths : p \in {s[1] : s \in Walked(q)}
        BY <1>1, <2>1, <3>2 DEF WalkInv, SeedsInv
      <4>. QED  BY <1>2, <1>3, <4>1
    <3>. QED  BY <3>1, <3>2
  <2>2. \A q \in pending' : Walked(q)' = {}
    BY <1>1, <1>3 DEF WalkInv, SeedsInv
  <2>. QED  BY <1>1, <1>5, <2>1, <2>2 DEF WalkInv, SeedsInv
<1>10. NotedInv'
  <2>1. ASSUME NEW r \in references
        PROVE  /\ \E s \in Walked(r.origin)' : s[1] = r.source /\ \E i \in Refs(s)' : LeadsTo(s, i)'[1] = r.target
               /\ r.disposition = "ignored" => tree'[r.target].kind = "ignored"
    <3>1. PICK s \in Walked(r.origin) : s[1] = r.source /\ \E i \in Refs(s) : LeadsTo(s, i)[1] = r.target
      BY DEF WalkInv, NotedInv
    <3>2. r.origin # o
      BY <1>2, <3>1
    <3>. QED  BY <1>1, <1>3, <3>1, <3>2, SpotsKept DEF WalkInv, NotedInv
  <2>. QED  BY <1>1, <2>1 DEF NotedInv
<1>11. CleanInv'
  <2>. SUFFICES ASSUME NEW q \in Paths, Clean(q)' PROVE LeftWhole(q)' /\ NoTrap(q)' /\ InHand(q)'
    BY DEF CleanInv
  <2>1. CASE q = o
    <3>1. WalkedOut(q)' = {}
      BY <1>3, <1>4, <2>1 DEF WalkedOut, OnStack
    <3>. QED  BY <1>4, <3>1 DEF LeftWhole, NoTrap, InHand
  <2>2. CASE q # o
    <3>1. WalkedOut(q)' = WalkedOut(q)
      BY <1>1, <1>3, <1>4, <2>2 DEF WalkedOut, OnStack
    <3>2. LeftWhole(q)' /\ NoTrap(q)'
      BY <1>1, <3>1, LeftKept DEF WalkInv
    <3>. QED  BY <1>4, <2>2, <3>2 DEF InHand
  <2>. QED  BY <2>1, <2>2
<1>. QED  BY <1>6, <1>7, <1>8, <1>9, <1>10, <1>11 DEF WalkInv

\* Where the walk is, the reference it is at, where that leads, and what it notes of it.
Here == Spot(Len(stack))
Pointer == stack[Len(stack)].next
Ahead == LeadsTo(Here, Pointer)
Note(disposition) ==
    [origin |-> Origin, source |-> Here[1], line |-> Pointer, target |-> Ahead[1], role |-> Ahead[2],
     disposition |-> disposition]

\* A reference is not followed, or its file is read: a document met for the first time is entered.
NotTaken(d) ==
    /\ d # "parsed" /\ (d = "ignored" => tree[Ahead[1]].kind = "ignored")
    /\ UNCHANGED <<record, contexts>> /\ stack' = Advanced

Taken(d) ==
    /\ Ahead \in Spots /\ Ahead[1] \notin Ancestry
    /\ record' = [record EXCEPT ![Ahead[1]] = Loaded(Ahead[1], TRUE)] /\ d = record'[Ahead[1]]
    /\ IF HasDocument(record', Ahead[1]) /\ Ahead \notin Walked(Origin)
       THEN /\ contexts' = contexts \cup {<<Origin, Ahead[1], Ahead[2]>>}
            /\ stack' = Append(Advanced, Frame(Ahead[1], Ahead[2]))
       ELSE contexts' = contexts /\ stack' = Advanced

LEMMA FollowCases ==
    ASSUME WalkInv, Follow
    PROVE  /\ stage = "follow" /\ stack # <<>> /\ Here \in Walked(Origin) /\ Pointer \in Refs(Here)
           /\ UNCHANGED <<tree, stage, pending, cut>>
           /\ \E d : references' = references \cup {Note(d)} /\ (NotTaken(d) \/ Taken(d))
<1>1. stage = "follow" /\ stack # <<>> /\ UNCHANGED <<tree, stage, pending, cut>>
  BY DEF Follow
<1>2. Len(stack) \in 1..Len(stack) /\ Here \in Walked(Origin) /\ stack[Len(stack)] \in Frames /\ Origin \in Paths
  BY <1>1, FrontOfStack DEF WalkInv, Here
<1>3. Top = stack[Len(stack)] /\ Top.path = Here[1] /\ Top.role = Here[2] /\ Top.next = Pointer
  BY <1>1 DEF Top, Last, Here, Pointer, Spot
<1>4. Here[1] \in Documents
  BY <1>2 DEF WalkInv, ContextsInv
<1>5. References(record, Here[1]) = tree[Here[1]].refs /\ Here[1] \in Paths /\ tree \in Trees
  BY <1>4, DocumentRefs DEF WalkInv, RecordInv
<1>6. Pointer \in Refs(Here)
  BY <1>3, <1>5 DEF Follow, Refs
<1>. DEFINE ref == tree[Here[1]].refs[Pointer]
<1>7. ref.target = Ahead[1] /\ RoleOf(ref) = Ahead[2] /\ ref.target \in {0} \cup Paths
  <2>1. ref.target = Ahead[1] /\ RoleOf(ref) = Ahead[2]
    BY <1>3 DEF Ahead, LeadsTo, RoleOf
  <2>2. ref.target \in {0} \cup Paths
    BY <1>5, <1>6, TreeTyped DEF Refs
  <2>. QED  BY <2>1, <2>2
<1>8. \A d : Noted(ref, d) = Note(d)
  <2>1. Top.path = Here[1] /\ Top.next = Pointer
    BY <1>3, Zenon
  <2>. HIDE DEF ref
  <2>. QED  BY <1>7, <2>1, Zenon DEF Noted, Note
<1>9. IF NotFollowed(ref) # "none"
      THEN references' = references \cup {Noted(ref, NotFollowed(ref))} /\ stack' = Advanced
           /\ record' = record /\ contexts' = contexts
      ELSE /\ record' = [record EXCEPT ![ref.target] = Loaded(ref.target, TRUE)]
           /\ references' = references \cup {Noted(ref, record'[ref.target])}
           /\ IF HasDocument(record', ref.target) /\ <<Origin, ref.target, RoleOf(ref)>> \notin contexts
              THEN /\ contexts' = contexts \cup {<<Origin, ref.target, RoleOf(ref)>>}
                   /\ stack' = Append(Advanced, Frame(ref.target, RoleOf(ref)))
              ELSE stack' = Advanced /\ contexts' = contexts
  BY <1>3, <1>5, Zenon DEF Follow
<1>. HIDE DEF ref
<1>10. CASE NotFollowed(ref) # "none"
  <2>1. NotFollowed(ref) # "parsed" /\ (NotFollowed(ref) = "ignored" => tree[Ahead[1]].kind = "ignored")
    BY <1>7 DEF NotFollowed
  <2>2. references' = references \cup {Note(NotFollowed(ref))} /\ NotTaken(NotFollowed(ref))
    BY <1>8, <1>9, <1>10, <2>1 DEF NotTaken
  <2>. QED  BY <1>1, <1>2, <1>6, <2>2
<1>11. CASE NotFollowed(ref) = "none"
  <2>1. Ahead[1] # 0 /\ Ahead[1] \notin Ancestry
    BY <1>7, <1>11 DEF NotFollowed
  <2>2. Ahead \in Spots /\ Ahead = <<Ahead[1], Ahead[2]>>
    BY <1>7, <2>1 DEF Ahead, LeadsTo, Spots, Roles
  <2>3. <<Origin, Ahead[1], Ahead[2]>> \in contexts <=> Ahead \in Walked(Origin)
    BY <2>2 DEF Walked
  <2>4. references' = references \cup {Note(record'[Ahead[1]])} /\ Taken(record'[Ahead[1]])
    BY <1>7, <1>8, <1>9, <1>11, <2>1, <2>2, <2>3 DEF Taken
  <2>. QED  BY <1>1, <1>2, <1>6, <2>4
<1>. QED  BY <1>10, <1>11

\* What the record and the documents are after a file was read for a reference.
LEMMA Loading ==
    ASSUME RecordInv, NEW p \in Paths, record' = [record EXCEPT ![p] = Loaded(p, TRUE)],
           UNCHANGED <<tree, stage, pending, cut>>, stage # "list"
    PROVE  /\ RecordInv' /\ Documents \subseteq Documents' /\ Documents' \subseteq Documents \cup {p}
           /\ record'[p] = "ignored" => tree[p].kind = "ignored"
           /\ record'[p] = "parsed" => HasDocument(record', p)
<1>. DEFINE v == Loaded(p, TRUE)
<1>1. /\ v \in Dispositions \ {"none"} /\ Fits(p, v)
      /\ record[p] \in {"parsed", "failed"} => v = record[p]
      /\ record[p] = "set-aside" => v \in {"parsed", "failed", "set-aside"}
      /\ v = "parsed" => tree[p].kind \notin {"absent", "unreadable"}
  BY LoadedFits
<1>2. record' \in [Paths -> Dispositions] /\ record'[p] = v /\ \A q \in Paths \ {p} : record'[q] = record[q]
  BY <1>1 DEF RecordInv
<1>. HIDE DEF v
<1>3. RecordInv'
  <2>1. \A q \in Paths : Fits(q, record[q])'
    BY <1>1, <1>2 DEF RecordInv, Fits
  <2>2. \A q \in Paths : Read(q) => Read(q)'
    BY <1>1, <1>2 DEF Read
  <2>. QED  BY <1>2, <2>1, <2>2 DEF RecordInv
<1>4. Documents \subseteq Documents' /\ Documents' \subseteq Documents \cup {p}
  BY <1>1, <1>2 DEF Documents, HasDocument
<1>. QED  BY <1>1, <1>2, <1>3, <1>4 DEF Fits, HasDocument

\* The stack after a reference: the top has advanced, and may have a frame above it.
Grown(enters) ==
    /\ stack' \in Seq(Frames) /\ stack' # <<>> /\ Origin' = Origin
    /\ Len(stack') = IF enters THEN Len(stack) + 1 ELSE Len(stack)
    /\ \A k \in 1..Len(stack) :
         /\ stack'[k].path = stack[k].path /\ Spot(k)' = Spot(k)
         /\ stack'[k].next = IF k = Len(stack) THEN stack[k].next + 1 ELSE stack[k].next
    /\ enters => \A k : k = Len(stack) + 1 =>
         Spot(k)' = Ahead /\ stack'[k].path = Ahead[1] /\ stack'[k].next = 1

LEMMA StackGrown ==
    ASSUME StackInv, stack # <<>>, NEW enters \in BOOLEAN,
           stack' = IF enters THEN Append(Advanced, Frame(Ahead[1], Ahead[2])) ELSE Advanced,
           enters => Ahead \in Spots
    PROVE  Grown(enters)
<1>. DEFINE n == Len(stack)
            f == Frame(Ahead[1], Ahead[2])
<1>1. n \in Nat \ {0} /\ \A k \in 1..n : stack[k] \in Frames
  BY FrontOfStack
<1>2. /\ Advanced \in Seq(Frames) /\ Len(Advanced) = n
      /\ \A k \in 1..n : /\ Advanced[k].path = stack[k].path /\ Advanced[k].role = stack[k].role
                         /\ Advanced[k].next = IF k = n THEN stack[k].next + 1 ELSE stack[k].next
  <2>1. \A k \in 1..n : stack[k].next + 0 = stack[k].next
    BY <1>1 DEF Frames
  <2>. QED  BY AdvancedStack, <2>1
<1>3. f = Frame(Ahead[1], Ahead[2]) /\ f.path = Ahead[1] /\ f.role = Ahead[2] /\ f.next = 1
  BY DEF Frame
<1>4. enters => f \in Frames /\ Ahead = <<Ahead[1], Ahead[2]>>
  BY DEF Frame, Frames, Spots
<1>. HIDE DEF f
<1>5. CASE enters
  <2>1. stack' = Append(Advanced, f) /\ f \in Frames
    BY <1>3, <1>4, <1>5
  <2>2. /\ stack' \in Seq(Frames) /\ Len(stack') = n + 1 /\ stack'[n + 1] = f
        /\ \A k \in 1..n : stack'[k] = Advanced[k]
    BY <1>1, <1>2, <2>1
  <2>3. Origin' = Origin /\ \A k \in 1..n : Spot(k)' = Spot(k)
    BY <1>1, <1>2, <2>2 DEF Origin, Spot
  <2>4. stack' # <<>>
    BY <1>1, <2>2
  <2>. QED  BY <1>2, <1>3, <1>4, <1>5, <2>2, <2>3, <2>4 DEF Grown, Spot
<1>6. CASE ~enters
  <2>1. stack' = Advanced
    BY <1>6
  <2>2. Origin' = Origin /\ \A k \in 1..n : Spot(k)' = Spot(k)
    BY <1>1, <1>2, <2>1 DEF Origin, Spot
  <2>3. stack' # <<>>
    BY <1>1, <1>2, <2>1
  <2>. QED  BY <1>2, <1>6, <2>1, <2>2, <2>3 DEF Grown
<1>. QED  BY <1>5, <1>6

\* One reference further, whatever becomes of it.
Onto(o, d, enters) ==
    /\ o = Origin /\ references' = references \cup {Note(d)}
    /\ Grown(enters) /\ contexts' \subseteq Paths \X Paths \X Roles
    /\ Walked(o)' = (IF enters THEN Walked(o) \cup {Ahead} ELSE Walked(o))
    /\ \A q : q # o => Walked(q)' = Walked(q)
    /\ enters => /\ Ahead \in Spots /\ Ahead \notin Walked(o) /\ Ahead[1] \notin Ancestry
                 /\ Ahead[1] \in Documents'
    /\ RecordInv' /\ Documents \subseteq Documents'
    /\ \A p \in Documents' \ Documents : p = Ahead[1] /\ Ahead \in Walked(o)'
    /\ d = "ignored" => tree[Ahead[1]].kind = "ignored"
    /\ d = "parsed" /\ ~enters => Ahead \in Walked(o) /\ Ahead[1] \notin Ancestry

LEMMA FollowOnto ==
    ASSUME WalkInv, Follow
    PROVE  \E o \in Paths : \E d : \E enters \in BOOLEAN : Onto(o, d, enters)
<1>. PICK o \in Paths : o = Origin
  BY FollowCases, FrontOfStack DEF WalkInv
<1>1. /\ stage = "follow" /\ stack # <<>> /\ UNCHANGED <<tree, stage, pending, cut>>
      /\ contexts \subseteq Paths \X Paths \X Roles
  BY FollowCases DEF WalkInv, ContextsInv
<1>2. PICK d : references' = references \cup {Note(d)} /\ (NotTaken(d) \/ Taken(d))
  BY FollowCases
<1>3. CASE NotTaken(d)
  <2>1. record' = record /\ contexts' = contexts /\ stack' = Advanced
    BY <1>3 DEF NotTaken
  <2>2. Documents' = Documents /\ RecordInv'
    BY <1>1, <2>1 DEF WalkInv, RecordInv, Documents, HasDocument, Fits, Read
  <2>3. \A q : Walked(q)' = Walked(q)
    BY <2>1 DEF Walked
  <2>4. Grown(FALSE)
    BY <1>1, <2>1, StackGrown DEF WalkInv
  <2>. QED  BY <1>1, <1>2, <1>3, <2>1, <2>2, <2>3, <2>4 DEF NotTaken, Onto
<1>4. CASE Taken(d)
  <2>1. /\ Ahead \in Spots /\ Ahead[1] \in Paths /\ Ahead[2] \in Roles /\ Ahead[1] \notin Ancestry
        /\ Ahead = <<Ahead[1], Ahead[2]>>
        /\ record' = [record EXCEPT ![Ahead[1]] = Loaded(Ahead[1], TRUE)] /\ d = record'[Ahead[1]]
    BY <1>4 DEF Taken, Spots
  <2>2. /\ RecordInv' /\ Documents \subseteq Documents' /\ Documents' \subseteq Documents \cup {Ahead[1]}
        /\ d = "ignored" => tree[Ahead[1]].kind = "ignored"
        /\ d = "parsed" => HasDocument(record', Ahead[1])
    BY <1>1, <2>1, Loading DEF WalkInv
  <2>3. HasDocument(record', Ahead[1]) <=> Ahead[1] \in Documents'
    BY <1>1, <2>1 DEF Documents, HasDocument
  <2>4. CASE HasDocument(record', Ahead[1]) /\ Ahead \notin Walked(o)
    <3>1. /\ contexts' = contexts \cup {<<o, Ahead[1], Ahead[2]>>}
          /\ stack' = Append(Advanced, Frame(Ahead[1], Ahead[2]))
      BY <1>4, <2>4 DEF Taken
    <3>2. Walked(o)' = Walked(o) \cup {Ahead} /\ \A q : q # o => Walked(q)' = Walked(q)
      BY <1>1, <2>1, <3>1, WalkedGrows
    <3>3. Grown(TRUE)
      BY <1>1, <2>1, <3>1, StackGrown DEF WalkInv
    <3>4. contexts' \subseteq Paths \X Paths \X Roles
      BY <1>1, <2>1, <3>1
    <3>5. Onto(o, d, TRUE)
      BY <1>2, <2>1, <2>2, <2>3, <2>4, <3>2, <3>3, <3>4 DEF Onto
    <3>. QED  BY <3>5
  <2>5. CASE ~(HasDocument(record', Ahead[1]) /\ Ahead \notin Walked(o))
    <3>1. contexts' = contexts /\ stack' = Advanced
      BY <1>4, <2>5 DEF Taken
    <3>2. \A q : Walked(q)' = Walked(q)
      BY <3>1 DEF Walked
    <3>3. Grown(FALSE)
      BY <1>1, <3>1, StackGrown DEF WalkInv
    <3>4. \A p \in Documents' \ Documents : p = Ahead[1] /\ Ahead \in Walked(o)
      BY <2>2, <2>3, <2>5
    <3>5. Onto(o, d, FALSE)
      BY <1>1, <1>2, <2>1, <2>2, <2>5, <3>1, <3>2, <3>3, <3>4 DEF Onto
    <3>. QED  BY <3>5
  <2>. QED  BY <2>4, <2>5
<1>. QED  BY <1>2, <1>3, <1>4

LEMMA FollowContexts ==
    ASSUME WalkInv, Follow, NEW o \in Paths, NEW d, NEW enters \in BOOLEAN, Onto(o, d, enters)
    PROVE  ContextsInv'
<1>1. o = Origin /\ Here \in Walked(o) /\ Pointer \in Refs(Here) /\ tree' = tree
  BY FollowCases DEF Onto
<1>2. /\ Walked(o)' = (IF enters THEN Walked(o) \cup {Ahead} ELSE Walked(o))
      /\ \A q : q # o => Walked(q)' = Walked(q)
      /\ Documents \subseteq Documents' /\ (enters => Ahead[1] \in Documents')
      /\ contexts' \subseteq Paths \X Paths \X Roles
  BY DEF Onto
<1>3. \A q \in Paths : \A s \in Walked(q)' : s[1] \in Documents' /\ <<q, SeedRole(q)'>> \in Walked(q)'
  BY <1>1, <1>2, SpotsKept DEF WalkInv, ContextsInv
<1>4. ASSUME NEW q \in Paths PROVE Generated(q)'
  <2>. SUFFICES ASSUME NEW Q \in SUBSET Spots, <<q, SeedRole(q)>> \in Q,
                       \A s \in Q \cap Walked(q)' : \A i \in Refs(s) :
                          LeadsTo(s, i) \in Walked(q)' => LeadsTo(s, i) \in Q
                PROVE  Walked(q)' \subseteq Q
    BY <1>1, SpotsKept DEF Generated
  <2>1. Walked(q) \subseteq Walked(q)'
    BY <1>2
  <2>2. Walked(q) \subseteq Q
    BY <2>1 DEF WalkInv, ContextsInv, Generated
  <2>3. CASE q = o /\ enters
    <3>1. Here \in Q \cap Walked(q)' /\ LeadsTo(Here, Pointer) \in Walked(q)'
      BY <1>1, <1>2, <2>1, <2>2, <2>3 DEF Ahead
    <3>2. Ahead \in Q
      BY <1>1, <3>1 DEF Ahead
    <3>. QED  BY <1>2, <2>2, <2>3, <3>2
  <2>4. CASE ~(q = o /\ enters)
    BY <1>2, <2>2, <2>4
  <2>. QED  BY <2>3, <2>4
<1>. QED  BY <1>2, <1>3, <1>4, SpotsKept DEF ContextsInv

LEMMA FollowStack ==
    ASSUME WalkInv, Follow, NEW o \in Paths, NEW d, NEW enters \in BOOLEAN, Onto(o, d, enters)
    PROVE  StackInv'
<1>1. /\ o = Origin /\ stage' = "follow" /\ pending' = pending /\ stack # <<>> /\ o \notin pending
      /\ Grown(enters)
  BY FollowCases DEF Onto, WalkInv, StackInv
<1>. DEFINE n == Len(stack)
<1>2. /\ n \in Nat \ {0} /\ DOMAIN stack = 1..n /\ \A k \in 1..n : Spot(k) \in Walked(o)
      /\ \A j, k \in 1..n : stack[j].path = stack[k].path => j = k
  BY <1>1, FrontOfStack DEF WalkInv, StackInv
<1>3. /\ stack' \in Seq(Frames) /\ stack' # <<>> /\ Origin' = o
      /\ Len(stack') = (IF enters THEN n + 1 ELSE n) /\ DOMAIN stack' = 1..Len(stack')
      /\ \A k \in 1..n : stack'[k].path = stack[k].path /\ Spot(k)' = Spot(k)
      /\ enters => \A k : k = n + 1 => Spot(k)' = Ahead /\ stack'[k].path = Ahead[1]
  BY <1>1 DEF Grown
<1>4. /\ Walked(o)' = (IF enters THEN Walked(o) \cup {Ahead} ELSE Walked(o))
      /\ enters => Ahead[1] \notin Ancestry
  BY DEF Onto
<1>5. enters => \A k \in 1..n : stack[k].path # Ahead[1]
  BY <1>2, <1>4 DEF Ancestry
<1>6. \A k \in DOMAIN stack' : k \in 1..n \/ (enters /\ k = n + 1)
  BY <1>2, <1>3
<1>7. \A k \in DOMAIN stack' : Spot(k)' \in Walked(o)'
  BY <1>2, <1>3, <1>4, <1>6
<1>8. \A j, k \in DOMAIN stack' : stack'[j].path = stack'[k].path => j = k
  BY <1>2, <1>3, <1>5, <1>6
<1>. QED  BY <1>1, <1>3, <1>7, <1>8 DEF StackInv

LEMMA FollowSeeds ==
    ASSUME WalkInv, Follow, NEW o \in Paths, NEW d, NEW enters \in BOOLEAN, Onto(o, d, enters)
    PROVE  SeedsInv' /\ NotedInv'
<1>1. /\ o = Origin /\ stage = "follow" /\ stage' = stage /\ pending' = pending /\ cut' = cut /\ tree' = tree
      /\ o \notin pending /\ Here \in Walked(o) /\ Pointer \in Refs(Here)
  BY FollowCases DEF Onto, WalkInv, StackInv
<1>2. \A q : Walked(q) \subseteq Walked(q)' /\ (q # o => Walked(q)' = Walked(q))
  BY DEF Onto
<1>3. Documents \subseteq Documents' /\ \A p \in Documents' \ Documents : p = Ahead[1] /\ Ahead \in Walked(o)'
  BY DEF Onto
<1>4. ASSUME NEW p \in Documents' \ pending PROVE \E q \in Paths : p \in {s[1] : s \in Walked(q)'}
  <2>1. CASE p \in Documents
    BY <1>1, <1>2, <2>1 DEF WalkInv, SeedsInv
  <2>2. CASE p \notin Documents
    BY <1>3, <2>2
  <2>. QED  BY <2>1, <2>2
<1>5. SeedsInv'
  BY <1>1, <1>2, <1>3, <1>4 DEF WalkInv, SeedsInv
<1>6. ASSUME NEW r \in references'
      PROVE  /\ \E s \in Walked(r.origin)' : s[1] = r.source /\ \E i \in Refs(s)' : LeadsTo(s, i)'[1] = r.target
             /\ r.disposition = "ignored" => tree'[r.target].kind = "ignored"
  <2>1. CASE r \in references
    BY <1>1, <1>2, <2>1, SpotsKept DEF WalkInv, NotedInv
  <2>2. CASE r = Note(d)
    <3>1. r.origin = o /\ r.source = Here[1] /\ r.target = Ahead[1] /\ r.disposition = d
      BY <1>1, <2>2 DEF Note
    <3>2. d = "ignored" => tree[Ahead[1]].kind = "ignored"
      BY DEF Onto
    <3>. QED  BY <1>1, <1>2, <3>1, <3>2, SpotsKept DEF Ahead
  <2>. QED  BY <2>1, <2>2 DEF Onto
<1>. QED  BY <1>5, <1>6 DEF NotedInv

LEMMA OneLess ==
    ASSUME NEW a \in Nat, NEW b \in {a, a + 1}, NEW i \in 1..b - 1, i # a
    PROVE  i \in 1..a - 1
OBVIOUS

LEMMA NotBelow ==
    ASSUME NEW i \in Nat
    PROVE  i \notin 1..i - 1
OBVIOUS

LEMMA FollowClean ==
    ASSUME WalkInv, Follow, NEW o \in Paths, NEW d, NEW enters \in BOOLEAN, Onto(o, d, enters)
    PROVE  CleanInv'
<1>. DEFINE n == Len(stack)
<1>1. /\ o = Origin /\ tree' = tree /\ stack # <<>> /\ references' = references \cup {Note(d)}
      /\ Grown(enters) /\ Note(d).origin = o /\ Note(d).disposition = d /\ stack[1].path = o
  BY FollowCases DEF Onto, Note, Origin
<1>2. /\ n \in Nat \ {0} /\ DOMAIN stack = 1..n /\ \A k \in 1..n : Spot(k) \in Walked(o) /\ stack[k].next \in Nat
      /\ Pointer = stack[n].next /\ Here = Spot(n)
  BY <1>1, FrontOfStack DEF WalkInv, Frames, Pointer, Here
<1>3. /\ DOMAIN stack' = 1..Len(stack') /\ stack'[1].path = o
      /\ Len(stack') = (IF enters THEN n + 1 ELSE n)
      /\ \A k \in 1..n : /\ stack'[k].path = stack[k].path /\ Spot(k)' = Spot(k)
                         /\ stack'[k].next = IF k = n THEN stack[k].next + 1 ELSE stack[k].next
      /\ enters => \A k : k = n + 1 => Spot(k)' = Ahead /\ stack'[k].next = 1
  <2>1. stack' \in Seq(Frames) /\ stack'[1].path = stack[1].path
    BY <1>1, <1>2 DEF Grown
  <2>. QED  BY <1>1, <2>1 DEF Grown
<1>4. /\ Walked(o)' = (IF enters THEN Walked(o) \cup {Ahead} ELSE Walked(o))
      /\ \A q : q # o => Walked(q)' = Walked(q)
      /\ enters => Ahead \notin Walked(o)
      /\ d = "ignored" => tree[Ahead[1]].kind = "ignored"
      /\ d = "parsed" /\ ~enters => Ahead \in Walked(o) /\ Ahead[1] \notin Ancestry
  BY DEF Onto
<1>5. \A k \in DOMAIN stack' : k \in 1..n \/ (enters /\ k = n + 1)
  BY <1>2, <1>3
<1>6. OnStack(o)' = (IF enters THEN OnStack(o) \cup {Ahead} ELSE OnStack(o))
  <2>1. OnStack(o)' = {Spot(k)' : k \in DOMAIN stack'} /\ OnStack(o) = {Spot(k) : k \in 1..n}
    BY <1>1, <1>2, <1>3, Zenon DEF OnStack
  <2>. HIDE DEF n
  <2>2. 1..n \subseteq DOMAIN stack' /\ (enters => n + 1 \in DOMAIN stack')
    <3>1. n \in Nat /\ DOMAIN stack' = 1..Len(stack') /\ Len(stack') = (IF enters THEN n + 1 ELSE n)
      BY <1>2, <1>3
    <3>. QED  BY <3>1
  <2>3. \A k \in 1..n : Spot(k)' = Spot(k)
    BY <1>3
  <2>4. CASE enters
    <3>1. \A k \in DOMAIN stack' : k \in 1..n \/ k = n + 1
      BY <1>5
    <3>2. \A k : k = n + 1 => Spot(k)' = Ahead
      BY <1>3, <2>4
    <3>3. OnStack(o)' \subseteq OnStack(o) \cup {Ahead}
      BY <2>1, <2>3, <3>1, <3>2, Zenon
    <3>4. OnStack(o) \subseteq OnStack(o)' /\ Ahead \in OnStack(o)'
      BY <2>1, <2>2, <2>3, <2>4, <3>2, Zenon
    <3>. QED  BY <2>4, <3>3, <3>4
  <2>5. CASE ~enters
    <3>1. DOMAIN stack' = 1..n
      <4>1. DOMAIN stack' \subseteq 1..n
        BY <1>5, <2>5, Zenon
      <4>. QED  BY <2>2, <4>1
    <3>. QED  BY <2>1, <2>3, <2>5, <3>1
  <2>. QED  BY <2>4, <2>5
<1>7. WalkedOut(o)' = WalkedOut(o)
  BY <1>4, <1>6 DEF WalkedOut
<1>. SUFFICES ASSUME NEW q \in Paths, Clean(q)' PROVE LeftWhole(q)' /\ NoTrap(q)' /\ InHand(q)'
  BY DEF CleanInv
<1>8. CASE q # o
  <2>1. WalkedOut(q)' = WalkedOut(q)
    BY <1>1, <1>3, <1>4, <1>8 DEF WalkedOut, OnStack
  <2>2. LeftWhole(q)' /\ NoTrap(q)'
    BY <1>1, <2>1, LeftKept DEF WalkInv
  <2>. QED  BY <1>3, <1>8, <2>2 DEF InHand
<1>9. CASE q = o
  <2>1. Clean(o) /\ LeftWhole(o)' /\ NoTrap(o)' /\ \A s, i : Met(o, s, i) => Met(o, s, i)'
    BY <1>1, <1>7, <1>9, LeftKept DEF WalkInv
  <2>2. d \in {"parsed", "ignored"}
    BY <1>1, <1>9 DEF Clean
  <2>3. ASSUME NEW k \in DOMAIN stack', NEW i \in 1..stack'[k].next - 1
        PROVE  Met(o, Spot(k), i)' \/ (k < Len(stack') /\ LeadsTo(Spot(k), i)' = Spot(k + 1)')
    <3>. PICK s : s = Spot(k)'
      OBVIOUS
    <3>1. (Met(o, Spot(k), i)' <=> Met(o, s, i)') /\ LeadsTo(Spot(k), i)' = LeadsTo(s, i)
      BY <1>1 DEF Met, LeadsTo
    <3>2. CASE k \in 1..n /\ i # stack[k].next
      <4>1. s = Spot(k) /\ i \in 1..stack[k].next - 1
        <5>1. stack[k].next \in Nat
          BY <1>2, <3>2
        <5>2. /\ stack'[k].next = IF k = n THEN stack[k].next + 1 ELSE stack[k].next
              /\ s = Spot(k)
          BY <1>3, <3>2
        <5>3. stack'[k].next \in {stack[k].next, stack[k].next + 1}
          BY <5>2
        <5>. QED  BY <3>2, <5>1, <5>2, <5>3, OneLess
      <4>2. Met(o, s, i) \/ (k < n /\ LeadsTo(s, i) = Spot(k + 1))
        BY <1>1, <1>2, <2>1, <3>2, <4>1 DEF WalkInv, CleanInv, InHand
      <4>3. k < n => k + 1 \in 1..n /\ k < Len(stack')
        <5>1. n \in Nat /\ Len(stack') \in {n, n + 1}
          BY <1>2, <1>3
        <5>. HIDE DEF n
        <5>. QED  BY <3>2, <5>1
      <4>4. k < n => Spot(k + 1)' = Spot(k + 1)
        BY <1>3, <4>3
      <4>. QED  BY <2>1, <3>1, <4>2, <4>3, <4>4
    <3>3. CASE k \in 1..n /\ i = stack[k].next
      <4>1. k = n /\ s = Here /\ i = Pointer /\ LeadsTo(s, i) = Ahead
        <5>1. stack[k].next \in Nat /\ k \in 1..n /\ i = stack[k].next
          BY <1>2, <3>3
        <5>2. stack'[k].next = IF k = n THEN stack[k].next + 1 ELSE stack[k].next
          BY <1>3, <5>1
        <5>3. k = n
          <6>1. ASSUME k # n PROVE i \in 1..i - 1
            <7>1. stack'[k].next = i
              BY <5>1, <5>2, <6>1
            <7>2. i \in 1..stack'[k].next - 1
              OBVIOUS
            <7>. QED  BY <7>1, <7>2, Zenon
          <6>. QED  BY <5>1, <6>1, NotBelow
        <5>4. s = Here /\ i = Pointer
          BY <1>2, <1>3, <5>1, <5>3, Zenon
        <5>. QED  BY <5>3, <5>4 DEF Ahead
      <4>2. CASE d = "ignored"
        <5>1. /\ LeadsTo(s, i)' = Ahead /\ tree'[Ahead[1]].kind = "ignored"
              /\ \E r \in references' : r.origin = o /\ r.disposition = "ignored"
          BY <1>1, <1>4, <4>1, <4>2, SpotsKept
        <5>2. Met(o, s, i)'
          BY <5>1 DEF Met
        <5>. QED  BY <3>1, <5>2
      <4>3. CASE d = "parsed" /\ ~enters
        <5>1. Ahead \in Walked(o) /\ Ahead \notin OnStack(o)
          BY <1>1, <1>2, <1>4, <4>3 DEF OnStack, Spot, Ancestry
        <5>2. LeadsTo(s, i)' \in WalkedOut(o)'
          BY <1>1, <1>7, <4>1, <5>1, SpotsKept DEF WalkedOut
        <5>. QED  BY <3>1, <5>2 DEF Met
      <4>4. CASE enters
        <5>1. LeadsTo(s, i)' = Ahead
          BY <1>1, <4>1, SpotsKept
        <5>2. \A j : j = n + 1 => Spot(j)' = Ahead
          BY <1>3, <4>4, Zenon
        <5>3. k + 1 = n + 1 /\ n \in Nat /\ Len(stack') = n + 1
          BY <1>2, <1>3, <4>1, <4>4
        <5>. HIDE DEF n
        <5>4. Spot(k + 1)' = Ahead /\ k < Len(stack')
          BY <4>1, <5>2, <5>3
        <5>. QED  BY <3>1, <5>1, <5>4
      <4>. QED  BY <2>2, <4>2, <4>3, <4>4
    <3>4. CASE k \notin 1..n
      <4>1. stack'[k].next = 1
        BY <1>3, <1>5, <3>4
      <4>. QED  BY <4>1
    <3>. QED  BY <3>2, <3>3, <3>4
  <2>. QED  BY <1>9, <2>1, <2>3 DEF InHand
<1>. QED  BY <1>8, <1>9

LEMMA FollowWalk ==
    ASSUME WalkInv, Follow
    PROVE  WalkInv'
<1>1. PICK o \in Paths : \E d : \E enters \in BOOLEAN : Onto(o, d, enters)
  BY FollowOnto
<1>2. PICK d : \E enters \in BOOLEAN : Onto(o, d, enters)
  BY <1>1
<1>3. PICK enters \in BOOLEAN : Onto(o, d, enters)
  BY <1>2
<1>4. RecordInv'
  BY <1>3 DEF Onto
<1>. QED  BY <1>3, <1>4, FollowContexts, FollowStack, FollowSeeds, FollowClean DEF WalkInv

LEMMA ReturnWalk ==
    ASSUME WalkInv, Return
    PROVE  WalkInv'
<1>. DEFINE n == Len(stack)
<1>1. /\ stage = "follow" /\ stack # <<>> /\ stack' = Front(stack) /\ tree' = tree /\ stage' = stage
      /\ UNCHANGED <<pending, record, cut, contexts, references>>
  BY DEF Return
<1>2. PICK o \in Paths : o = Origin
  BY <1>1, FrontOfStack DEF WalkInv
<1>3. /\ n \in Nat \ {0} /\ DOMAIN stack = 1..n /\ stack[1].path = o /\ o \notin pending
      /\ \A k \in 1..n : stack[k] \in Frames /\ Spot(k) \in Walked(o)
      /\ stack' \in Seq(Frames) /\ Len(stack') = n - 1 /\ DOMAIN stack' = 1..n - 1
      /\ \A k \in 1..n - 1 : stack'[k] = stack[k] /\ Spot(k)' = Spot(k)
      /\ stack' # <<>> => n - 1 # 0 /\ stack'[1].path = o /\ Origin' = o
      /\ \A j, k \in 1..n : stack[j].path = stack[k].path => j = k
  <2>1. /\ n \in Nat \ {0} /\ DOMAIN stack = 1..n /\ \A k \in 1..n : stack[k] \in Frames /\ Spot(k) \in Walked(o)
        /\ stack' \in Seq(Frames) /\ Len(stack') = n - 1 /\ \A k \in 1..n - 1 : stack'[k] = stack[k]
    <3>1. StackInv
      BY DEF WalkInv
    <3>2. /\ n \in Nat \ {0} /\ DOMAIN stack = 1..n
          /\ \A k \in 1..n : stack[k] \in Frames /\ Spot(k) \in Walked(Origin)
          /\ Front(stack) \in Seq(Frames) /\ Len(Front(stack)) = n - 1
          /\ \A k \in 1..n - 1 : Front(stack)[k] = stack[k]
      BY <1>1, <3>1, FrontOfStack, Zenon
    <3>. HIDE DEF n
    <3>. QED  BY <1>1, <1>2, <3>2, Zenon
  <2>2. /\ stack[1].path = o /\ o \notin pending
        /\ \A j, k \in 1..n : stack[j].path = stack[k].path => j = k
    BY <1>1, <1>2, <2>1 DEF Origin, WalkInv, StackInv
  <2>3. \A k \in 1..n - 1 : Spot(k)' = Spot(k)
    BY <2>1 DEF Spot
  <2>4. stack' # <<>> => n - 1 # 0
    BY <2>1
  <2>5. stack' # <<>> => stack'[1].path = o /\ Origin' = o
    <3>1. n - 1 # 0 => 1 \in 1..n - 1
      BY <2>1
    <3>. QED  BY <2>1, <2>2, <2>4, <3>1 DEF Origin
  <2>6. DOMAIN stack' = 1..n - 1
    BY <2>1
  <2>7. \A k \in 1..n - 1 : stack'[k] = stack[k] /\ Spot(k)' = Spot(k)
    BY <2>1, <2>3
  <2>. HIDE DEF n
  <2>. QED  BY <2>1, <2>2, <2>4, <2>5, <2>6, <2>7, Zenon
<1>. HIDE DEF n
<1>4. (\A q : Walked(q)' = Walked(q)) /\ Documents' = Documents
  BY <1>1 DEF Walked, Documents, HasDocument
<1>5. RecordInv'
  BY <1>1 DEF WalkInv, RecordInv, Fits, Read
<1>6. ContextsInv'
  <2>1. \A q : (Generated(q)' <=> Generated(q))
    BY <1>1, <1>4, SpotsKept DEF Generated
  <2>. QED  BY <1>1, <1>4, <2>1, SpotsKept DEF WalkInv, ContextsInv
<1>7. StackInv'
  BY <1>1, <1>3, <1>4 DEF StackInv
<1>8. SeedsInv' /\ NotedInv'
  BY <1>1, <1>4, SpotsKept DEF WalkInv, SeedsInv, NotedInv
<1>. PICK top : top = Spot(n)
  OBVIOUS
<1>9. /\ OnStack(o) = {Spot(k) : k \in 1..n}
      /\ OnStack(o)' = {Spot(k) : k \in 1..n - 1}
  <2>1. OnStack(o)' = {Spot(k)' : k \in {j \in DOMAIN stack' : stack'[1].path = o}}
    BY DEF OnStack
  <2>2. {j \in DOMAIN stack' : stack'[1].path = o} = 1..n - 1
    <3>1. 1..n - 1 # {} => stack' # <<>>
      BY <1>3
    <3>. QED  BY <1>3, <3>1
  <2>3. OnStack(o) = {Spot(k) : k \in 1..n}
    BY <1>3 DEF OnStack
  <2>. QED  BY <1>3, <2>1, <2>2, <2>3
<1>10. WalkedOut(o)' = WalkedOut(o) \cup {top} /\ top \notin WalkedOut(o)
  <2>1. \A k \in 1..n - 1 : Spot(k) # top /\ k \in 1..n
    BY <1>3 DEF Spot
  <2>2. \A k \in 1..n : k \in 1..n - 1 \/ k = n
    BY <1>3
  <2>3. n \in 1..n
    BY <1>3
  <2>. QED  BY <1>3, <1>4, <1>9, <2>1, <2>2, <2>3 DEF WalkedOut
<1>11. top \in Walked(o) /\ top[1] \in Documents /\ tree[top[1]].kind # "ignored"
  <2>1. n \in 1..n
    BY <1>3
  <2>2. top \in Walked(o)
    BY <1>3, <2>1
  <2>3. top[1] \in Documents
    BY <2>2 DEF WalkInv, ContextsInv
  <2>. QED  BY <2>2, <2>3, DocumentRefs DEF WalkInv
<1>12. CleanInv'
  <2>. SUFFICES ASSUME NEW q \in Paths, Clean(q)' PROVE LeftWhole(q)' /\ NoTrap(q)' /\ InHand(q)'
    BY DEF CleanInv
  <2>1. CASE q # o
    <3>1. WalkedOut(q)' = WalkedOut(q)
      <4>1. stack[1].path # q /\ (DOMAIN stack' # {} => stack'[1].path # q)
        BY <1>3, <2>1
      <4>. QED  BY <1>4, <4>1 DEF WalkedOut, OnStack
    <3>2. LeftWhole(q)' /\ NoTrap(q)'
      BY <1>1, <3>1, LeftKept DEF WalkInv
    <3>. QED  BY <1>3, <2>1, <3>2 DEF InHand
  <2>2. CASE q = o
    <3>1. Clean(o) /\ LeftWhole(o) /\ NoTrap(o) /\ InHand(o)
      BY <1>1, <2>2 DEF Clean, WalkInv, CleanInv
    <3>2. \A s, i : Met(o, s, i) => Met(o, s, i)'
      <4>. TAKE s, i
      <4>. HAVE Met(o, s, i)
      <4>1. LeadsTo(s, i)' = LeadsTo(s, i) /\ tree' = tree /\ references' = references
        BY <1>1, SpotsKept
      <4>. QED  BY <1>10, <4>1 DEF Met
    <3>3. \A i \in Refs(top) : Met(o, top, i)
      <4>1. stack[n].next > Len(tree[top[1]].refs)
        <5>1. top[1] = Top.path /\ Top = stack[n]
          BY DEF Top, Last, Spot, n
        <5>2. References(record, top[1]) = tree[top[1]].refs
          BY <1>11, DocumentRefs DEF WalkInv
        <5>. QED  BY <5>1, <5>2 DEF Return
      <4>2. Refs(top) \subseteq 1..stack[n].next - 1
        <5>1. top[1] \in Paths /\ tree \in Trees /\ stack[n].next \in Nat
          BY <1>3 DEF WalkInv, RecordInv, Frames, Spot
        <5>2. Refs(top) = 1..Len(tree[top[1]].refs) /\ Len(tree[top[1]].refs) \in Nat
          BY <5>1, TreeTyped DEF Refs
        <5>3. ASSUME NEW a \in Nat, NEW b \in Nat, a > b PROVE 1..b \subseteq 1..a - 1
          BY <5>3
        <5>. QED  BY <4>1, <5>1, <5>2, <5>3
      <4>3. ~(n < Len(stack)) /\ n \in 1..n
        BY <1>3 DEF n
      <4>. QED  BY <1>3, <3>1, <4>2, <4>3 DEF InHand
    <3>4. LeftWhole(o)'
      BY <1>1, <1>10, <3>1, <3>2, <3>3, SpotsKept DEF LeftWhole
    <3>5. NoTrap(o)'
      <4>. SUFFICES ASSUME NEW S \in SUBSET (WalkedOut(o)'), S # {}
                    PROVE  \E s \in S : \A i \in Refs(s)' : LeadsTo(s, i)' \notin S
        BY DEF NoTrap
      <4>. SUFFICES \E s \in S : \A i \in Refs(s) : LeadsTo(s, i) \notin S
        BY <1>1, SpotsKept
      <4>0. S \subseteq WalkedOut(o) \cup {top}
        BY <1>10
      <4>1. CASE S = {top}
        <5>1. \A i \in Refs(top) : LeadsTo(top, i) # top
          <6>. TAKE i \in Refs(top)
          <6>1. Met(o, top, i)
            BY <3>3
          <6>2. CASE LeadsTo(top, i) \in WalkedOut(o)
            BY <1>10, <6>2
          <6>3. CASE tree[LeadsTo(top, i)[1]].kind = "ignored"
            BY <1>11, <6>3
          <6>. QED  BY <6>1, <6>2, <6>3 DEF Met
        <5>. QED  BY <4>1, <5>1
      <4>2. CASE S # {top}
        <5>0. S \ {top} \in SUBSET WalkedOut(o) /\ S \ {top} # {}
          BY <4>0, <4>2
        <5>1. PICK s \in S \ {top} : \A i \in Refs(s) : LeadsTo(s, i) \notin S \ {top}
          BY <3>1, <5>0 DEF NoTrap
        <5>2. \A i \in Refs(s) : LeadsTo(s, i) # top
          <6>. TAKE i \in Refs(s)
          <6>1. Met(o, s, i)
            BY <3>1, <5>0, <5>1 DEF LeftWhole
          <6>. QED  BY <1>10, <1>11, <6>1 DEF Met
        <5>. QED  BY <5>1, <5>2
      <4>. QED  BY <4>1, <4>2
    <3>6. InHand(o)'
      <4>. SUFFICES ASSUME NEW k \in DOMAIN stack', NEW i \in 1..stack'[k].next - 1
                    PROVE  Met(o, Spot(k), i)' \/ (k < Len(stack') /\ LeadsTo(Spot(k), i)' = Spot(k + 1)')
        BY DEF InHand
      <4>. PICK s : s = Spot(k)'
        OBVIOUS
      <4>1. (Met(o, Spot(k), i)' <=> Met(o, s, i)') /\ LeadsTo(Spot(k), i)' = LeadsTo(s, i)
        BY <1>1 DEF Met, LeadsTo
      <4>2. k \in 1..n /\ k < n /\ k \in 1..n - 1 /\ s = Spot(k) /\ i \in 1..stack[k].next - 1
        BY <1>3
      <4>3. Met(o, s, i) \/ LeadsTo(s, i) = Spot(k + 1)
        BY <1>3, <3>1, <4>2 DEF InHand
      <4>4. CASE Met(o, s, i)
        BY <3>2, <4>1, <4>4
      <4>5. CASE LeadsTo(s, i) = Spot(k + 1) /\ k + 1 < n
        <5>1. k + 1 \in 1..n - 1 /\ k < n - 1
          BY <1>3, <4>2, <4>5
        <5>2. Spot(k + 1)' = Spot(k + 1)
          BY <1>3, <5>1
        <5>. QED  BY <1>3, <4>1, <4>5, <5>1, <5>2
      <4>6. CASE LeadsTo(s, i) = Spot(k + 1) /\ k + 1 = n
        <5>1. LeadsTo(s, i)' \in WalkedOut(o)'
          BY <1>1, <1>10, <4>6, SpotsKept
        <5>. QED  BY <4>1, <5>1 DEF Met
      <4>. QED  BY <1>3, <4>2, <4>3, <4>4, <4>5, <4>6
    <3>. QED  BY <2>2, <3>4, <3>5, <3>6
  <2>. QED  BY <2>1, <2>2
<1>. QED  BY <1>5, <1>6, <1>7, <1>8, <1>12 DEF WalkInv

-----------------------------------------------------------------------------
(* The include graph and its origins.                                      *)

Below(p) == Reached({p}, [q \in Documents |-> Targets(q)])
Outermost == {p \in Documents : \A q \in Documents : p \in Below(q) => q \in Below(p)}
Group(p) == {q \in Below(p) : p \in Below(q)}
Eligible == {p \in Documents : record[p] = "parsed" \/ References(record, p) # <<>>}

LEMMA BelowFacts ==
    ASSUME NEW p \in Documents
    PROVE  /\ p \in Below(p) /\ Below(p) \subseteq Documents /\ IsFiniteSet(Below(p))
           /\ \A q \in Below(p) : Targets(q) \subseteq Below(p)
           /\ \A Q : p \in Q /\ (\A q \in Q \cap Documents : Targets(q) \subseteq Q) => Below(p) \subseteq Q
<1>. DEFINE next == [q \in Documents |-> Targets(q)]
<1>1. DOMAIN next = Documents /\ \A q \in Documents : next[q] = Targets(q) /\ next[q] \subseteq Documents
  BY DEF Targets
<1>2. IsFiniteSet(Documents)
  BY PathsAreNumbers, FS_Subset DEF Documents
<1>. HIDE DEF next
<1>3. /\ {p} \subseteq Reached({p}, next) /\ Reached({p}, next) \subseteq DOMAIN next
      /\ \A x \in Reached({p}, next) : next[x] \subseteq Reached({p}, next)
      /\ \A Q : {p} \subseteq Q /\ (\A x \in Q \cap DOMAIN next : next[x] \subseteq Q) => Reached({p}, next) \subseteq Q
  BY <1>1, <1>2, ReachedClosure
<1>4. Below(p) = Reached({p}, next)
  BY DEF Below, next
<1>5. ASSUME NEW Q, p \in Q, \A q \in Q \cap Documents : Targets(q) \subseteq Q PROVE Below(p) \subseteq Q
  <2>1. {p} \subseteq Q /\ \A x \in Q \cap DOMAIN next : next[x] \subseteq Q
    BY <1>1, <1>5
  <2>2. Reached({p}, next) \subseteq Q
    BY <1>3, <2>1
  <2>. QED  BY <1>4, <2>2
<1>6. IsFiniteSet(Below(p))
  <2>1. Below(p) \subseteq Documents
    BY <1>1, <1>3, <1>4
  <2>. QED  BY <1>2, <2>1, FS_Subset
<1>7. p \in Below(p) /\ Below(p) \subseteq Documents /\ \A q \in Below(p) : Targets(q) \subseteq Below(p)
  BY <1>1, <1>3, <1>4
<1>8. \A Q : p \in Q /\ (\A q \in Q \cap Documents : Targets(q) \subseteq Q) => Below(p) \subseteq Q
  BY <1>5
<1>. QED  BY <1>6, <1>7, <1>8

LEMMA BelowIsTransitive ==
    ASSUME NEW p \in Documents, NEW q \in Below(p)
    PROVE  Below(q) \subseteq Below(p)
BY BelowFacts

\* What lies below a document and is not itself lies below one of its targets.
LEMMA FirstStep ==
    ASSUME NEW p \in Documents, NEW q \in Below(p), q # p
    PROVE  \E t \in Targets(p) : t \in Documents /\ q \in Below(t)
<1>. DEFINE Q == {p} \cup UNION {Below(t) : t \in Targets(p)}
<1>1. Targets(p) \subseteq Documents
  BY DEF Targets
<1>2. ASSUME NEW x \in Q \cap Documents PROVE Targets(x) \subseteq Q
  <2>1. CASE x = p
    BY <1>1, <2>1, BelowFacts
  <2>2. CASE x # p
    <3>1. PICK t \in Targets(p) : x \in Below(t)
      BY <1>2, <2>2
    <3>. QED  BY <1>1, <3>1, BelowFacts
  <2>. QED  BY <2>1, <2>2
<1>. HIDE DEF Q
<1>3. p \in Q
  BY DEF Q
<1>4. Below(p) \subseteq Q
  BY <1>2, <1>3, BelowFacts
<1>. QED  BY <1>1, <1>4 DEF Q

LEMMA SomeOutermost ==
    ASSUME NEW p \in Documents
    PROVE  \E z \in Outermost : p \in Below(z)
<1>. DEFINE Z == {z \in Documents : p \in Below(z)}
            S == {Cardinality(Below(z)) : z \in Z}
            n == Cardinality(Documents)
<1>1. IsFiniteSet(Documents) /\ n \in Nat
  BY PathsAreNumbers, FS_Subset, FS_CardinalityType DEF Documents
<1>2. \A z \in Z : Cardinality(Below(z)) \in 0..n
  <2>. TAKE z \in Z
  <2>1. Below(z) \subseteq Documents
    BY BelowFacts
  <2>2. Cardinality(Below(z)) \in Nat /\ Cardinality(Below(z)) <= n
    BY <1>1, <2>1, FS_Subset, FS_CardinalityType
  <2>. QED  BY <1>1, <2>2
<1>3. S \subseteq 0..n /\ S # {}
  <2>1. p \in Z
    BY BelowFacts
  <2>. QED  BY <1>2, <2>1
<1>. HIDE DEF n
<1>4. Max(S) \in S /\ \A k \in S : k <= Max(S)
  BY <1>1, <1>3, Greatest
<1>5. PICK z \in Z : \A y \in Z : Cardinality(Below(y)) <= Cardinality(Below(z))
  BY <1>4
<1>6. ASSUME NEW q \in Documents, z \in Below(q) PROVE q \in Below(z)
  <2>1. Below(z) \subseteq Below(q) /\ q \in Below(q) /\ IsFiniteSet(Below(q)) /\ IsFiniteSet(Below(z))
    BY <1>6, BelowFacts, BelowIsTransitive
  <2>2. q \in Z
    BY <2>1
  <2>3. Cardinality(Below(q)) <= Cardinality(Below(z)) /\ Cardinality(Below(z)) <= Cardinality(Below(q))
    BY <1>5, <2>1, <2>2, FS_Subset
  <2>4. Cardinality(Below(q)) \in Nat /\ Cardinality(Below(z)) \in Nat
    BY <2>1, FS_CardinalityType
  <2>5. Cardinality(Below(q)) = Cardinality(Below(z))
    BY <2>3, <2>4
  <2>6. Below(z) = Below(q)
    BY <2>1, <2>5, FS_Subset
  <2>. QED  BY <2>1, <2>6
<1>. QED  BY <1>6 DEF Outermost

LEMMA OriginsAreEligible ==
    /\ Origins \subseteq Eligible
    /\ \A z \in Outermost \cap Eligible : \E o \in Origins : o \in Outermost /\ Below(z) \subseteq Below(o)
<1>1. Origins = {Min(Group(p) \cap Eligible) : p \in Outermost \cap Eligible}
  <2>. DEFINE below == [p \in Documents |-> Below(p)]
              group(p) == {q \in below[p] : p \in below[q]}
              outermost == {p \in Documents : \A q \in Documents : p \in below[q] => q \in below[p]}
  <2>1. Origins = {Min(group(p) \cap Eligible) : p \in outermost \cap Eligible}
    BY DEF Origins, Below, Eligible
  <2>2. \A p \in Documents : below[p] = Below(p) /\ Below(p) \subseteq Documents
    BY BelowFacts
  <2>3. outermost = Outermost /\ Outermost \subseteq Documents
    BY <2>2 DEF Outermost
  <2>4. \A p \in Documents : group(p) = Group(p)
    BY <2>2 DEF Group
  <2>. QED  BY <2>1, <2>3, <2>4
<1>2. ASSUME NEW z \in Outermost \cap Eligible
      PROVE  \E o : /\ o = Min(Group(z) \cap Eligible) /\ o \in Group(z) \cap Eligible
                    /\ o \in Outermost /\ Below(z) \subseteq Below(o)
  <2>1. z \in Documents /\ z \in Group(z) /\ Group(z) \subseteq Documents /\ Documents \subseteq Nat
    BY BelowFacts, PathsAreNumbers DEF Outermost, Group, Documents
  <2>2. PICK o \in Group(z) \cap Eligible : o = Min(Group(z) \cap Eligible)
    BY <2>1, MinOf
  <2>3. o \in Documents /\ o \in Below(z) /\ z \in Below(o)
    BY <2>1, <2>2 DEF Group
  <2>4. Below(z) \subseteq Below(o)
    BY <2>3, BelowIsTransitive
  <2>5. ASSUME NEW q \in Documents, o \in Below(q) PROVE q \in Below(o)
    <3>1. z \in Below(q)
      BY <2>3, <2>5, BelowIsTransitive
    <3>2. q \in Below(z)
      BY <3>1 DEF Outermost
    <3>. QED  BY <2>4, <3>2
  <2>. QED  BY <2>2, <2>3, <2>4, <2>5 DEF Outermost
<1>3. Origins \subseteq Eligible
  BY <1>1, <1>2
<1>4. \A z \in Outermost \cap Eligible : \E o \in Origins : o \in Outermost /\ Below(z) \subseteq Below(o)
  <2>. TAKE z \in Outermost \cap Eligible
  <2>1. PICK o : o = Min(Group(z) \cap Eligible) /\ o \in Outermost /\ Below(z) \subseteq Below(o)
    BY <1>2
  <2>2. o \in Origins
    BY <1>1, <2>1
  <2>. QED  BY <2>1, <2>2
<1>. QED  BY <1>3, <1>4

-----------------------------------------------------------------------------
(* The walks stay while the origins are composed.                          *)

LEMMA BeginCompositionWalk ==
    ASSUME WalkInv, BeginComposition
    PROVE  WalkInv'
<1>1. /\ stage' = "compose" /\ pending' = Origins /\ tree' = tree /\ record' = record
      /\ stack' = stack /\ contexts' = contexts /\ references' = references
      /\ (stage = "follow" /\ stack = <<>> /\ pending = {} /\ cut' = cut) \/ (stage = "list" /\ cut' = TRUE)
  BY DEF BeginComposition
<1>2. stack = <<>> /\ Documents' = Documents /\ \A q : Walked(q)' = Walked(q)
  BY <1>1 DEF WalkInv, StackInv, Documents, HasDocument, Walked
<1>3. Origins \subseteq Paths
  BY OriginsAreEligible DEF Eligible, Documents
<1>4. ContextsInv' /\ NotedInv' /\ CleanInv'
  BY <1>1, WalkKept
<1>5. RecordInv'
  BY <1>1, <1>3 DEF WalkInv, RecordInv, SeedsInv, Fits, Read
<1>6. StackInv'
  BY <1>1, <1>2 DEF WalkInv, StackInv
<1>7. SeedsInv'
  BY <1>1, <1>2 DEF WalkInv, SeedsInv
<1>. QED  BY <1>4, <1>5, <1>6, <1>7 DEF WalkInv

LEMMA ComposeWalk ==
    ASSUME WalkInv, stage \in {"compose", "done"}, stage' \in {"compose", "done"}, pending' \subseteq pending,
           UNCHANGED <<tree, record, cut, contexts, references, stack>>
    PROVE  WalkInv'
<1>1. /\ tree' = tree /\ record' = record /\ cut' = cut /\ contexts' = contexts /\ references' = references
      /\ stack' = stack
  OBVIOUS
<1>2. stack = <<>> /\ Documents' = Documents /\ \A q : Walked(q)' = Walked(q)
  BY <1>1 DEF WalkInv, StackInv, Documents, HasDocument, Walked
<1>3. ContextsInv' /\ NotedInv' /\ CleanInv'
  BY <1>1, WalkKept
<1>4. RecordInv'
  BY <1>1 DEF WalkInv, RecordInv, Fits, Read
<1>5. StackInv'
  BY <1>1, <1>2 DEF WalkInv, StackInv
<1>6. SeedsInv'
  BY <1>1, <1>2 DEF WalkInv, SeedsInv
<1>. QED  BY <1>3, <1>4, <1>5, <1>6 DEF WalkInv

-----------------------------------------------------------------------------
(* What composition says of an origin.                                     *)

LEMMA LeadsAre ==
    ASSUME tree \in Trees, NEW s \in Spots
    PROVE  /\ Leads(s) = {LeadsTo(s, i) : i \in {j \in Refs(s) : LeadsTo(s, j)[1] # 0}}
           /\ Leads(s) \subseteq Spots
<1>. DEFINE refs == tree[s[1]].refs
            place(r) == <<r.target, IF s[2] = "constraint" \/ r.kind = "constraint"
                                    THEN "constraint" ELSE "requirement">>
<1>1. s[1] \in Paths
  BY DEF Spots
<1>2. refs \in Seq(Reference) /\ DOMAIN refs = Refs(s) /\ \A i \in DOMAIN refs : refs[i].target \in {0} \cup Paths
  BY <1>1, TreeTyped DEF Refs
<1>3. \A i : LeadsTo(s, i) = place(refs[i]) /\ LeadsTo(s, i)[1] = refs[i].target
  BY DEF LeadsTo
<1>4. Range(refs) = {refs[i] : i \in DOMAIN refs}
  BY DEF Range
<1>5. Leads(s) = {place(r) : r \in {q \in Range(refs) : q.target # 0}}
  BY DEF Leads
<1>6. \A i \in Refs(s) : LeadsTo(s, i)[1] # 0 => LeadsTo(s, i) \in Spots
  <2>. SUFFICES ASSUME NEW i \in Refs(s), LeadsTo(s, i)[1] # 0 PROVE LeadsTo(s, i) \in Spots
    OBVIOUS
  <2>1. LeadsTo(s, i)[1] \in Paths
    BY <1>2, <1>3
  <2>2. LeadsTo(s, i)[2] \in Roles /\ LeadsTo(s, i) = <<LeadsTo(s, i)[1], LeadsTo(s, i)[2]>>
    BY DEF LeadsTo, Roles
  <2>. QED  BY <2>1, <2>2 DEF Spots
<1>. HIDE DEF refs, place
<1>7. Leads(s) = {LeadsTo(s, i) : i \in {j \in Refs(s) : LeadsTo(s, j)[1] # 0}}
  BY <1>2, <1>3, <1>4, <1>5
<1>. QED  BY <1>6, <1>7

LEMMA ApplicableFacts ==
    ASSUME tree \in Trees, NEW o \in Paths
    PROVE  /\ <<o, SeedRole(o)>> \in Applicable(o) /\ Applicable(o) \subseteq Spots
           /\ \A s \in Applicable(o) : Leads(s) \subseteq Applicable(o)
           /\ \A Q : <<o, SeedRole(o)>> \in Q /\ (\A s \in Q \cap Spots : Leads(s) \subseteq Q) => Applicable(o) \subseteq Q
<1>. DEFINE next == [s \in Spots |-> Leads(s)]
            seed == <<o, SeedRole(o)>>
<1>1. DOMAIN next = Spots /\ \A s \in Spots : next[s] = Leads(s) /\ next[s] \subseteq Spots
  BY LeadsAre
<1>2. IsFiniteSet(Spots)
  <2>1. IsFiniteSet(Roles)
    <3>1. IsFiniteSet({"requirement"}) /\ IsFiniteSet({"constraint"})
      BY FS_Singleton
    <3>2. Roles = {"requirement"} \cup {"constraint"}
      BY DEF Roles
    <3>. QED  BY <3>1, <3>2, FS_Union
  <2>. QED  BY <2>1, PathsAreNumbers, FS_Product DEF Spots
<1>3. seed \in Spots
  BY DEF Spots, SeedRole, Roles
<1>4. Applicable(o) = Reached({seed}, next)
  BY DEF Applicable, SeedRole, Spots, Roles
<1>. HIDE DEF next, seed
<1>5. /\ {seed} \subseteq Reached({seed}, next) /\ Reached({seed}, next) \subseteq DOMAIN next
      /\ \A x \in Reached({seed}, next) : next[x] \subseteq Reached({seed}, next)
      /\ \A Q : {seed} \subseteq Q /\ (\A x \in Q \cap DOMAIN next : next[x] \subseteq Q)
                  => Reached({seed}, next) \subseteq Q
  BY <1>1, <1>2, <1>3, ReachedClosure
<1>6. seed \in Applicable(o) /\ Applicable(o) \subseteq Spots /\ \A s \in Applicable(o) : Leads(s) \subseteq Applicable(o)
  <2>1. seed \in Applicable(o) /\ Applicable(o) \subseteq Spots
    <3>1. {seed} \subseteq Applicable(o) /\ Applicable(o) \subseteq DOMAIN next
      BY <1>4, <1>5
    <3>2. DOMAIN next = Spots
      BY <1>1
    <3>. QED  BY <3>1, <3>2
  <2>2. \A s \in Applicable(o) : next[s] = Leads(s) /\ next[s] \subseteq Applicable(o)
    <3>1. \A s \in Applicable(o) : next[s] \subseteq Applicable(o)
      BY <1>4, <1>5
    <3>. QED  BY <1>1, <2>1, <3>1
  <2>. QED  BY <2>1, <2>2
<1>7. ASSUME NEW Q, seed \in Q, \A s \in Q \cap Spots : Leads(s) \subseteq Q PROVE Applicable(o) \subseteq Q
  <2>1. {seed} \subseteq Q /\ \A x \in Q \cap DOMAIN next : next[x] \subseteq Q
    BY <1>1, <1>7
  <2>2. Reached({seed}, next) \subseteq Q
    BY <1>5, <2>1
  <2>. QED  BY <1>4, <2>2
<1>8. \A Q : seed \in Q /\ (\A s \in Q \cap Spots : Leads(s) \subseteq Q) => Applicable(o) \subseteq Q
  BY <1>7
<1>. QED  BY <1>6, <1>8 DEF seed

\* The walk of an origin that composition decides is the text of the tree.
LEMMA WalkIsApplicable ==
    ASSUME WalkInv, stack = <<>>, NEW o \in Paths, Walked(o) # {}, ~Undecided(o)
    PROVE  /\ Walked(o) = Applicable(o) /\ Visited(o) = Walked(o)
           /\ \A s \in Walked(o) : s[1] \in Paths /\ record[s[1]] = "parsed"
<1>1. tree \in Trees /\ <<o, SeedRole(o)>> \in Walked(o) /\ Generated(o) /\ \A s \in Walked(o) : s[1] \in Documents
  BY DEF WalkInv, RecordInv, ContextsInv
<1>2. \A r \in references : r.origin = o => r.disposition = "parsed"
  BY DEF Undecided
<1>3. LeftWhole(o)
  BY <1>2 DEF WalkInv, CleanInv, Clean
<1>4. WalkedOut(o) = Walked(o)
  BY DEF WalkedOut, OnStack
<1>5. \A s \in Walked(o) : \A i \in Refs(s) : LeadsTo(s, i) \in Walked(o)
  BY <1>2, <1>3, <1>4 DEF LeftWhole, Met
<1>6. Applicable(o) \subseteq Walked(o)
  <2>1. ASSUME NEW s \in Walked(o) \cap Spots PROVE Leads(s) \subseteq Walked(o)
    BY <1>1, <1>5, LeadsAre
  <2>. QED  BY <1>1, <2>1, ApplicableFacts
<1>7. Walked(o) \subseteq Applicable(o)
  <2>1. Applicable(o) \subseteq Spots /\ <<o, SeedRole(o)>> \in Applicable(o)
    BY <1>1, ApplicableFacts
  <2>2. ASSUME NEW s \in Applicable(o) \cap Walked(o), NEW i \in Refs(s), LeadsTo(s, i) \in Walked(o)
        PROVE  LeadsTo(s, i) \in Applicable(o)
    <3>1. s \in Spots /\ LeadsTo(s, i)[1] # 0
      BY <2>2, PathsAreNumbers DEF Walked, Spots
    <3>2. LeadsTo(s, i) \in Leads(s)
      BY <1>1, <3>1, LeadsAre
    <3>. QED  BY <1>1, <3>2, ApplicableFacts
  <2>. QED  BY <1>1, <2>1, <2>2 DEF Generated
<1>8. Visited(o) = Walked(o)
  <2>. DEFINE walked == {<<c[2], c[3]>> : c \in {x \in contexts : x[1] = o}}
  <2>1. walked = Walked(o)
    <3>1. contexts \subseteq Paths \X Paths \X Roles
      BY DEF WalkInv, ContextsInv
    <3>2. ASSUME NEW c \in contexts, c[1] = o PROVE <<c[2], c[3]>> \in Walked(o)
      <4>1. c = <<c[1], c[2], c[3]>> /\ c[2] \in Paths /\ c[3] \in Roles
        BY <3>1
      <4>2. <<c[2], c[3]>> \in Spots /\ <<o, c[2], c[3]>> \in contexts
        BY <3>2, <4>1 DEF Spots
      <4>. QED  BY <4>2 DEF Walked
    <3>3. ASSUME NEW s \in Walked(o) PROVE s \in walked
      <4>1. s = <<s[1], s[2]>> /\ <<o, s[1], s[2]>> \in contexts
        BY DEF Walked, Spots
      <4>2. PICK c \in contexts : c = <<o, s[1], s[2]>>
        BY <4>1
      <4>3. c[1] = o /\ c[2] = s[1] /\ c[3] = s[2]
        BY <4>2
      <4>. QED  BY <4>1, <4>3
    <3>. QED  BY <3>2, <3>3
  <2>. QED  BY <2>1 DEF Visited
<1>9. \A s \in Walked(o) : record[s[1]] = "parsed" /\ s[1] \in Paths
  BY <1>1, <1>8 DEF Undecided, Documents
<1>. QED  BY <1>6, <1>7, <1>8, <1>9

\* The lines of an origin that is decided, in one of its roles.
LEMMA DeclarationsAre ==
    ASSUME WalkInv, stack = <<>>, NEW o \in Paths, Walked(o) # {}, ~Undecided(o), NEW role
    PROVE  /\ \A d \in Declarations(o, role) :
                \E s \in Applicable(o) : s[2] = role /\ d.path = s[1] /\ d.line \in tree[s[1]].lines
           /\ \A s \in Applicable(o) : s[2] = role =>
                \A l \in tree[s[1]].lines : \E d \in Declarations(o, role) : d.path = s[1] /\ d.line = l
<1>1. Visited(o) = Applicable(o) /\ \A s \in Applicable(o) : s[1] \in Paths /\ record[s[1]] = "parsed"
  BY WalkIsApplicable
<1>2. \A s \in Applicable(o) : Lines(record, s[1]) = tree[s[1]].lines
  BY <1>1 DEF Lines
<1>3. Declarations(o, role) =
        UNION {[path : {v[1]}, line : Lines(record, v[1])] : v \in {x \in Applicable(o) : x[2] = role}}
  BY <1>1 DEF Declarations
<1>4. ASSUME NEW d \in Declarations(o, role)
      PROVE  \E s \in Applicable(o) : s[2] = role /\ d.path = s[1] /\ d.line \in tree[s[1]].lines
  <2>1. PICK v \in Applicable(o) : v[2] = role /\ d \in [path : {v[1]}, line : Lines(record, v[1])]
    BY <1>3
  <2>. QED  BY <1>2, <2>1
<1>5. ASSUME NEW s \in Applicable(o), s[2] = role, NEW l \in tree[s[1]].lines
      PROVE  \E d \in Declarations(o, role) : d.path = s[1] /\ d.line = l
  <2>1. [path |-> s[1], line |-> l] \in [path : {s[1]}, line : Lines(record, s[1])]
    BY <1>2
  <2>2. [path |-> s[1], line |-> l] \in Declarations(o, role)
    BY <1>3, <1>5, <2>1
  <2>. QED  BY <2>2
<1>. QED  BY <1>4, <1>5

LEMMA LineIsDeclared ==
    ASSUME WalkInv, stack = <<>>, NEW o \in Paths, Walked(o) # {}, ~Undecided(o),
           NEW s \in Applicable(o), NEW l \in tree[s[1]].lines
    PROVE  \E d \in Declarations(o, s[2]) : d.line = l
BY DeclarationsAre

\* What bears on a selected version, and the version.
LEMMA EvidenceAre ==
    ASSUME WalkInv, stack = <<>>, NEW o \in Paths, Walked(o) # {}, ~Undecided(o), NEW name, NEW marker
    PROVE  /\ \A k \in Evidence(o, name, marker) :
                /\ k.name = name /\ k.marker \in {marker, "any"} /\ k.exact \in Nat
                /\ \E s \in Applicable(o) : k \in tree[s[1]].lines
           /\ \A s \in Applicable(o) : \A k \in tree[s[1]].lines :
                k.name = name /\ k.marker \in {marker, "any"} => k \in Evidence(o, name, marker)
           /\ \A v \in Compatible(o, name, marker) :
                /\ v \in Nat \ {0} /\ \A k \in Evidence(o, name, marker) : v \in k.range
                /\ \E k \in Evidence(o, name, marker) : k.exact = v
<1>1. tree \in Trees /\ Applicable(o) \subseteq Spots
  BY ApplicableFacts DEF WalkInv, RecordInv
<1>2. \A s \in Applicable(o) : s[2] \in {"requirement", "constraint"} /\ s[1] \in Paths
  BY <1>1 DEF Spots, Roles
<1>3. ASSUME NEW k \in Evidence(o, name, marker)
      PROVE  /\ k.name = name /\ k.marker \in {marker, "any"} /\ k.exact \in Nat
             /\ \E s \in Applicable(o) : k \in tree[s[1]].lines
  <2>1. PICK d \in Declarations(o, "requirement") \cup Declarations(o, "constraint") :
          d.line = k /\ k.name = name /\ k.marker \in {marker, "any"}
    BY DEF Evidence
  <2>2. PICK s \in Applicable(o) : k \in tree[s[1]].lines
    BY <2>1, DeclarationsAre
  <2>3. k.exact \in Nat
    BY <1>1, <1>2, <2>2, TreeTyped
  <2>. QED  BY <2>1, <2>2, <2>3
<1>4. ASSUME NEW s \in Applicable(o), NEW k \in tree[s[1]].lines, k.name = name, k.marker \in {marker, "any"}
      PROVE  k \in Evidence(o, name, marker)
  <2>1. PICK d \in Declarations(o, s[2]) : d.line = k
    BY LineIsDeclared
  <2>2. d \in Declarations(o, "requirement") \cup Declarations(o, "constraint")
    BY <1>2, <2>1
  <2>. QED  BY <1>4, <2>1, <2>2 DEF Evidence
<1>5. ASSUME NEW v \in Compatible(o, name, marker)
      PROVE  /\ v \in Nat \ {0} /\ \A k \in Evidence(o, name, marker) : v \in k.range
             /\ \E k \in Evidence(o, name, marker) : k.exact = v
  <2>1. PICK k \in Evidence(o, name, marker) :
          v = k.exact /\ k.exact # 0 /\ \A other \in Evidence(o, name, marker) : k.exact \in other.range
    BY DEF Compatible
  <2>. QED  BY <1>3, <2>1
<1>. QED  BY <1>3, <1>4, <1>5

LEMMA SelectedIsJustified ==
    ASSUME WalkInv, stack = <<>>, NEW o \in Paths, Walked(o) # {}, NEW d \in Declarations(o, "requirement"),
           Selected(o, d.line) # 0, NEW x, x = [origin |-> o, path |-> d.path, line |-> d.line,
                                                version |-> Selected(o, d.line)]
    PROVE  Justified(x)
<1>. DEFINE v == Selected(o, d.line)
            name == d.line.name
            marker == d.line.marker
<1>1. ~Undecided(o) /\ Compatible(o, name, marker) # {}
  BY DEF Selected
<1>2. x.origin = o /\ x.path = d.path /\ x.line = d.line /\ x.version = v
  OBVIOUS
<1>3. PICK here \in Applicable(o) : here[2] = "requirement" /\ d.path = here[1] /\ d.line \in tree[here[1]].lines
  BY <1>1, DeclarationsAre
<1>4. v \in Compatible(o, name, marker)
  <2>1. v = IF d.line.exact \in Compatible(o, name, marker) THEN d.line.exact ELSE Min(Compatible(o, name, marker))
    BY <1>1 DEF Selected
  <2>2. Compatible(o, name, marker) \subseteq Nat
    BY <1>1, EvidenceAre
  <2>3. Min(Compatible(o, name, marker)) \in Compatible(o, name, marker)
    BY <1>1, <2>2, MinOf
  <2>. QED  BY <2>1, <2>3
<1>5. Applicable(o) \subseteq Spots /\ tree \in Trees
  BY ApplicableFacts DEF WalkInv, RecordInv
<1>. HIDE DEF v
<1>6. PICK pin \in Evidence(o, name, marker) : pin.exact = v /\ v \in Nat \ {0}
  BY <1>1, <1>4, EvidenceAre
<1>7. \A l : l \in Bearing(x) <=> /\ \E s \in Applicable(o) : l \in tree[s[1]].lines
                                  /\ l.name = name /\ ~Disjoint(l.marker, marker)
  BY <1>2 DEF Bearing
<1>8. \A m, n : n \in {m, "any"} => ~Disjoint(n, m)
  <2>. SUFFICES ASSUME NEW m, NEW n, n \in {m, "any"}, {n, m} = {"m", "not-m"} PROVE FALSE
    BY DEF Disjoint
  <2>1. n \in {"m", "not-m"} /\ n # "any"
    OBVIOUS
  <2>2. {n, m} = {n}
    BY <2>1
  <2>. QED  BY <2>2
<1>9. Pinned(x)
  <2>1. pin \in Bearing(x)
    <3>1. pin.name = name /\ pin.marker \in {marker, "any"} /\ \E s \in Applicable(o) : pin \in tree[s[1]].lines
      BY <1>1, <1>6, EvidenceAre
    <3>. QED  BY <1>7, <1>8, <3>1
  <2>2. <<x.path, "requirement">> \in Applicable(x.origin)
    <3>1. here = <<here[1], here[2]>>
      BY <1>5 DEF Spots
    <3>. QED  BY <1>2, <1>3, <3>1
  <2>. QED  BY <1>2, <1>6, <2>1, <2>2 DEF Pinned
<1>10. ASSUME NEW l \in Bearing(x)
       PROVE  \/ v \in l.range
              \/ /\ marker = "any" /\ l.marker # "any"
                 /\ \E k \in Bearing(x) : k.exact # 0 /\ k.exact \in l.range \cap d.line.range
  <2>1. PICK s \in Applicable(o) : l \in tree[s[1]].lines /\ l.name = name /\ ~Disjoint(l.marker, marker)
    BY <1>7
  <2>2. CASE l.marker \in {marker, "any"}
    <3>1. l \in Evidence(o, name, marker)
      BY <1>1, <2>1, <2>2, EvidenceAre
    <3>. QED  BY <1>1, <1>4, <3>1, EvidenceAre
  <2>3. CASE l.marker \notin {marker, "any"}
    <3>1. PICK e \in Declarations(o, s[2]) : e.line = l
      BY <1>1, <2>1, LineIsDeclared
    <3>2. s[2] \in {"requirement", "constraint"}
      BY <1>5 DEF Spots, Roles
    <3>3. s[2] # "constraint"
      <4>. SUFFICES ASSUME s[2] = "constraint" PROVE FALSE
        OBVIOUS
      <4>1. ~Disjoint(marker, l.marker)
        BY <2>1 DEF Disjoint
      <4>. QED  BY <1>1, <2>1, <2>3, <3>1, <4>1 DEF Undecided
    <3>4. e \in Declarations(o, "requirement")
      BY <3>1, <3>2, <3>3
    <3>5. CASE marker # "any"
      <4>1. ~Disjoint(marker, l.marker) /\ "any" \notin {marker, l.marker}
        BY <2>1, <2>3, <3>5 DEF Disjoint
      <4>2. Ranges(o, name, marker) = Ranges(o, name, l.marker)
        BY <1>1, <2>1, <2>3, <3>1, <3>4, <4>1 DEF Undecided
      <4>3. l.range \in Ranges(o, name, l.marker)
        BY <2>1, <3>1, <3>4 DEF Ranges
      <4>4. PICK c \in Declarations(o, "requirement") :
              c.line.name = name /\ c.line.marker = marker /\ c.line.range = l.range
        BY <4>2, <4>3 DEF Ranges
      <4>5. c.line \in Evidence(o, name, marker)
        BY <4>4 DEF Evidence
      <4>. QED  BY <1>1, <1>4, <4>4, <4>5, EvidenceAre
    <3>6. CASE marker = "any"
      <4>1. \A k \in Evidence(o, name, marker) : k \in Evidence(o, name, l.marker)
        BY <3>6 DEF Evidence
      <4>2. Compatible(o, name, l.marker) # {}
        <5>1. pin \in Evidence(o, name, l.marker) /\ pin.exact # 0
          BY <1>6, <4>1
        <5>2. e.line.name = name /\ e.line.marker = l.marker
          BY <2>1, <3>1
        <5>. QED  BY <1>1, <3>4, <5>1, <5>2 DEF Undecided
      <4>3. PICK w \in Compatible(o, name, l.marker) : TRUE
        BY <4>2
      <4>4. PICK k \in Evidence(o, name, l.marker) :
              k.exact = w /\ w # 0 /\ \A other \in Evidence(o, name, l.marker) : w \in other.range
        BY <1>1, <4>3, EvidenceAre
      <4>5. l \in Evidence(o, name, l.marker) /\ d.line \in Evidence(o, name, l.marker)
        BY <2>1, <3>1, <3>4, <3>6 DEF Evidence
      <4>6. k \in Bearing(x)
        <5>1. ~Disjoint(k.marker, "any")
          <6>. SUFFICES {k.marker, "any"} # {"m", "not-m"}
            BY DEF Disjoint
          <6>1. "any" \in {k.marker, "any"} /\ "any" \notin {"m", "not-m"}
            OBVIOUS
          <6>. QED  BY <6>1
        <5>2. k.name = name /\ \E y \in Applicable(o) : k \in tree[y[1]].lines
          <6>1. \A other \in Evidence(o, name, l.marker) :
                   other.name = name /\ \E y \in Applicable(o) : other \in tree[y[1]].lines
            BY <1>1, EvidenceAre
          <6>. QED  BY <4>4, <6>1
        <5>. QED  BY <1>7, <3>6, <5>1, <5>2
      <4>. QED  BY <2>3, <3>6, <4>4, <4>5, <4>6
    <3>. QED  BY <3>5, <3>6
  <2>. QED  BY <2>2, <2>3
<1>. QED  BY <1>2, <1>9, <1>10 DEF Justified

-----------------------------------------------------------------------------
(* The composition keeps its invariant.                                    *)

\* What composition says of an origin is a matter of what the walks left behind.
LEMMA SaidOfOrigins ==
    ASSUME UNCHANGED <<tree, record, contexts, references>>
    PROVE  /\ Origins' = Origins /\ Documents' = Documents
           /\ \A o : Covers(o)' = Covers(o) /\ Visited(o)' = Visited(o) /\ (Undecided(o)' <=> Undecided(o))
           /\ \A o, role : Declarations(o, role)' = Declarations(o, role)
           /\ \A x : (Justified(x)' <=> Justified(x))
<1>1. tree' = tree /\ record' = record /\ contexts' = contexts /\ references' = references
  OBVIOUS
<1>3. Documents' = Documents
  BY <1>1 DEF Documents, HasDocument
<1>4. \A o : Visited(o)' = Visited(o)
  BY <1>1 DEF Visited
<1>5. \A o, role : Declarations(o, role)' = Declarations(o, role)
  BY <1>1 DEF Visited, Declarations, Lines
<1>6. \A o : Covers(o)' = Covers(o)
  BY <1>1 DEF Visited, Covers
<1>7. Origins' = Origins
  BY <1>1 DEF Origins, Documents, Targets, References, HasDocument
<1>8. \A o : (Undecided(o)' <=> Undecided(o))
  BY <1>1 DEF Undecided, Visited, Declarations, Lines, Ranges, Compatible, Evidence
<1>9. \A x : (Justified(x)' <=> Justified(x))
  BY <1>1 DEF Justified, Pinned, Bearing, Applicable, Leads
<1>. QED  BY <1>3, <1>4, <1>5, <1>6, <1>7, <1>8, <1>9

LEMMA BeforeComposition ==
    ASSUME ComposeInv, stage \in {"list", "follow"},
           stage' \in {"list", "follow"} \/ (stage' = "compose" /\ pending' = Origins'),
           UNCHANGED <<claimed, occurrences, inventory>>
    PROVE  ComposeInv'
<1>1. occurrences' = {} /\ claimed' = {} /\ inventory' = "none"
  BY DEF ComposeInv
<1>2. SelectionsJustified'
  BY <1>1 DEF SelectionsJustified
<1>. QED  BY <1>1, <1>2 DEF ComposeInv

LEMMA ComposeStep ==
    ASSUME WalkInv, ComposeInv, NEW o \in Paths, Compose(o)
    PROVE  ComposeInv'
<1>1. /\ stage = "compose" /\ stage' = "compose" /\ o = Min(pending) /\ pending # {} /\ pending' = pending \ {o}
      /\ UNCHANGED <<tree, record, contexts, references>> /\ inventory' = inventory /\ inventory = "none"
  BY DEF Compose, ComposeInv
<1>2. o \in pending /\ pending \subseteq Origins /\ stack = <<>>
  BY <1>1, MinOf, PathsAreNumbers DEF WalkInv, RecordInv, StackInv, ComposeInv
<1>. DEFINE selected == {[origin |-> o, path |-> d.path, line |-> d.line, version |-> Selected(o, d.line)] :
                            d \in Declarations(o, "requirement")}
<1>3. \/ o \in claimed /\ UNCHANGED <<claimed, refused, occurrences>>
      \/ /\ o \notin claimed
         /\ claimed' = claimed \cup {v[1] : v \in Visited(o)} \cup
                         {r.target : r \in {x \in references : x.origin = o /\ x.target \in Documents}}
         /\ occurrences' = occurrences \cup selected
         /\ refused' = (refused \/ Undecided(o))
  BY DEF Compose
<1>. HIDE DEF selected
<1>4. occurrences \subseteq occurrences' /\ (refused => refused')
  <2>1. occurrences' = occurrences \/ occurrences' = occurrences \cup selected
    BY <1>3
  <2>2. refused' = refused \/ refused' = (refused \/ Undecided(o))
    BY <1>3, Zenon
  <2>3. refused => refused'
    BY <2>2
  <2>. QED  BY <2>1, <2>3
<1>5. \A q : Composed(q) => Composed(q)'
  BY <1>1, <1>4, SaidOfOrigins DEF Composed
<1>6. o \notin claimed => Composed(o)'
  <2>. SUFFICES ASSUME o \notin claimed PROVE Composed(o)'
    OBVIOUS
  <2>1. Undecided(o)' => refused'
    BY <1>1, <1>3, SaidOfOrigins
  <2>2. \A d \in Declarations(o, "requirement") : \E x \in occurrences' : x.path = d.path /\ x.line = d.line
    <3>. TAKE d \in Declarations(o, "requirement")
    <3>. DEFINE x == [origin |-> o, path |-> d.path, line |-> d.line, version |-> Selected(o, d.line)]
    <3>1. x \in selected /\ x.path = d.path /\ x.line = d.line
      BY DEF selected
    <3>. HIDE DEF x
    <3>. QED  BY <1>3, <3>1
  <2>. QED  BY <1>1, <2>1, <2>2, SaidOfOrigins DEF Composed
<1>7. SelectionsJustified'
  <2>. SUFFICES ASSUME NEW x \in occurrences', x.version # 0, \E c \in contexts : c[1] = x.origin
                PROVE  Justified(x)
    BY <1>1, SaidOfOrigins DEF SelectionsJustified
  <2>1. CASE x \in occurrences
    BY <2>1 DEF ComposeInv, SelectionsJustified
  <2>2. CASE x \in selected
    <3>1. PICK d \in Declarations(o, "requirement") :
            x = [origin |-> o, path |-> d.path, line |-> d.line, version |-> Selected(o, d.line)]
      BY <2>2 DEF selected
    <3>2. Walked(o) # {}
      <4>1. PICK c \in contexts : c[1] = o
        BY <3>1
      <4>2. c = <<o, c[2], c[3]>> /\ c[2] \in Paths /\ c[3] \in Roles
        BY <4>1 DEF WalkInv, ContextsInv
      <4>3. <<c[2], c[3]>> \in Walked(o)
        BY <4>2 DEF Walked, Spots
      <4>. QED  BY <4>3
    <3>. QED  BY <1>2, <3>1, <3>2, SelectedIsJustified
  <2>. QED  BY <1>3, <2>1, <2>2
<1>8. ASSUME NEW q \in Origins \ pending' PROVE q \in claimed' \/ Composed(q)'
  <2>1. CASE q = o
    BY <1>3, <1>6, <2>1
  <2>2. CASE q # o
    <3>1. q \in claimed \/ Composed(q)
      BY <1>1, <1>8, <2>2 DEF ComposeInv
    <3>2. claimed \subseteq claimed'
      BY <1>3
    <3>. QED  BY <1>5, <3>1, <3>2
  <2>. QED  BY <2>1, <2>2
<1>9. ASSUME NEW p \in claimed'
      PROVE  \E q \in Origins \ pending' : Composed(q)' /\ p \in Covers(q)
  <2>1. CASE p \in claimed
    <3>1. PICK q \in Origins \ pending : Composed(q) /\ p \in Covers(q)
      BY <1>1, <2>1 DEF ComposeInv
    <3>. QED  BY <1>1, <1>5, <3>1
  <2>2. CASE p \notin claimed
    <3>1. o \notin claimed /\ p \in Covers(o)
      BY <1>3, <2>2 DEF Covers
    <3>. QED  BY <1>1, <1>2, <1>6, <3>1
  <2>. QED  BY <2>1, <2>2
<1>10. claimed' \subseteq UNION {Covers(q)' : q \in {x \in Origins' \ pending' : Composed(x)'}}
  BY <1>1, <1>9, SaidOfOrigins
<1>11. pending' \subseteq Origins' /\ \A q \in Origins' \ pending' : q \in claimed' \/ Composed(q)'
  BY <1>1, <1>2, <1>8, SaidOfOrigins
<1>. QED  BY <1>1, <1>7, <1>10, <1>11 DEF ComposeInv

LEMMA PublishStep ==
    ASSUME ComposeInv, Publish
    PROVE  ComposeInv'
<1>1. /\ stage = "compose" /\ stage' = "done" /\ pending = {} /\ pending' = {}
      /\ inventory' = IF Whole THEN "complete" ELSE "partial"
      /\ UNCHANGED <<tree, record, cut, contexts, references, claimed, unresolved, refused, occurrences>>
  BY DEF Publish
<1>2. Whole' <=> Whole
  BY <1>1 DEF Whole, Settled
<1>3. SelectionsJustified'
  BY <1>1, SaidOfOrigins DEF ComposeInv, SelectionsJustified
<1>4. \A q : Composed(q)' <=> Composed(q)
  BY <1>1, SaidOfOrigins DEF Composed
<1>5. /\ \A q \in Origins' \ pending' : q \in claimed' \/ Composed(q)'
      /\ claimed' \subseteq UNION {Covers(q)' : q \in {x \in Origins' \ pending' : Composed(x)'}}
  BY <1>1, <1>4, SaidOfOrigins DEF ComposeInv
<1>. QED  BY <1>1, <1>2, <1>3, <1>5 DEF ComposeInv

LEMMA CompositionInvHolds == CompositionSpec => []CompositionInv
<1>1. (\E t \in Trees, c \in Configs : CompositionInit(t, c)) => CompositionInv
  <2>. SUFFICES ASSUME NEW t \in Trees, NEW c \in Configs, CompositionInit(t, c) PROVE WalkInv /\ ComposeInv
    BY DEF CompositionInv
  <2>. USE DEF CompositionInit
  <2>1. RecordInv
    <3>1. pending = {p \in Paths : tree[p].kind # "absent"} /\ tree \in Trees /\ stage = "list"
          /\ record = [p \in Paths |-> "none"]
      OBVIOUS
    <3>2. \A p \in Paths : record[p] = "none" /\ Fits(p, record[p]) /\ (p \notin pending => Read(p))
      BY <3>1 DEF Fits, Read
    <3>. QED  BY <3>1, <3>2 DEF RecordInv, Dispositions
  <2>2. \A o : Walked(o) = {} /\ WalkedOut(o) = {}
    BY DEF Walked, WalkedOut
  <2>3. ContextsInv
    BY <2>2 DEF ContextsInv, Generated
  <2>4. StackInv /\ SeedsInv /\ NotedInv
    BY DEF StackInv, SeedsInv, NotedInv
  <2>5. CleanInv
    BY <2>2 DEF CleanInv, LeftWhole, NoTrap, InHand
  <2>6. ComposeInv
    BY DEF ComposeInv, SelectionsJustified
  <2>. QED  BY <2>1, <2>3, <2>4, <2>5, <2>6 DEF WalkInv
<1>2. CompositionInv /\ [CompositionNext]_compositionVars => CompositionInv'
  <2>. SUFFICES ASSUME CompositionInv, [CompositionNext]_compositionVars PROVE CompositionInv'
    OBVIOUS
  <2>1. CASE UNCHANGED compositionVars
    <3>1. /\ tree' = tree /\ record' = record /\ contexts' = contexts /\ references' = references
          /\ stage' = stage /\ pending' = pending /\ stack' = stack /\ inventory' = inventory
          /\ occurrences' = occurrences /\ claimed' = claimed /\ refused' = refused /\ cut' = cut
          /\ unresolved' = unresolved
      BY <2>1 DEF compositionVars
    <3>2. CASE stage = "done" /\ inventory = "failed" /\ occurrences = {}
      BY <3>1, <3>2 DEF CompositionInv
    <3>3. CASE WalkInv /\ ComposeInv
      <4>1. ContextsInv' /\ NotedInv' /\ CleanInv'
        BY <3>1, <3>3, WalkKept
      <4>2. Documents' = Documents /\ \A q : Walked(q)' = Walked(q)
        BY <3>1 DEF Documents, HasDocument, Walked
      <4>3. RecordInv'
        BY <3>1, <3>3 DEF WalkInv, RecordInv, Fits, Read
      <4>4. StackInv'
        BY <3>1, <3>3, <4>2 DEF WalkInv, StackInv, Origin, Spot
      <4>5. SeedsInv'
        BY <3>1, <3>3, <4>2 DEF WalkInv, SeedsInv
      <4>6. ComposeInv'
        <5>1. Whole' <=> Whole
          BY <3>1 DEF Whole, Settled
        <5>2. SelectionsJustified'
          BY <3>1, <3>3, SaidOfOrigins DEF ComposeInv, SelectionsJustified
        <5>3. \A q : Composed(q)' <=> Composed(q)
          BY <3>1, SaidOfOrigins DEF Composed
        <5>. QED  BY <3>1, <3>3, <5>1, <5>2, <5>3, SaidOfOrigins DEF ComposeInv
      <4>. QED  BY <4>1, <4>3, <4>4, <4>5, <4>6 DEF CompositionInv, WalkInv
    <3>. QED  BY <3>2, <3>3 DEF CompositionInv
  <2>2. CASE Refuse
    BY <2>2 DEF Refuse, CompositionInv
  <2>3. CASE CompositionNext /\ ~Refuse
    <3>1. stage # "done"
      <4>1. ReadNext \/ BeginWalks => stage # "done"
        BY DEF ReadNext, BeginWalks
      <4>2. Follow => stage # "done"
        BY DEF Follow
      <4>3. Return \/ BeginComposition \/ Publish => stage # "done"
        BY DEF Return, BeginComposition, Publish
      <4>4. \A p \in Paths : Visit(p) \/ Compose(p) => stage # "done"
        BY DEF Visit, Compose
      <4>. QED  BY <2>3, <4>1, <4>2, <4>3, <4>4 DEF CompositionNext
    <3>2. WalkInv /\ ComposeInv
      BY <3>1 DEF CompositionInv
    <3>3. CASE ReadNext
      BY <3>2, <3>3, ReadNextWalk, BeforeComposition DEF ReadNext, CompositionInv
    <3>4. CASE BeginWalks
      BY <3>2, <3>4, BeginWalksWalk, BeforeComposition DEF BeginWalks, CompositionInv
    <3>5. CASE Follow
      <4>1. stage = "follow" /\ stage' = stage /\ UNCHANGED <<claimed, occurrences, inventory>>
        BY <3>5 DEF Follow
      <4>. QED  BY <3>2, <3>5, <4>1, FollowWalk, BeforeComposition DEF CompositionInv
    <3>6. CASE Return
      <4>1. stage = "follow" /\ stage' = stage /\ UNCHANGED <<claimed, occurrences, inventory>>
        BY <3>6 DEF Return
      <4>. QED  BY <3>2, <3>6, <4>1, ReturnWalk, BeforeComposition DEF CompositionInv
    <3>7. CASE BeginComposition
      <4>1. /\ stage \in {"list", "follow"} /\ stage' = "compose" /\ pending' = Origins
            /\ UNCHANGED <<claimed, occurrences, inventory>> /\ UNCHANGED <<tree, record, contexts, references>>
        BY <3>7 DEF BeginComposition
      <4>2. pending' = Origins'
        BY <4>1, SaidOfOrigins
      <4>. QED  BY <3>2, <3>7, <4>1, <4>2, BeginCompositionWalk, BeforeComposition DEF CompositionInv
    <3>8. CASE Publish
      <4>1. /\ stage \in {"compose", "done"} /\ stage' \in {"compose", "done"} /\ pending' \subseteq pending
            /\ UNCHANGED <<tree, record, cut, contexts, references, stack>>
        BY <3>8 DEF Publish
      <4>. QED  BY <3>2, <3>8, <4>1, ComposeWalk, PublishStep DEF CompositionInv
    <3>9. ASSUME NEW p \in Paths, Visit(p) PROVE CompositionInv'
      <4>1. stage = "follow" /\ stage' = stage /\ UNCHANGED <<claimed, occurrences, inventory>>
        BY <3>9 DEF Visit
      <4>. QED  BY <3>2, <3>9, <4>1, VisitWalk, BeforeComposition DEF CompositionInv
    <3>10. ASSUME NEW p \in Paths, Compose(p) PROVE CompositionInv'
      <4>1. /\ stage \in {"compose", "done"} /\ stage' \in {"compose", "done"} /\ pending' \subseteq pending
            /\ UNCHANGED <<tree, record, cut, contexts, references, stack>>
        BY <3>10 DEF Compose
      <4>. QED  BY <3>2, <3>10, <4>1, ComposeWalk, ComposeStep DEF CompositionInv
    <3>. QED  BY <2>3, <3>3, <3>4, <3>5, <3>6, <3>7, <3>8, <3>9, <3>10 DEF CompositionNext
  <2>. QED  BY <2>1, <2>2, <2>3
<1>. QED  BY <1>1, <1>2, PTL DEF CompositionSpec

-----------------------------------------------------------------------------
(* What is selected, and what a complete inventory covers.                 *)

LEMMA TargetIsLead ==
    ASSUME RecordInv, NEW s, s[1] \in Documents, NEW t
    PROVE  t \in Targets(s[1]) <=> t \in Documents /\ \E i \in Refs(s) : LeadsTo(s, i)[1] = t
<1>1. References(record, s[1]) = tree[s[1]].refs
  BY DocumentRefs
<1>2. \A i : LeadsTo(s, i)[1] = tree[s[1]].refs[i].target
  BY DEF LeadsTo
<1>3. Targets(s[1]) = {tree[s[1]].refs[i].target : i \in Refs(s)} \cap Documents
  <2>1. Range(tree[s[1]].refs) = {tree[s[1]].refs[i] : i \in Refs(s)}
    BY DEF Range, Refs
  <2>. QED  BY <1>1, <2>1 DEF Targets
<1>. QED  BY <1>2, <1>3

\* Whatever a walk met lies below its seed.
LEMMA WalkedIsBelow ==
    ASSUME WalkInv, NEW w \in Paths, NEW s \in Walked(w)
    PROVE  w \in Documents /\ s[1] \in Below(w)
<1>1. <<w, SeedRole(w)>> \in Walked(w) /\ Generated(w) /\ RecordInv /\ \A x \in Walked(w) : x[1] \in Documents
  BY DEF WalkInv, ContextsInv
<1>2. w \in Documents
  BY <1>1
<1>. DEFINE Q == {x \in Spots : x[1] \in Below(w)}
<1>3. <<w, SeedRole(w)>> \in Q
  BY <1>1, <1>2, BelowFacts DEF Walked
<1>4. ASSUME NEW x \in Q \cap Walked(w), NEW i \in Refs(x), LeadsTo(x, i) \in Walked(w) PROVE LeadsTo(x, i) \in Q
  <2>1. LeadsTo(x, i)[1] \in Targets(x[1])
    BY <1>1, <1>4, TargetIsLead
  <2>. QED  BY <1>2, <1>4, <2>1, BelowFacts DEF Walked
<1>5. Q \in SUBSET Spots
  OBVIOUS
<1>. HIDE DEF Q
<1>6. Walked(w) \subseteq Q
  BY <1>1, <1>3, <1>4, <1>5 DEF Generated
<1>. QED  BY <1>2, <1>6 DEF Q

\* What an origin claims lies below it.
LEMMA CoversAreBelow ==
    ASSUME WalkInv, NEW o \in Documents, NEW p \in Covers(o), p \in Documents
    PROVE  p = o \/ p \in Below(o)
<1>1. o \in Paths
  BY DEF Documents
<1>2. CASE p \in {v[1] : v \in Visited(o)}
  <2>. DEFINE walked == {<<c[2], c[3]>> : c \in {x \in contexts : x[1] = o}}
  <2>1. PICK v \in Visited(o) : p = v[1]
    BY <1>2
  <2>2. v = <<o, "requirement">> \/ \E c \in contexts : c[1] = o /\ v = <<c[2], c[3]>>
    BY <2>1 DEF Visited
  <2>3. CASE \E c \in contexts : c[1] = o /\ v = <<c[2], c[3]>>
    <3>1. PICK c \in contexts : c[1] = o /\ v = <<c[2], c[3]>>
      BY <2>3
    <3>2. c = <<o, c[2], c[3]>> /\ c[2] \in Paths /\ c[3] \in Roles
      BY <3>1 DEF WalkInv, ContextsInv
    <3>3. v \in Walked(o)
      BY <3>1, <3>2 DEF Walked, Spots
    <3>. QED  BY <1>1, <2>1, <3>3, WalkedIsBelow
  <2>. QED  BY <2>1, <2>2, <2>3
<1>3. CASE \E r \in references : r.origin = o /\ r.target = p
  <2>1. PICK r \in references : r.origin = o /\ r.target = p
    BY <1>3
  <2>2. PICK s \in Walked(o) : \E i \in Refs(s) : LeadsTo(s, i)[1] = p
    BY <2>1 DEF WalkInv, NotedInv
  <2>3. s[1] \in Documents /\ s[1] \in Below(o)
    BY <1>1, <2>2, WalkedIsBelow DEF WalkInv, ContextsInv
  <2>4. p \in Targets(s[1])
    BY <2>2, <2>3, TargetIsLead DEF WalkInv
  <2>. QED  BY <2>3, <2>4, BelowFacts
<1>. QED  BY <1>2, <1>3 DEF Covers

\* A selected version is a pin that all that bears on it admits, by the text of the tree: inductive
\* is that what a walk met and is done with leads nowhere else, and what it still holds is on its
\* stack (compose_requirements.py:389-478, discovery.py).
THEOREM SelectionsAreJustified == CompositionSpec => []SelectionsJustified
<1>1. CompositionInv => SelectionsJustified
  BY DEF CompositionInv, ComposeInv, SelectionsJustified
<1>. QED  BY <1>1, CompositionInvHolds, PTL

\* No walk that reported nothing comes back to where it started.
LEMMA NoCycle ==
    ASSUME WalkInv, stack = <<>>, NEW w \in Documents, Walked(w) # {}, Clean(w),
           NEW x \in Below(w), w \in Below(x)
    PROVE  x = w
<1>. SUFFICES ASSUME x # w PROVE FALSE
  OBVIOUS
<1>1. /\ w \in Paths /\ <<w, SeedRole(w)>> \in Walked(w) /\ RecordInv
      /\ \A s \in Walked(w) : s[1] \in Documents
  BY DEF WalkInv, ContextsInv, Documents
<1>2. WalkedOut(w) = Walked(w) /\ LeftWhole(w) /\ NoTrap(w)
  BY <1>1 DEF WalkInv, CleanInv, WalkedOut, OnStack
<1>. DEFINE S == {s \in Walked(w) : w \in Below(s[1])}
<1>3. <<w, SeedRole(w)>> \in S
  BY <1>1, BelowFacts
<1>4. ASSUME NEW s \in S PROVE \E i \in Refs(s) : LeadsTo(s, i) \in S
  <2>1. s[1] \in Documents /\ w \in Below(s[1])
    BY <1>1
  <2>2. PICK t \in Targets(s[1]) : t \in Documents /\ w \in Below(t)
    <3>1. CASE s[1] # w
      BY <2>1, <3>1, FirstStep
    <3>2. CASE s[1] = w
      <4>1. PICK t \in Targets(w) : t \in Documents /\ x \in Below(t)
        BY FirstStep
      <4>2. w \in Below(t)
        BY <4>1, BelowIsTransitive
      <4>. QED  BY <3>2, <4>1, <4>2
    <3>. QED  BY <3>1, <3>2
  <2>3. PICK i \in Refs(s) : LeadsTo(s, i)[1] = t
    BY <1>1, <2>1, <2>2, TargetIsLead
  <2>4. Met(w, s, i)
    BY <1>2 DEF LeftWhole
  <2>5. tree[t].kind # "ignored"
    BY <1>1, <2>2, DocumentRefs
  <2>6. LeadsTo(s, i) \in Walked(w)
    BY <1>2, <2>3, <2>4, <2>5 DEF Met
  <2>. QED  BY <2>2, <2>3, <2>6
<1>. HIDE DEF S
<1>5. S \in SUBSET WalkedOut(w)
  BY <1>2 DEF S
<1>. QED  BY <1>2, <1>3, <1>4, <1>5 DEF NoTrap

\* An origin that nothing else includes was the seed of a walk.
LEMMA OutermostIsSeed ==
    ASSUME WalkInv, stack = <<>>, stage = "done", ~cut, \A w : Clean(w), NEW o \in Outermost
    PROVE  Walked(o) # {}
<1>1. o \in Documents /\ \A q \in Documents : o \in Below(q) => q \in Below(o)
  BY DEF Outermost
<1>2. PICK w \in Paths : o \in {s[1] : s \in Walked(w)}
  BY <1>1 DEF WalkInv, SeedsInv
<1>3. w \in Documents /\ Walked(w) # {} /\ o \in Below(w)
  BY <1>2, WalkedIsBelow
<1>4. w \in Below(o)
  BY <1>1, <1>3
<1>5. o = w
  BY <1>3, <1>4, NoCycle
<1>. QED  BY <1>3, <1>5

\* An outermost origin of an inventory that nothing was reported of is composed.
LEMMA OutermostIsComposed ==
    ASSUME WalkInv, ComposeInv, stack = <<>>, stage = "done", ~cut, \A w : Clean(w), NEW o \in Outermost, o \in Origins
    PROVE  Composed(o)
<1>1. o \in Documents /\ \A q \in Documents : o \in Below(q) => q \in Below(o)
  BY DEF Outermost
<1>2. Walked(o) # {}
  BY OutermostIsSeed
<1>3. CASE o \in claimed
  <2>1. PICK q \in Origins : Composed(q) /\ o \in Covers(q)
    BY <1>3 DEF ComposeInv
  <2>2. q \in Documents
    BY OriginsAreEligible DEF Eligible
  <2>3. q = o \/ o \in Below(q)
    BY <1>1, <2>1, <2>2, CoversAreBelow
  <2>4. o \in Below(q) => q = o
    BY <1>1, <1>2, <2>2, NoCycle
  <2>. QED  BY <2>1, <2>3, <2>4
<1>4. CASE o \notin claimed
  BY <1>4 DEF ComposeInv
<1>. QED  BY <1>3, <1>4

\* What lies below a seed that composition decided, it walked.
LEMMA BelowIsWalked ==
    ASSUME WalkInv, stack = <<>>, NEW o \in Documents, Walked(o) # {}, ~Undecided(o), NEW p \in Below(o)
    PROVE  \E s \in Applicable(o) : s[1] = p
<1>1. o \in Paths /\ RecordInv /\ tree \in Trees
  BY DEF Documents, WalkInv, RecordInv
<1>2. Walked(o) = Applicable(o) /\ \A s \in Walked(o) : s[1] \in Documents
  BY <1>1, WalkIsApplicable DEF WalkInv, ContextsInv
<1>3. /\ <<o, SeedRole(o)>> \in Applicable(o) /\ Applicable(o) \subseteq Spots
      /\ \A s \in Applicable(o) : Leads(s) \subseteq Applicable(o)
  BY <1>1, ApplicableFacts
<1>. DEFINE Q == {s[1] : s \in Applicable(o)}
<1>4. o \in Q
  BY <1>3
<1>5. ASSUME NEW q \in Q PROVE Targets(q) \subseteq Q
  <2>1. PICK s \in Applicable(o) : s[1] = q
    OBVIOUS
  <2>2. ASSUME NEW t \in Targets(q) PROVE t \in Q
    <3>1. PICK i \in Refs(s) : LeadsTo(s, i)[1] = t
      BY <1>1, <1>2, <2>1, TargetIsLead
    <3>2. t # 0
      BY PathsAreNumbers DEF Targets, Documents
    <3>3. LeadsTo(s, i) \in Leads(s)
      BY <1>1, <1>3, <3>1, <3>2, LeadsAre
    <3>. QED  BY <1>3, <3>1, <3>3
  <2>. QED  BY <2>2
<1>. HIDE DEF Q
<1>6. Below(o) \subseteq Q
  BY <1>4, <1>5, BelowFacts
<1>. QED  BY <1>6 DEF Q

\* Everything a complete inventory has to answer for is below an origin that was composed
\* whole, and so has its version (compose_requirements.py:632-643).
THEOREM CompleteIsCovered == CompositionSpec => []CompleteMeansCovered
<1>1. CompositionInv => CompleteMeansCovered
  <2>. SUFFICES ASSUME CompositionInv, inventory = "complete", NEW p \in Paths,
                       tree[p].kind \in {"requirements", "unreadable"},
                       \A q \in Paths : <<p, "constraint">> \notin Applicable(q),
                       NEW s \in Applicable(p)
                PROVE  /\ tree[s[1]].kind \notin {"absent", "unreadable", "ignored", "foreign"}
                       /\ ~tree[s[1]].bad
                       /\ s[2] = "requirement" =>
                            \A l \in tree[s[1]].lines :
                               \E x \in occurrences : x.path = s[1] /\ x.line = l /\ x.version # 0
    BY DEF CompleteMeansCovered
  <2>1. WalkInv /\ ComposeInv
    BY DEF CompositionInv
  <2>2. stage = "done" /\ pending = {} /\ Whole
    BY <2>1 DEF ComposeInv
  <2>3. /\ ~cut /\ ~refused /\ \A q \in Paths : Settled(q)
        /\ \A w : Clean(w)
        /\ \A x \in occurrences : x.version # 0
    BY <2>2 DEF Whole, Clean
  <2>4. stack = <<>> /\ tree \in Trees
    BY <2>1, <2>2 DEF WalkInv, StackInv, RecordInv
  <2>5. record[p] = "parsed" /\ tree[p].kind = "requirements" /\ p \in Documents
    <3>1. record[p] # "none" /\ Fits(p, record[p]) /\ record[p] \in Dispositions
      BY <2>1, <2>2, <2>3 DEF WalkInv, RecordInv, Read
    <3>2. record[p] \in {"none", "ignored", "set-aside", "parsed"}
      BY <2>3 DEF Settled
    <3>. QED  BY <3>1, <3>2 DEF Fits, Documents, HasDocument
  <2>6. PICK z \in Outermost : p \in Below(z)
    BY <2>5, SomeOutermost
  <2>7. z \in Eligible
    <3>1. z \in Documents
      BY DEF Outermost
    <3>2. CASE z = p
      BY <2>5, <3>1, <3>2 DEF Eligible
    <3>3. CASE z # p
      <4>1. Targets(z) # {}
        BY <2>6, <3>1, <3>3, FirstStep
      <4>2. References(record, z) # <<>>
        BY <4>1 DEF Targets, Range
      <4>. QED  BY <3>1, <4>2 DEF Eligible
    <3>. QED  BY <3>2, <3>3
  <2>8. PICK o \in Origins : o \in Outermost /\ p \in Below(o)
    BY <2>6, <2>7, OriginsAreEligible
  <2>9. o \in Documents /\ o \in Paths
    BY <2>8 DEF Outermost, Documents
  <2>10. Walked(o) # {} /\ Composed(o)
    BY <2>1, <2>2, <2>3, <2>4, <2>8, OutermostIsSeed, OutermostIsComposed
  <2>11. ~Undecided(o)
    BY <2>3, <2>10 DEF Composed
  <2>12. <<p, "requirement">> \in Applicable(o)
    <3>1. PICK y \in Applicable(o) : y[1] = p
      BY <2>1, <2>4, <2>8, <2>9, <2>10, <2>11, BelowIsWalked
    <3>2. Applicable(o) \subseteq Paths \X {"requirement", "constraint"}
      BY <2>4, <2>9, ApplicableFacts DEF Spots, Roles
    <3>. QED  BY <2>9, <3>1, <3>2
  <2>13. s \in Applicable(o)
    <3>1. SeedRole(p) = "requirement"
      BY <2>5 DEF SeedRole
    <3>2. \A y \in Applicable(o) : Leads(y) \subseteq Applicable(o)
      BY <2>4, <2>9, ApplicableFacts
    <3>3. Applicable(p) \subseteq Applicable(o)
      BY <2>4, <2>12, <3>1, <3>2, ApplicableFacts
    <3>. QED  BY <3>3
  <2>14. s[1] \in Paths /\ record[s[1]] = "parsed"
    BY <2>1, <2>4, <2>9, <2>10, <2>11, <2>13, WalkIsApplicable
  <2>15. tree[s[1]].kind \notin {"absent", "unreadable", "ignored", "foreign"} /\ ~tree[s[1]].bad
    BY <2>1, <2>14 DEF WalkInv, RecordInv, Fits
  <2>16. ASSUME s[2] = "requirement", NEW l \in tree[s[1]].lines
         PROVE  \E x \in occurrences : x.path = s[1] /\ x.line = l /\ x.version # 0
    <3>. DEFINE role == "requirement"
    <3>. HIDE DEF role
    <3>4. \A y \in Applicable(o) : y[2] = role =>
            \A m \in tree[y[1]].lines : \E d \in Declarations(o, role) : d.path = y[1] /\ d.line = m
      BY <2>1, <2>4, <2>9, <2>10, <2>11, DeclarationsAre
    <3>1. PICK d \in Declarations(o, "requirement") : d.path = s[1] /\ d.line = l
      BY <2>13, <2>16, <3>4 DEF role
    <3>2. PICK x \in occurrences : x.path = d.path /\ x.line = d.line
      BY <2>10, <3>1 DEF Composed
    <3>. QED  BY <2>3, <3>1, <3>2
  <2>. QED  BY <2>15, <2>16
<1>. QED  BY <1>1, CompositionInvHolds, PTL

-----------------------------------------------------------------------------
(* Functions that are defined by their own smaller values.                 *)

\* The functions whose value at x is one of W[x].
FunctionsWithin(D, W) == {f \in [D -> UNION {W[x] : x \in D}] : \A x \in D : f[x] \in W[x]}

\* G makes the value at x out of the values where the rank is lower.
Descends(D, rank, W, G) ==
    /\ \A x \in D : \A f \in FunctionsWithin(D, W) : G[<<x, f>>] \in W[x]
    /\ \A x \in D : \A f, g \in FunctionsWithin(D, W) :
         (\A y \in D : rank[y] < rank[x] => f[y] = g[y]) => G[<<x, f>>] = G[<<x, g>>]

Inhabited(D, W) == \A x \in D : W[x] # {}

Solves(f, D, W, G) == f \in FunctionsWithin(D, W) /\ \A x \in D : f[x] = G[<<x, f>>]

LEMMA Recursion ==
    ASSUME NEW D, NEW rank \in [D -> Nat], NEW W, NEW G, Inhabited(D, W),
           Descends(D, rank, W, G)
    PROVE  \E f : Solves(f, D, W, G)
<1>. DEFINE U == FunctionsWithin(D, W)
            Next1(f) == [x \in D |-> G[<<x, f>>]]
            F == [p \in Nat \X U |-> Next1(p[2])]
            start == [x \in D |-> CHOOSE v \in W[x] : TRUE]
<1>1. start \in U
  BY DEF FunctionsWithin, Inhabited
<1>2. \A f \in U : Next1(f) \in U
  BY DEF FunctionsWithin, Descends
<1>3. IsStep(F, U)
  BY <1>2 DEF IsStep
<1>4. \A n \in Nat : \A f \in U : F[<<n, f>>] = Next1(f)
  OBVIOUS
<1>. HIDE DEF F, start, U
<1>5. PICK h \in [Nat -> U] : Runs(h, start, F)
  BY <1>1, <1>3, Iteration
<1>6. \A n \in Nat : h[n] \in U /\ h[n + 1] = Next1(h[n])
  BY <1>4, <1>5 DEF Runs
<1>7. \A n \in Nat : \A x \in D : h[n + 1][x] = G[<<x, h[n]>>]
  BY <1>6
<1>8. \A x \in D : \A n, m \in Nat :
        (\A y \in D : rank[y] < rank[x] => h[n][y] = h[m][y]) => h[n + 1][x] = h[m + 1][x]
  <2>. SUFFICES ASSUME NEW x \in D, NEW n \in Nat, NEW m \in Nat,
                       \A y \in D : rank[y] < rank[x] => h[n][y] = h[m][y]
                PROVE  h[n + 1][x] = h[m + 1][x]
    OBVIOUS
  <2>1. G[<<x, h[n]>>] = G[<<x, h[m]>>]
    BY <1>6 DEF Descends, U
  <2>. QED  BY <1>7, <2>1
\* From the round after its rank on, a value stays.
<1>9. \A n \in Nat : \A x \in D : rank[x] < n => h[n + 1][x] = h[n][x]
  <2>. DEFINE S == {n \in Nat : \A x \in D : rank[x] < n => h[n + 1][x] = h[n][x]}
  <2>1. 0 \in S
    OBVIOUS
  <2>2. ASSUME NEW n \in Nat, n \in S PROVE n + 1 \in S
    <3>1. ASSUME NEW x \in D, rank[x] < n + 1 PROVE h[(n + 1) + 1][x] = h[n + 1][x]
      <4>1. \A y \in D : rank[y] < rank[x] => h[n + 1][y] = h[n][y]
        BY <2>2, <3>1
      <4>. QED  BY <1>8, <4>1
    <3>. QED  BY <3>1
  <2>. HIDE DEF S
  <2>3. Nat \subseteq S
    BY <2>1, <2>2, Induction
  <2>. QED  BY <2>3 DEF S
<1>10. \A x \in D : \A n \in Nat : n > rank[x] => h[n][x] = h[rank[x] + 1][x]
  <2>. SUFFICES ASSUME NEW x \in D PROVE \A n \in Nat : n > rank[x] => h[n][x] = h[rank[x] + 1][x]
    OBVIOUS
  <2>. DEFINE S == {n \in Nat : n > rank[x] => h[n][x] = h[rank[x] + 1][x]}
  <2>1. 0 \in S
    OBVIOUS
  <2>2. ASSUME NEW n \in Nat, n \in S PROVE n + 1 \in S
    <3>1. CASE n > rank[x]
      BY <1>9, <2>2, <3>1
    <3>2. CASE n = rank[x]
      BY <3>2
    <3>3. CASE n < rank[x]
      BY <3>3
    <3>. QED  BY <3>1, <3>2, <3>3
  <2>. HIDE DEF S
  <2>3. Nat \subseteq S
    BY <2>1, <2>2, Induction
  <2>. QED  BY <2>3 DEF S
<1>. DEFINE f == [x \in D |-> h[rank[x] + 1][x]]
<1>11. \A x \in D : rank[x] + 1 \in Nat /\ f[x] = h[rank[x] + 1][x]
  OBVIOUS
<1>12. f \in U
  <2>1. \A x \in D : h[rank[x] + 1] \in U
    BY <1>6, <1>11
  <2>2. \A x \in D : f[x] \in W[x]
    BY <1>11, <2>1 DEF U, FunctionsWithin
  <2>3. f = [x \in D |-> f[x]]
    OBVIOUS
  <2>. HIDE DEF f
  <2>. QED  BY <2>2, <2>3 DEF U, FunctionsWithin
<1>13. ASSUME NEW x \in D PROVE f[x] = G[<<x, f>>]
  <2>1. \A y \in D : rank[y] < rank[x] => f[y] = h[rank[x]][y]
    BY <1>10, <1>11
  <2>2. h[rank[x]] \in U /\ f[x] = G[<<x, h[rank[x]]>>]
    BY <1>6, <1>7, <1>11
  <2>. HIDE DEF f
  <2>. QED  BY <1>12, <2>1, <2>2 DEF Descends, U
<1>. HIDE DEF f
<1>14. Solves(f, D, W, G)
  BY <1>12, <1>13 DEF U, Solves
<1>. QED  BY <1>14

-----------------------------------------------------------------------------
(* What the parser's calls return.                                         *)

Rank(tokens, node) ==
    3 * (End(tokens) - node[2]) + (IF node[1] = "or" THEN 2 ELSE IF node[1] = "and" THEN 1 ELSE 0)

\* A call takes a token, and its operands are calls of a lower rank.
Results(tokens, node) ==
    {r \in [operands : Seq(Nodes(tokens)), next : 1..Error(tokens)] :
       /\ r.next > node[2]
       /\ r.operands = <<>> => node[1] = "term"
       /\ \A m \in DOMAIN r.operands : Rank(tokens, r.operands[m]) < Rank(tokens, node)}

ParserStep(tokens, parse, node) ==
    IF node[1] = "term" THEN TermRule(tokens, parse, node[2])
    ELSE ListRule(tokens, parse, node[1], node[2])

IsTokens(tokens) == tokens \in Seq(STRING)

LEMMA Words ==
    /\ Open # None /\ Open # Close /\ Open \notin Reserved
    /\ None # Close /\ None \notin Reserved /\ None # "AND" /\ None # "OR" /\ None # "WITH"
    /\ Close # "AND" /\ Close # "OR" /\ Close # "WITH"
    /\ Open # "AND" /\ Open # "OR" /\ Open # "WITH"
<1>. USE DEF Open, Close, None, Reserved
<1>1. Open # None /\ Open # Close /\ None # Close
  BY Zenon
<1>2. Open # "AND" /\ Open # "OR" /\ Open # "WITH"
  BY Zenon
<1>3. None # "AND" /\ None # "OR" /\ None # "WITH"
  BY Zenon
<1>4. Close # "AND" /\ Close # "OR" /\ Close # "WITH"
  BY Zenon
<1>5. Open \notin Reserved /\ None \notin Reserved
  BY Zenon, <1>1, <1>2, <1>3
<1>. QED  BY Zenon, <1>1, <1>2, <1>3, <1>4, <1>5

LEMMA CallFacts ==
    ASSUME NEW tokens, IsTokens(tokens)
    PROVE  /\ Len(tokens) \in Nat
           /\ \A place : TokenAt(tokens, place) # None => place \in 1..Len(tokens) /\ TokenAt(tokens, place) = tokens[place]
           /\ \A rule \in Levels : \A here \in 1..End(tokens) :
                <<rule, here>> \in Nodes(tokens) /\ <<rule, here>>[1] = rule /\ <<rule, here>>[2] = here
           /\ \A node \in Nodes(tokens) :
                /\ node[1] \in Levels /\ node[2] \in 1..End(tokens) /\ node = <<node[1], node[2]>>
                /\ Rank(tokens, node) \in Nat
<1>1. Len(tokens) \in Nat /\ DOMAIN tokens = 1..Len(tokens)
  BY DEF IsTokens
<1>2. \A place : TokenAt(tokens, place) # None => place \in 1..Len(tokens) /\ TokenAt(tokens, place) = tokens[place]
  BY <1>1 DEF TokenAt
<1>3. \A node \in Nodes(tokens) :
        node[1] \in Levels /\ node[2] \in 1..End(tokens) /\ node = <<node[1], node[2]>>
  BY DEF Nodes
<1>4. \A node \in Nodes(tokens) : Rank(tokens, node) \in Nat
  BY <1>1, <1>3 DEF Rank, End
<1>5. \A rule \in Levels : \A here \in 1..End(tokens) :
        <<rule, here>> \in Nodes(tokens) /\ <<rule, here>>[1] = rule /\ <<rule, here>>[2] = here
  BY DEF Nodes
<1>. QED  BY <1>1, <1>2, <1>3, <1>4, <1>5

LEMMA RankFacts ==
    ASSUME NEW tokens, IsTokens(tokens), NEW here \in 1..End(tokens), NEW later \in 1..End(tokens), here < later
    PROVE  /\ \A rule, other \in Levels : Rank(tokens, <<rule, later>>) < Rank(tokens, <<other, here>>)
           /\ Rank(tokens, <<"term", here>>) < Rank(tokens, <<"and", here>>)
           /\ Rank(tokens, <<"and", here>>) < Rank(tokens, <<"or", here>>)
  BY CallFacts DEF Rank, End, Levels

LEMMA LaterCall ==
    ASSUME NEW tokens, IsTokens(tokens), NEW here, here \in 1..End(tokens), NEW later, later \in 1..End(tokens),
           here < later, NEW rule \in Levels, NEW other \in Levels
    PROVE  <<rule, later>> \in Nodes(tokens) /\ Rank(tokens, <<rule, later>>) < Rank(tokens, <<other, here>>)
<1>1. <<rule, later>> \in Nodes(tokens)
  BY DEF Nodes
<1>2. Rank(tokens, <<rule, later>>) < Rank(tokens, <<other, here>>)
  BY RankFacts
<1>. QED  BY <1>1, <1>2

\* A sequence with one more at its head.
LEMMA ConsFacts ==
    ASSUME NEW S, NEW a \in S, NEW s \in Seq(S)
    PROVE  /\ <<a>> \o s \in Seq(S) /\ <<a>> \o s # <<>>
           /\ Len(s) \in Nat /\ DOMAIN s = 1..Len(s) /\ Len(<<a>> \o s) = Len(s) + 1
           /\ DOMAIN (<<a>> \o s) = 1..(Len(s) + 1)
           /\ (<<a>> \o s)[1] = a
           /\ \A m \in 2..(Len(s) + 1) : m - 1 \in DOMAIN s /\ (<<a>> \o s)[m] = s[m - 1]
<1>1. <<a>> \in Seq(S) /\ Len(<<a>>) = 1 /\ <<a>>[1] = a
  OBVIOUS
<1>2. Len(s) \in Nat /\ DOMAIN s = 1..Len(s)
  OBVIOUS
<1>. DEFINE c == <<a>> \o s
<1>3. c \in Seq(S) /\ Len(c) = Len(s) + 1
  BY <1>1, <1>2
<1>4. DOMAIN c = 1..(Len(s) + 1) /\ c # <<>>
  BY <1>2, <1>3
<1>5. c[1] = a
  BY <1>1, <1>2
<1>6. \A m \in 2..(Len(s) + 1) : m - 1 \in DOMAIN s /\ c[m] = s[m - 1]
  BY <1>1, <1>2
<1>. QED  BY <1>2, <1>3, <1>4, <1>5, <1>6

LEMMA ResultsIntro ==
    ASSUME NEW tokens, NEW rule, NEW here,
           NEW r \in [operands : Seq(Nodes(tokens)), next : 1..Error(tokens)],
           r.next > here, r.operands = <<>> => rule = "term",
           \A m \in DOMAIN r.operands : Rank(tokens, r.operands[m]) < Rank(tokens, <<rule, here>>)
    PROVE  r \in Results(tokens, <<rule, here>>)
<1>1. <<rule, here>>[1] = rule /\ <<rule, here>>[2] = here
  OBVIOUS
<1>. QED  BY <1>1 DEF Results

LEMMA TermFits ==
    ASSUME NEW tokens, IsTokens(tokens), NEW here \in 1..End(tokens),
           NEW parse, \A c \in Nodes(tokens) : parse[c] \in Results(tokens, c)
    PROVE  TermRule(tokens, parse, here) \in Results(tokens, <<"term", here>>)
<1>. DEFINE r == TermRule(tokens, parse, here)
<1>1. Len(tokens) \in Nat /\ End(tokens) = Len(tokens) + 1 /\ Error(tokens) = Len(tokens) + 2
  BY CallFacts DEF End, Error
<1>2. CASE TokenAt(tokens, here) = Open
  <2>1. here \in 1..Len(tokens) /\ here + 1 \in 1..End(tokens)
    BY <1>1, <1>2, CallFacts, Words
  <2>2. <<"or", here + 1>> \in Nodes(tokens) /\ Rank(tokens, <<"or", here + 1>>) < Rank(tokens, <<"term", here>>)
    <3>. DEFINE later == here + 1
    <3>1. later \in 1..End(tokens) /\ here < later /\ "or" \in Levels /\ "term" \in Levels
      BY <1>1, <2>1 DEF Levels
    <3>. HIDE DEF later
    <3>2. <<"or", later>> \in Nodes(tokens) /\ Rank(tokens, <<"or", later>>) < Rank(tokens, <<"term", here>>)
      BY <3>1, LaterCall
    <3>. QED  BY <3>2 DEF later
  <2>. DEFINE inner == parse[<<"or", here + 1>>]
  <2>3. inner.next \in 1..Error(tokens) /\ inner.next > here + 1
    BY <2>2 DEF Results
  <2>4. TokenAt(tokens, inner.next) = Close => inner.next \in 1..Len(tokens)
    BY CallFacts, Words
  <2>. HIDE DEF inner
  <2>5. r = [operands |-> <<<<"or", here + 1>>>>,
             next |-> IF TokenAt(tokens, inner.next) = Close THEN inner.next + 1 ELSE Error(tokens)]
    BY <1>2 DEF TermRule, inner
  <2>6. r.next \in 1..Error(tokens) /\ r.next > here
    BY <1>1, <2>1, <2>3, <2>4, <2>5
  <2>7. r.operands \in Seq(Nodes(tokens)) /\ r.operands # <<>> /\ DOMAIN r.operands = {1}
        /\ r.operands[1] = <<"or", here + 1>>
    BY <2>2, <2>5
  <2>8. r = [operands |-> r.operands, next |-> r.next]
    BY <2>5
  <2>. HIDE DEF r
  <2>9. r \in [operands : Seq(Nodes(tokens)), next : 1..Error(tokens)]
    BY <2>6, <2>7, <2>8
  <2>10. r \in Results(tokens, <<"term", here>>)
    BY <2>2, <2>6, <2>7, <2>9, ResultsIntro
  <2>. QED  BY <2>10 DEF r
<1>3. CASE TokenAt(tokens, here) # Open
  <2>1. r = [operands |-> <<>>,
             next |-> IF TokenAt(tokens, here) \in Reserved \cup {None} THEN Error(tokens)
                      ELSE IF TokenAt(tokens, here + 1) # "WITH" THEN here + 1
                      ELSE IF TokenAt(tokens, here + 2) = None THEN Error(tokens)
                      ELSE here + 3]
    BY <1>3 DEF TermRule
  <2>2. TokenAt(tokens, here + 2) # None => here + 2 \in 1..Len(tokens)
    BY CallFacts
  <2>3. TokenAt(tokens, here) \notin Reserved \cup {None} => here \in 1..Len(tokens)
    BY CallFacts
  <2>4. r.next \in 1..Error(tokens) /\ r.next > here
    BY <1>1, <2>1, <2>2, <2>3
  <2>5. r.operands = <<>> /\ <<>> \in Seq(Nodes(tokens))
    BY <2>1
  <2>6. r = [operands |-> r.operands, next |-> r.next]
    BY <2>1
  <2>. HIDE DEF r
  <2>7. r \in [operands : Seq(Nodes(tokens)), next : 1..Error(tokens)]
    BY <2>4, <2>5, <2>6
  <2>8. DOMAIN r.operands = {}
    BY <2>5
  <2>9. r \in Results(tokens, <<"term", here>>)
    BY <2>4, <2>5, <2>7, <2>8, ResultsIntro
  <2>. QED  BY <2>9 DEF r
<1>. QED  BY <1>2, <1>3

LEMMA ListFits ==
    ASSUME NEW tokens, IsTokens(tokens), NEW rule \in {"or", "and"}, NEW here \in 1..End(tokens),
           NEW parse, \A c \in Nodes(tokens) : parse[c] \in Results(tokens, c)
    PROVE  ListRule(tokens, parse, rule, here) \in Results(tokens, <<rule, here>>)
<1>. DEFINE r == ListRule(tokens, parse, rule, here)
            first == parse[<<Inner(rule), here>>]
            rest == parse[<<rule, first.next + 1>>]
            top == <<Inner(rule), here>>
            one == <<top>>
<1>1. Len(tokens) \in Nat /\ End(tokens) = Len(tokens) + 1 /\ Error(tokens) = Len(tokens) + 2
  BY CallFacts DEF End, Error
<1>2. <<Inner(rule), here>> \in Nodes(tokens) /\ rule \in Levels
  BY CallFacts DEF Inner, Levels
<1>3. Rank(tokens, <<Inner(rule), here>>) < Rank(tokens, <<rule, here>>)
  BY CallFacts DEF Inner, Rank, End
<1>4. first.next \in 1..Error(tokens) /\ first.next > here
  BY <1>2, CallFacts DEF Results
<1>5. one \in Seq(Nodes(tokens)) /\ one # <<>> /\ Len(one) = 1 /\ one[1] = <<Inner(rule), here>>
  BY <1>2
<1>. HIDE DEF one
<1>6. CASE TokenAt(tokens, first.next) = Joiner(rule)
  <2>1. first.next \in 1..Len(tokens)
    BY <1>6, CallFacts, Words DEF Joiner
  <2>2. first.next + 1 \in 1..End(tokens) /\ here < first.next + 1
    BY <1>1, <1>4, <2>1
  <2>3. <<rule, first.next + 1>> \in Nodes(tokens)
        /\ Rank(tokens, <<rule, first.next + 1>>) < Rank(tokens, <<rule, here>>)
    BY <1>2, <2>2, CallFacts, RankFacts
  <2>4. /\ rest \in [operands : Seq(Nodes(tokens)), next : 1..Error(tokens)]
        /\ rest.next > first.next + 1
        /\ \A m \in DOMAIN rest.operands : Rank(tokens, rest.operands[m]) < Rank(tokens, <<rule, first.next + 1>>)
    BY <2>2, <2>3 DEF Results
  <2>5. r = [operands |-> one \o rest.operands, next |-> rest.next]
    BY <1>6 DEF ListRule, one, top
  <2>. HIDE DEF r, rest, first, top
  <2>6. rest.operands \in Seq(Nodes(tokens)) /\ rest.next \in 1..Error(tokens)
    BY <2>4
  <2>7. r.operands = <<top>> \o rest.operands /\ r.next = rest.next
    BY <2>5 DEF one
  <2>8. /\ r.operands \in Seq(Nodes(tokens)) /\ r.operands # <<>> /\ r.operands[1] = top
        /\ DOMAIN r.operands = 1..(Len(rest.operands) + 1) /\ Len(rest.operands) \in Nat
        /\ \A m \in 2..(Len(rest.operands) + 1) :
             m - 1 \in DOMAIN rest.operands /\ r.operands[m] = rest.operands[m - 1]
    BY <1>2, <2>6, <2>7, ConsFacts DEF top
  <2>12. r \in [operands : Seq(Nodes(tokens)), next : 1..Error(tokens)]
    BY <2>5, <2>6, <2>7, <2>8
  <2>9. ASSUME NEW m \in DOMAIN r.operands PROVE Rank(tokens, r.operands[m]) < Rank(tokens, <<rule, here>>)
    <3>1. CASE m = 1
      BY <1>3, <2>8, <3>1 DEF top
    <3>2. CASE m # 1
      <4>1. m - 1 \in DOMAIN rest.operands /\ r.operands[m] = rest.operands[m - 1]
        BY <2>8, <3>2
      <4>2. rest.operands[m - 1] \in Nodes(tokens)
        BY <2>6, <4>1
      <4>. DEFINE low == Rank(tokens, r.operands[m])
                  mid == Rank(tokens, <<rule, first.next + 1>>)
                  high == Rank(tokens, <<rule, here>>)
      <4>3. low \in Nat /\ high \in Nat /\ mid \in Nat
        BY <1>2, <2>3, <4>1, <4>2, CallFacts
      <4>4. low < mid /\ mid < high
        BY <2>3, <2>4, <4>1
      <4>. HIDE DEF low, mid, high
      <4>5. low < high
        BY <4>3, <4>4
      <4>. QED  BY <4>5 DEF low, high
    <3>. QED  BY <3>1, <3>2
  <2>10. r.next > here
    BY <1>1, <1>4, <2>1, <2>4, <2>6, <2>7
  <2>11. r \in Results(tokens, <<rule, here>>)
    BY <2>8, <2>9, <2>10, <2>12, ResultsIntro
  <2>. QED  BY <2>11 DEF r
<1>7. CASE TokenAt(tokens, first.next) # Joiner(rule)
  <2>1. r = [operands |-> one, next |-> first.next]
    BY <1>7 DEF ListRule, one
  <2>. HIDE DEF r, first
  <2>2. r.operands = one /\ r.next = first.next
        /\ r \in [operands : Seq(Nodes(tokens)), next : 1..Error(tokens)]
    BY <1>4, <1>5, <2>1
  <2>3. \A m \in DOMAIN r.operands : r.operands[m] = <<Inner(rule), here>>
    <3>1. DOMAIN one = {1}
      BY <1>5
    <3>. QED  BY <1>5, <2>2, <3>1
  <2>4. r \in Results(tokens, <<rule, here>>)
    BY <1>3, <1>4, <1>5, <2>2, <2>3, ResultsIntro
  <2>. QED  BY <2>4 DEF r
<1>. QED  BY <1>6, <1>7

LEMMA ParserUnfold ==
    ASSUME NEW tokens, IsTokens(tokens)
    PROVE  \A node \in Nodes(tokens) :
             /\ Parser(tokens)[node] \in Results(tokens, node)
             /\ Parser(tokens)[node] = ParserStep(tokens, Parser(tokens), node)
<1>. DEFINE D == Nodes(tokens)
            W == [c \in D |-> Results(tokens, c)]
            rank == [c \in D |-> Rank(tokens, c)]
            G == [p \in D \X FunctionsWithin(D, W) |-> ParserStep(tokens, p[2], p[1])]
<1>1. rank \in [D -> Nat]
  BY CallFacts
<1>2. \A f \in FunctionsWithin(D, W) : \A c \in D : f[c] \in Results(tokens, c)
  BY DEF FunctionsWithin
<1>3. \A c \in D : \A f \in FunctionsWithin(D, W) : ParserStep(tokens, f, c) \in Results(tokens, c)
  <2>. SUFFICES ASSUME NEW c \in D, NEW f \in FunctionsWithin(D, W) PROVE ParserStep(tokens, f, c) \in Results(tokens, c)
    OBVIOUS
  <2>1. c[1] \in Levels /\ c[2] \in 1..End(tokens) /\ c = <<c[1], c[2]>>
    BY CallFacts
  <2>2. CASE c[1] = "term"
    BY <1>2, <2>1, <2>2, TermFits DEF ParserStep
  <2>3. CASE c[1] \in {"or", "and"}
    BY <1>2, <2>1, <2>3, ListFits DEF ParserStep
  <2>. QED  BY <2>1, <2>2, <2>3 DEF Levels
<1>4. ASSUME NEW c \in D, NEW f \in FunctionsWithin(D, W), NEW g,
             \A y \in D : rank[y] < rank[c] => f[y] = g[y]
      PROVE  ParserStep(tokens, f, c) = ParserStep(tokens, g, c)
  <2>0. Len(tokens) \in Nat /\ End(tokens) = Len(tokens) + 1
    BY CallFacts DEF End
  <2>1. c[1] \in Levels /\ c[2] \in 1..End(tokens) /\ c = <<c[1], c[2]>>
    BY CallFacts
  <2>2. \A y \in D : Rank(tokens, y) < Rank(tokens, c) => f[y] = g[y]
    BY <1>4
  <2>3. CASE c[1] = "term"
    <3>1. CASE TokenAt(tokens, c[2]) = Open
      <4>1. c[2] + 1 \in 1..End(tokens)
        BY <2>0, <2>1, <3>1, CallFacts, Words
      <4>2. f[<<"or", c[2] + 1>>] = g[<<"or", c[2] + 1>>]
        <5>. DEFINE later == c[2] + 1
        <5>1. later \in 1..End(tokens) /\ c[2] < later /\ "or" \in Levels
          BY <2>0, <2>1, <4>1 DEF Levels
        <5>. HIDE DEF later
        <5>2. <<"or", later>> \in Nodes(tokens) /\ Rank(tokens, <<"or", later>>) < Rank(tokens, <<c[1], c[2]>>)
          BY <2>1, <5>1, LaterCall
        <5>3. f[<<"or", later>>] = g[<<"or", later>>]
          BY <2>1, <2>2, <5>2
        <5>. QED  BY <5>3 DEF later
      <4>. QED  BY <2>3, <3>1, <4>2 DEF ParserStep, TermRule
    <3>2. CASE TokenAt(tokens, c[2]) # Open
      BY <2>3, <3>2 DEF ParserStep, TermRule
    <3>. QED  BY <3>1, <3>2
  <2>4. CASE c[1] \in {"or", "and"}
    <3>. DEFINE first == <<Inner(c[1]), c[2]>>
    <3>1. first \in D /\ Rank(tokens, first) < Rank(tokens, c)
      BY <2>1, <2>4, CallFacts DEF Inner, Rank, End, Levels
    <3>2. f[first] = g[first]
      BY <2>2, <3>1
    <3>3. f[first].next > c[2] /\ f[first].next \in 1..Error(tokens)
      BY <1>2, <2>1, <3>1 DEF Results
    <3>4. TokenAt(tokens, f[first].next) = Joiner(c[1]) =>
            f[<<c[1], f[first].next + 1>>] = g[<<c[1], f[first].next + 1>>]
      <4>. SUFFICES ASSUME TokenAt(tokens, f[first].next) = Joiner(c[1])
                    PROVE  f[<<c[1], f[first].next + 1>>] = g[<<c[1], f[first].next + 1>>]
        OBVIOUS
      <4>1. f[first].next \in 1..Len(tokens)
        BY CallFacts, Words DEF Joiner
      <4>. DEFINE later == f[first].next + 1
      <4>2. later \in 1..End(tokens) /\ c[2] < later
        BY <2>0, <2>1, <3>3, <4>1
      <4>. HIDE DEF later
      <4>3. <<c[1], later>> \in D /\ Rank(tokens, <<c[1], later>>) < Rank(tokens, c)
        <5>1. <<c[1], later>> \in D /\ Rank(tokens, <<c[1], later>>) < Rank(tokens, <<c[1], c[2]>>)
          BY <2>1, <4>2, LaterCall
        <5>. QED  BY <2>1, <5>1
      <4>4. f[<<c[1], later>>] = g[<<c[1], later>>]
        BY <2>2, <4>3
      <4>. QED  BY <4>4 DEF later
    <3>. QED  BY <2>4, <3>2, <3>4 DEF ParserStep, ListRule
  <2>. QED  BY <2>1, <2>3, <2>4 DEF Levels
<1>5. \A c \in D : \A f \in FunctionsWithin(D, W) : G[<<c, f>>] = ParserStep(tokens, f, c) /\ W[c] = Results(tokens, c)
  OBVIOUS
<1>. HIDE DEF G
<1>6. Descends(D, rank, W, G)
  BY <1>3, <1>4, <1>5 DEF Descends
<1>7. Inhabited(D, W)
  <2>. SUFFICES ASSUME NEW c \in D PROVE Results(tokens, c) # {}
    BY <1>5 DEF Inhabited
  <2>. DEFINE lowest == <<"term", End(tokens)>>
              none == [operands |-> IF c[1] = "term" THEN <<>> ELSE <<lowest>>, next |-> Error(tokens)]
  <2>1. c[1] \in Levels /\ c[2] \in 1..End(tokens) /\ c = <<c[1], c[2]>>
        /\ Len(tokens) \in Nat /\ End(tokens) = Len(tokens) + 1 /\ Error(tokens) = Len(tokens) + 2
    BY CallFacts DEF End, Error
  <2>2. lowest \in D
    BY <2>1 DEF Nodes, Levels
  <2>3. CASE c[1] = "term"
    <3>1. [operands |-> <<>>, next |-> Error(tokens)] \in Results(tokens, <<c[1], c[2]>>)
      <4>. DEFINE r == [operands |-> <<>>, next |-> Error(tokens)]
      <4>1. r.operands = <<>> /\ DOMAIN r.operands = {} /\ r.next = Error(tokens)
        OBVIOUS
      <4>2. r \in [operands : Seq(Nodes(tokens)), next : 1..Error(tokens)]
        BY <2>1
      <4>3. r.next > c[2]
        BY <2>1
      <4>. HIDE DEF r
      <4>4. r \in Results(tokens, <<c[1], c[2]>>)
        BY <2>3, <4>1, <4>2, <4>3, ResultsIntro
      <4>. QED  BY <4>4 DEF r
    <3>. QED  BY <2>1, <3>1
  <2>4. CASE c[1] # "term"
    <3>. DEFINE r == [operands |-> <<lowest>>, next |-> Error(tokens)]
    <3>1. r.operands # <<>> /\ DOMAIN r.operands = {1} /\ r.operands[1] = lowest /\ r.next = Error(tokens)
      OBVIOUS
    <3>2. r \in [operands : Seq(Nodes(tokens)), next : 1..Error(tokens)]
      BY <2>1, <2>2
    <3>3. r.next > c[2]
      BY <2>1
    <3>4. Rank(tokens, lowest) < Rank(tokens, <<c[1], c[2]>>)
      BY <2>1, <2>4 DEF Rank, Levels
    <3>. HIDE DEF r, lowest
    <3>5. r \in Results(tokens, <<c[1], c[2]>>)
      BY <3>1, <3>2, <3>3, <3>4, ResultsIntro
    <3>. QED  BY <2>1, <3>5
  <2>. QED  BY <2>3, <2>4
<1>8. PICK f : Solves(f, D, W, G)
  <2>. HIDE DEF D, W, G, rank
  <2>. QED  BY <1>1, <1>6, <1>7, Recursion
<1>9. \A c \in D : f[c] \in Results(tokens, c) /\ f[c] = ParserStep(tokens, f, c)
  BY <1>2, <1>5, <1>8 DEF Solves
<1>10. f = [node \in Nodes(tokens) |-> ParserStep(tokens, f, node)]
  BY <1>8, <1>9 DEF FunctionsWithin, Solves
<1>11. Parser(tokens) = [node \in Nodes(tokens) |-> ParserStep(tokens, Parser(tokens), node)]
  BY <1>10 DEF Parser, ParserStep
<1>12. Parser(tokens) = f
  <2>. DEFINE P == Parser(tokens)
              S == {n \in Nat : \A c \in D : rank[c] < n => P[c] = f[c]}
  <2>1. \A c \in D : P[c] = ParserStep(tokens, P, c)
    BY <1>11
  <2>2. 0 \in S
    BY <1>1
  <2>3. ASSUME NEW n \in Nat, n \in S PROVE n + 1 \in S
    <3>. SUFFICES ASSUME NEW c \in D, rank[c] < n + 1 PROVE P[c] = f[c]
      OBVIOUS
    <3>1. \A y \in D : rank[y] < rank[c] => f[y] = P[y]
      BY <1>1, <2>3
    <3>2. ParserStep(tokens, f, c) = ParserStep(tokens, P, c)
      BY <1>4, <1>8, <3>1 DEF Solves
    <3>. QED  BY <1>9, <2>1, <3>2
  <2>. HIDE DEF S
  <2>4. Nat \subseteq S
    BY <2>2, <2>3, Induction
  <2>5. ASSUME NEW c \in D PROVE P[c] = f[c]
    <3>1. rank[c] + 1 \in S /\ rank[c] < rank[c] + 1
      BY <1>1, <2>4
    <3>. QED  BY <3>1 DEF S
  <2>. QED  BY <1>10, <1>11, <2>5
<1>. QED  BY <1>9, <1>12

\* The calls of a value that is being parsed.
Operands(tokens, node) == Parser(tokens)[node].operands

LEMMA NodeFacts ==
    ASSUME NEW tokens, IsTokens(tokens), NEW node \in Nodes(tokens)
    PROVE  LET operands == Operands(tokens, node) IN
           /\ Len(operands) \in Nat /\ DOMAIN operands = 1..Len(operands)
           /\ operands = <<>> <=> Len(operands) = 0
           /\ \A m \in DOMAIN operands :
                /\ operands[m] \in Nodes(tokens)
                /\ Rank(tokens, operands[m]) < Rank(tokens, node)
           /\ operands = <<>> => node[1] = "term"
<1>. DEFINE operands == Operands(tokens, node)
<1>1. operands \in Seq(Nodes(tokens))
  BY ParserUnfold DEF Results, Operands
<1>2. /\ \A m \in DOMAIN operands : Rank(tokens, operands[m]) < Rank(tokens, node)
      /\ operands = <<>> => node[1] = "term"
  BY ParserUnfold DEF Results, Operands
<1>. HIDE DEF operands
<1>3. \A m \in DOMAIN operands : operands[m] \in Nodes(tokens)
  BY <1>1
<1>4. Len(operands) \in Nat /\ DOMAIN operands = 1..Len(operands)
  BY <1>1
<1>5. operands = <<>> <=> Len(operands) = 0
  BY <1>1
<1>. QED  BY <1>2, <1>3, <1>4, <1>5 DEF operands

-----------------------------------------------------------------------------
(* What is made of the nodes.                                              *)

Verdicts == {Permitted, Denied, Undetermined}

LEMMA TermVerdict ==
    ASSUME NEW policy, NEW t
    PROVE  EvaluateTerm(policy, t) \in Verdicts
  BY DEF EvaluateTerm, Verdicts

TermsOf(tokens) == {TermOf(tokens, here) : here \in Int}

Outcome(tokens) == [result : Verdicts, satisfied : SUBSET TermsOf(tokens)]

Outcomes(tokens, evaluate, node) ==
    LET operands == Operands(tokens, node)
    IN [m \in DOMAIN operands |-> evaluate[operands[m]]]

\* A node of several operands.
Joined(rule, outcomes) ==
    LET result == Conjunction([m \in DOMAIN outcomes |-> outcomes[m].result])
    IN IF rule = "or" THEN Disjunction(outcomes)
       ELSE [result |-> result,
             satisfied |-> IF result = Permitted THEN Satisfied(outcomes) ELSE {}]

LEMMA NodeIs ==
    ASSUME NEW policy, NEW tokens, NEW evaluate, NEW node
    PROVE  LET operands == Operands(tokens, node) IN
           EvaluateNode(policy, tokens, evaluate, node) =
             IF operands = <<>>
             THEN [result |-> EvaluateTerm(policy, TermOf(tokens, node[2])),
                   satisfied |-> {TermOf(tokens, node[2])}]
             ELSE IF Len(operands) = 1 THEN Outcomes(tokens, evaluate, node)[1]
             ELSE Joined(node[1], Outcomes(tokens, evaluate, node))
<1>. DEFINE operands == Operands(tokens, node)
            outcomes == [m \in DOMAIN operands |-> evaluate[operands[m]]]
<1>1. [m \in DOMAIN operands |-> outcomes[m].result] = [m \in DOMAIN outcomes |-> outcomes[m].result]
  OBVIOUS
<1>2. Outcomes(tokens, evaluate, node) = outcomes
  BY DEF Outcomes
<1>. QED  BY <1>1, <1>2 DEF EvaluateNode, Joined, Operands

LEMMA JoinedFits ==
    ASSUME NEW tokens, NEW rule, NEW outcomes, \A m \in DOMAIN outcomes : outcomes[m] \in Outcome(tokens),
           NEW n \in Nat, DOMAIN outcomes = 1..n
    PROVE  Joined(rule, outcomes) \in Outcome(tokens)
<1>1. CASE rule = "or"
  <2>. DEFINE permitted == {m \in DOMAIN outcomes : outcomes[m].result = Permitted}
  <2>1. CASE permitted = {}
    BY <1>1, <2>1 DEF Joined, Disjunction, Outcome, Verdicts
  <2>2. CASE permitted # {}
    <3>1. permitted \subseteq Nat
      OBVIOUS
    <3>2. \E m \in permitted : \A k \in permitted : m <= k
      BY <2>2, <3>1, Least
    <3>3. (CHOOSE m \in permitted : \A k \in permitted : m <= k) \in DOMAIN outcomes
      BY <3>2
    <3>. QED  BY <1>1, <2>2, <3>3 DEF Joined, Disjunction
  <2>. QED  BY <2>1, <2>2
<1>2. CASE rule # "or"
  <2>. DEFINE result == Conjunction([m \in DOMAIN outcomes |-> outcomes[m].result])
  <2>1. result \in Verdicts
    BY DEF Conjunction, Verdicts
  <2>2. Satisfied(outcomes) \subseteq TermsOf(tokens)
    BY DEF Satisfied, Outcome
  <2>. HIDE DEF result
  <2>3. [result |-> result, satisfied |-> IF result = Permitted THEN Satisfied(outcomes) ELSE {}] \in Outcome(tokens)
    BY <2>1, <2>2 DEF Outcome
  <2>. QED  BY <1>2, <2>3 DEF Joined, result
<1>. QED  BY <1>1, <1>2

LEMMA EvaluateUnfold ==
    ASSUME NEW policy, NEW tokens, IsTokens(tokens)
    PROVE  \A node \in Nodes(tokens) :
             Evaluate(policy, tokens)[node] = EvaluateNode(policy, tokens, Evaluate(policy, tokens), node)
<1>. DEFINE D == Nodes(tokens)
            W == [c \in D |-> Outcome(tokens)]
            rank == [c \in D |-> Rank(tokens, c)]
            G == [p \in D \X FunctionsWithin(D, W) |-> EvaluateNode(policy, tokens, p[2], p[1])]
<1>1. rank \in [D -> Nat]
  BY CallFacts
<1>2. \A f \in FunctionsWithin(D, W) : \A c \in D : f[c] \in Outcome(tokens)
  BY DEF FunctionsWithin
<1>3. ASSUME NEW c \in D, NEW f \in FunctionsWithin(D, W) PROVE EvaluateNode(policy, tokens, f, c) \in Outcome(tokens)
  <2>. DEFINE operands == Operands(tokens, c)
              outcomes == Outcomes(tokens, f, c)
  <2>1. /\ Len(operands) \in Nat /\ DOMAIN operands = 1..Len(operands)
        /\ operands = <<>> <=> Len(operands) = 0
        /\ \A m \in DOMAIN operands : operands[m] \in D
    BY NodeFacts
  <2>2. DOMAIN outcomes = 1..Len(operands) /\ \A m \in DOMAIN outcomes : outcomes[m] \in Outcome(tokens)
    BY <1>2, <2>1 DEF Outcomes
  <2>3. c[2] \in Int
    BY CallFacts DEF End
  <2>. HIDE DEF outcomes
  <2>4. [result |-> EvaluateTerm(policy, TermOf(tokens, c[2])), satisfied |-> {TermOf(tokens, c[2])}] \in Outcome(tokens)
    BY <2>3, TermVerdict DEF Outcome, TermsOf
  <2>5. Len(operands) = 1 => outcomes[1] \in Outcome(tokens)
    BY <2>2
  <2>6. Joined(c[1], outcomes) \in Outcome(tokens)
    BY <2>1, <2>2, JoinedFits
  <2>. QED  BY <2>4, <2>5, <2>6, NodeIs DEF outcomes
<1>4. ASSUME NEW c \in D, NEW f \in FunctionsWithin(D, W), NEW g \in FunctionsWithin(D, W),
             \A y \in D : rank[y] < rank[c] => f[y] = g[y]
      PROVE  EvaluateNode(policy, tokens, f, c) = EvaluateNode(policy, tokens, g, c)
  <2>. DEFINE operands == Operands(tokens, c)
  <2>1. \A m \in DOMAIN operands : f[operands[m]] = g[operands[m]]
    <3>1. \A m \in DOMAIN operands : operands[m] \in D /\ Rank(tokens, operands[m]) < Rank(tokens, c)
      BY NodeFacts
    <3>. QED  BY <1>4, <3>1
  <2>2. Outcomes(tokens, f, c) = Outcomes(tokens, g, c)
    BY <2>1 DEF Outcomes
  <2>. QED  BY <2>2, NodeIs
<1>5. \A c \in D : \A f \in FunctionsWithin(D, W) :
        G[<<c, f>>] = EvaluateNode(policy, tokens, f, c) /\ W[c] = Outcome(tokens)
  OBVIOUS
<1>. HIDE DEF G
<1>6. Descends(D, rank, W, G)
  BY <1>3, <1>4, <1>5 DEF Descends
<1>7. Inhabited(D, W)
  <2>1. [result |-> Permitted, satisfied |-> {}] \in Outcome(tokens)
    BY DEF Outcome, Verdicts
  <2>. QED  BY <1>5, <2>1 DEF Inhabited
<1>8. PICK f : Solves(f, D, W, G)
  <2>. HIDE DEF D, W, G, rank
  <2>. QED  BY <1>1, <1>6, <1>7, Recursion
<1>9. f = [node \in Nodes(tokens) |-> EvaluateNode(policy, tokens, f, node)]
  BY <1>5, <1>8 DEF FunctionsWithin, Solves
<1>10. Evaluate(policy, tokens) = [node \in Nodes(tokens) |-> EvaluateNode(policy, tokens, Evaluate(policy, tokens), node)]
  BY <1>9 DEF Evaluate
<1>. QED  BY <1>10

-----------------------------------------------------------------------------
(* What the reference finds by splitting.                                  *)

TermsWithin(tokens) ==
    {Term(tokens[a], e) : a \in Int, e \in {tokens[b] : b \in Int} \cup {None}}

ChoiceSets(tokens) == SUBSET SUBSET TermsWithin(tokens)

SpanRank(span) == IF span[2] >= span[1] THEN span[2] - span[1] + 1 ELSE 0

LEMMA OffersUnfold ==
    ASSUME NEW tokens
    PROVE  \A from, to \in Int :
             Offers(tokens)[<<from, to>>] = OffersBetween(tokens, Offers(tokens), from, to)
<1>. DEFINE D == Int \X Int
            W == [c \in D |-> ChoiceSets(tokens)]
            rank == [c \in D |-> SpanRank(c)]
            G == [p \in D \X FunctionsWithin(D, W) |-> OffersBetween(tokens, p[2], p[1][1], p[1][2])]
<1>1. rank \in [D -> Nat]
  BY DEF SpanRank
<1>2. \A f \in FunctionsWithin(D, W) : \A from, to \in Int : f[<<from, to>>] \in ChoiceSets(tokens)
  BY DEF FunctionsWithin
<1>3. ASSUME NEW from \in Int, NEW to \in Int, NEW f \in FunctionsWithin(D, W)
      PROVE  OffersBetween(tokens, f, from, to) \in ChoiceSets(tokens)
  <2>. DEFINE ors == Splits(tokens, "OR", from, to)
              ands == Splits(tokens, "AND", from, to)
  <2>1. ors \subseteq Int /\ ands \subseteq Int
    BY DEF Splits
  <2>. HIDE DEF ors, ands
  <2>2. \A k \in Int : f[<<from, k - 1>>] \cup f[<<k + 1, to>>] \in ChoiceSets(tokens)
    <3>1. \A k \in Int : f[<<from, k - 1>>] \in ChoiceSets(tokens) /\ f[<<k + 1, to>>] \in ChoiceSets(tokens)
      BY <1>2
    <3>. QED  BY <3>1 DEF ChoiceSets
  <2>3. \A k \in Int : Both(f[<<from, k - 1>>], f[<<k + 1, to>>]) \in ChoiceSets(tokens)
    <3>1. \A k \in Int : f[<<from, k - 1>>] \in ChoiceSets(tokens) /\ f[<<k + 1, to>>] \in ChoiceSets(tokens)
      BY <1>2
    <3>2. ASSUME NEW a \in ChoiceSets(tokens), NEW b \in ChoiceSets(tokens) PROVE Both(a, b) \in ChoiceSets(tokens)
      <4>. DEFINE T == TermsWithin(tokens)
      <4>1. a \subseteq SUBSET T /\ b \subseteq SUBSET T /\ ChoiceSets(tokens) = SUBSET SUBSET T
        BY DEF ChoiceSets
      <4>. HIDE DEF T
      <4>2. \A p \in a \X b : p[1] \in a /\ p[2] \in b
        OBVIOUS
      <4>3. \A p \in a \X b : p[1] \cup p[2] \subseteq T
        BY <4>1, <4>2
      <4>4. Both(a, b) \subseteq SUBSET T
        BY <4>3 DEF Both
      <4>. QED  BY <4>1, <4>4
    <3>. QED  BY <3>1, <3>2
  <2>4. f[<<from + 1, to - 1>>] \in ChoiceSets(tokens)
    BY <1>2
  <2>5. {{Term(tokens[from], IF to = from + 2 THEN tokens[to] ELSE None)}} \in ChoiceSets(tokens)
    <3>1. Term(tokens[from], IF to = from + 2 THEN tokens[to] ELSE None) \in TermsWithin(tokens)
      BY DEF TermsWithin
    <3>. QED  BY <3>1 DEF ChoiceSets
  <2>6. ors # {} => (CHOOSE i \in ors : TRUE) \in Int
    BY <2>1
  <2>7. ands # {} => (CHOOSE i \in ands : TRUE) \in Int
    BY <2>1
  <2>8. CASE ors # {}
    BY <2>2, <2>6, <2>8 DEF OffersBetween, ors
  <2>9. CASE ors = {} /\ ands # {}
    BY <2>3, <2>7, <2>9 DEF OffersBetween, ors, ands
  <2>10. CASE ors = {} /\ ands = {}
    BY <2>4, <2>5, <2>10 DEF OffersBetween, ors, ands
  <2>. QED  BY <2>8, <2>9, <2>10
<1>4. ASSUME NEW from \in Int, NEW to \in Int, NEW f, NEW g,
             \A y \in D : SpanRank(y) < SpanRank(<<from, to>>) => f[y] = g[y]
      PROVE  OffersBetween(tokens, f, from, to) = OffersBetween(tokens, g, from, to)
  <2>. DEFINE ors == Splits(tokens, "OR", from, to)
              ands == Splits(tokens, "AND", from, to)
  <2>1. ors \subseteq from..to /\ ands \subseteq from..to
    BY DEF Splits
  <2>. HIDE DEF ors, ands
  <2>2. \A k \in from..to : f[<<from, k - 1>>] = g[<<from, k - 1>>] /\ f[<<k + 1, to>>] = g[<<k + 1, to>>]
    <3>. SUFFICES ASSUME NEW k \in from..to
                  PROVE  f[<<from, k - 1>>] = g[<<from, k - 1>>] /\ f[<<k + 1, to>>] = g[<<k + 1, to>>]
      OBVIOUS
    <3>1. /\ SpanRank(<<from, k - 1>>) < SpanRank(<<from, to>>)
          /\ SpanRank(<<k + 1, to>>) < SpanRank(<<from, to>>)
      BY DEF SpanRank
    <3>2. <<from, k - 1>> \in D /\ <<k + 1, to>> \in D
      OBVIOUS
    <3>. QED  BY <1>4, <3>1, <3>2
  <2>3. from < to => f[<<from + 1, to - 1>>] = g[<<from + 1, to - 1>>]
    <3>. SUFFICES ASSUME from < to PROVE f[<<from + 1, to - 1>>] = g[<<from + 1, to - 1>>]
      OBVIOUS
    <3>1. SpanRank(<<from + 1, to - 1>>) < SpanRank(<<from, to>>)
      BY DEF SpanRank
    <3>2. <<from + 1, to - 1>> \in D
      OBVIOUS
    <3>. QED  BY <1>4, <3>1, <3>2
  <2>6. ors # {} => (CHOOSE i \in ors : TRUE) \in from..to
    BY <2>1
  <2>7. ands # {} => (CHOOSE i \in ands : TRUE) \in from..to
    BY <2>1
  <2>8. CASE ors # {}
    BY <2>2, <2>6, <2>8 DEF OffersBetween, ors
  <2>9. CASE ors = {} /\ ands # {}
    BY <2>2, <2>7, <2>9 DEF OffersBetween, ors, ands
  <2>10. CASE ors = {} /\ ands = {}
    BY <2>3, <2>10 DEF OffersBetween, ors, ands
  <2>. QED  BY <2>8, <2>9, <2>10
<1>5. \A c \in D : \A f \in FunctionsWithin(D, W) :
        G[<<c, f>>] = OffersBetween(tokens, f, c[1], c[2]) /\ W[c] = ChoiceSets(tokens)
  OBVIOUS
<1>6. \A c \in D : c = <<c[1], c[2]>> /\ c[1] \in Int /\ c[2] \in Int
  OBVIOUS
<1>. HIDE DEF G
<1>7. Descends(D, rank, W, G)
  <2>1. \A c \in D : \A f \in FunctionsWithin(D, W) : G[<<c, f>>] \in W[c]
    <3>. SUFFICES ASSUME NEW c \in D, NEW f \in FunctionsWithin(D, W) PROVE G[<<c, f>>] \in W[c]
      OBVIOUS
    <3>1. c[1] \in Int /\ c[2] \in Int
      BY <1>6
    <3>. DEFINE from == c[1]
                to == c[2]
    <3>2. from \in Int /\ to \in Int
      BY <3>1
    <3>. HIDE DEF from, to
    <3>3. OffersBetween(tokens, f, from, to) \in ChoiceSets(tokens)
      BY <1>3, <3>2
    <3>4. G[<<c, f>>] = OffersBetween(tokens, f, from, to) /\ W[c] = ChoiceSets(tokens)
      BY <1>5 DEF from, to
    <3>. QED  BY <3>3, <3>4
  <2>2. ASSUME NEW c \in D, NEW f \in FunctionsWithin(D, W), NEW g \in FunctionsWithin(D, W),
               \A y \in D : rank[y] < rank[c] => f[y] = g[y]
        PROVE  G[<<c, f>>] = G[<<c, g>>]
    <3>1. \A y \in D : SpanRank(y) < SpanRank(<<c[1], c[2]>>) => f[y] = g[y]
      BY <1>6, <2>2
    <3>2. OffersBetween(tokens, f, c[1], c[2]) = OffersBetween(tokens, g, c[1], c[2])
      <4>. DEFINE from == c[1]
                  to == c[2]
      <4>1. from \in Int /\ to \in Int
        BY <1>6
      <4>2. \A y \in D : SpanRank(y) < SpanRank(<<from, to>>) => f[y] = g[y]
        BY <3>1
      <4>. HIDE DEF from, to, D, W
      <4>3. OffersBetween(tokens, f, from, to) = OffersBetween(tokens, g, from, to)
        BY <1>4, <4>1, <4>2
      <4>. QED  BY <4>3 DEF from, to
    <3>. QED  BY <1>5, <3>2
  <2>. HIDE DEF W, rank
  <2>. QED  BY <2>1, <2>2 DEF Descends
<1>8. Inhabited(D, W)
  <2>1. {} \in ChoiceSets(tokens)
    BY DEF ChoiceSets
  <2>. QED  BY <2>1 DEF Inhabited
<1>9. PICK f : Solves(f, D, W, G)
  <2>. HIDE DEF D, W, G, rank
  <2>. QED  BY <1>1, <1>7, <1>8, Recursion
<1>10. f = [span \in Int \X Int |-> OffersBetween(tokens, f, span[1], span[2])]
  BY <1>5, <1>9 DEF FunctionsWithin, Solves
<1>11. Offers(tokens) = [span \in Int \X Int |-> OffersBetween(tokens, Offers(tokens), span[1], span[2])]
  BY <1>10 DEF Offers
<1>. QED  BY <1>11

\* The depth changes at parentheses alone.
LEMMA DepthStep ==
    ASSUME NEW tokens, NEW n \in Nat, n > 0
    PROVE  /\ Depth(tokens, n) \in Int /\ Depth(tokens, n - 1) \in Int
           /\ Depth(tokens, n) = Depth(tokens, n - 1)
                + (IF tokens[n] = Open THEN 1 ELSE IF tokens[n] = Close THEN -1 ELSE 0)
<1>1. \A token : \A k \in Nat : Cardinality(Places(tokens, token, k)) \in Nat /\ IsFiniteSet(Places(tokens, token, k))
  <2>. SUFFICES ASSUME NEW token, NEW k \in Nat
                PROVE  Cardinality(Places(tokens, token, k)) \in Nat /\ IsFiniteSet(Places(tokens, token, k))
    OBVIOUS
  <2>1. IsFiniteSet(1..k) /\ Places(tokens, token, k) \subseteq 1..k
    BY FS_Interval DEF Places
  <2>. QED  BY <2>1, FS_Subset, FS_CardinalityType
<1>2. n - 1 \in Nat
  OBVIOUS
<1>3. ASSUME NEW token
      PROVE  Cardinality(Places(tokens, token, n)) =
               Cardinality(Places(tokens, token, n - 1)) + (IF tokens[n] = token THEN 1 ELSE 0)
  <2>1. CASE tokens[n] = token
    <3>1. Places(tokens, token, n) = Places(tokens, token, n - 1) \cup {n} /\ n \notin Places(tokens, token, n - 1)
      BY <2>1 DEF Places
    <3>. QED  BY <1>1, <1>2, <2>1, <3>1, FS_AddElement
  <2>2. CASE tokens[n] # token
    <3>1. Places(tokens, token, n) = Places(tokens, token, n - 1)
      BY <2>2 DEF Places
    <3>2. Cardinality(Places(tokens, token, n - 1)) \in Nat
      BY <1>1, <1>2
    <3>. QED  BY <2>2, <3>1, <3>2
  <2>. QED  BY <2>1, <2>2
<1>4. Cardinality(Places(tokens, Open, n)) \in Nat /\ Cardinality(Places(tokens, Open, n - 1)) \in Nat
      /\ Cardinality(Places(tokens, Close, n)) \in Nat /\ Cardinality(Places(tokens, Close, n - 1)) \in Nat
  BY <1>1, <1>2
<1>5. /\ Cardinality(Places(tokens, Open, n)) =
           Cardinality(Places(tokens, Open, n - 1)) + (IF tokens[n] = Open THEN 1 ELSE 0)
      /\ Cardinality(Places(tokens, Close, n)) =
           Cardinality(Places(tokens, Close, n - 1)) + (IF tokens[n] = Close THEN 1 ELSE 0)
  BY <1>3
<1>. QED  BY <1>4, <1>5, Words DEF Depth

SplitsBelow(S, k) == {m \in S : m < k}
SplitsAbove(S, k) == {m \in S : m > k}

\* A split leaves the others where they are.
LEMMA SplitsWithin ==
    ASSUME NEW tokens, NEW from \in Int, NEW to \in Int, NEW operator, NEW k \in Splits(tokens, operator, from, to)
    PROVE  /\ k \in Int /\ from <= k /\ k <= to
           /\ SpanRank(<<from, k - 1>>) < SpanRank(<<from, to>>)
           /\ SpanRank(<<k + 1, to>>) < SpanRank(<<from, to>>)
<1>1. k \in from..to /\ Depth(tokens, k) = Depth(tokens, from - 1)
  BY DEF Splits
<1>2. k \in Int /\ from <= k /\ k <= to
  BY <1>1
<1>3. SpanRank(<<from, k - 1>>) < SpanRank(<<from, to>>) /\ SpanRank(<<k + 1, to>>) < SpanRank(<<from, to>>)
  BY <1>2 DEF SpanRank
<1>. QED  BY <1>2, <1>3

LEMMA SplitsBeside ==
    ASSUME NEW tokens, NEW from \in Int, NEW to \in Int, NEW operator, NEW k, k \in Splits(tokens, operator, from, to),
           NEW other
    PROVE  /\ Splits(tokens, other, from, k - 1) = SplitsBelow(Splits(tokens, other, from, to), k)
           /\ Splits(tokens, other, k + 1, to) = SplitsAbove(Splits(tokens, other, from, to), k)
<1>1. k \in Int /\ from <= k /\ k <= to /\ Depth(tokens, k) = Depth(tokens, from - 1) /\ (k + 1) - 1 = k
  BY DEF Splits
<1>2. from..(k - 1) = {m \in from..to : m < k} /\ (k + 1)..to = {m \in from..to : m > k}
  BY <1>1
<1>. QED  BY <1>1, <1>2 DEF Splits, SplitsBelow, SplitsAbove

LEMMA SplitsApart ==
    ASSUME NEW tokens, NEW from \in Int, NEW to \in Int, NEW operator,
           NEW k \in Splits(tokens, operator, from, to), NEW m \in Splits(tokens, operator, from, to), m < k
    PROVE  m \in Splits(tokens, operator, from, k - 1) /\ k \in Splits(tokens, operator, m + 1, to)
<1>1. Splits(tokens, operator, from, k - 1) = SplitsBelow(Splits(tokens, operator, from, to), k)
  BY SplitsBeside
<1>2. Splits(tokens, operator, m + 1, to) = SplitsAbove(Splits(tokens, operator, from, to), m)
  BY SplitsBeside
<1>3. m \in Int /\ k \in Int
  BY SplitsWithin
<1>. QED  BY <1>1, <1>2, <1>3 DEF SplitsBelow, SplitsAbove

LEMMA SplitsNone ==
    ASSUME NEW tokens, NEW from \in Int, NEW to \in Int, NEW operator,
           NEW k \in Splits(tokens, operator, from, to), NEW other
    PROVE  Splits(tokens, other, from, to) = {} =>
             Splits(tokens, other, from, k - 1) = {} /\ Splits(tokens, other, k + 1, to) = {}
<1>1. Splits(tokens, other, from, k - 1) = SplitsBelow(Splits(tokens, other, from, to), k)
  BY SplitsBeside
<1>2. Splits(tokens, other, k + 1, to) = SplitsAbove(Splits(tokens, other, from, to), k)
  BY SplitsBeside
<1>. QED  BY <1>1, <1>2 DEF SplitsBelow, SplitsAbove

\* Every OR outside parentheses divides the choices.
LEMMA SplitOr ==
    ASSUME NEW tokens, NEW from \in Int, NEW to \in Int, NEW k \in Splits(tokens, "OR", from, to)
    PROVE  Offers(tokens)[<<from, to>>] = Offers(tokens)[<<from, k - 1>>] \cup Offers(tokens)[<<k + 1, to>>]
<1>. DEFINE O == Offers(tokens)
            S == {n \in Nat : \A i, j \in Int : SpanRank(<<i, j>>) < n =>
                    \A m \in Splits(tokens, "OR", i, j) : O[<<i, j>>] = O[<<i, m - 1>>] \cup O[<<m + 1, j>>]}
<1>0. \A i, j \in Int : SpanRank(<<i, j>>) \in Nat
  BY DEF SpanRank
<1>1. 0 \in S
  BY <1>0
<1>2. ASSUME NEW n \in Nat, n \in S PROVE n + 1 \in S
  <2>. SUFFICES ASSUME NEW i \in Int, NEW j \in Int, SpanRank(<<i, j>>) < n + 1,
                       NEW m \in Splits(tokens, "OR", i, j)
                PROVE  O[<<i, j>>] = O[<<i, m - 1>>] \cup O[<<m + 1, j>>]
    OBVIOUS
  <2>. DEFINE c == CHOOSE x \in Splits(tokens, "OR", i, j) : TRUE
  <2>1. c \in Splits(tokens, "OR", i, j)
    OBVIOUS
  <2>2. O[<<i, j>>] = O[<<i, c - 1>>] \cup O[<<c + 1, j>>]
    BY OffersUnfold DEF OffersBetween
  <2>. HIDE DEF c
  <2>3. /\ m \in Int /\ c \in Int
        /\ SpanRank(<<i, c - 1>>) < SpanRank(<<i, j>>) /\ SpanRank(<<c + 1, j>>) < SpanRank(<<i, j>>)
        /\ SpanRank(<<i, m - 1>>) < SpanRank(<<i, j>>) /\ SpanRank(<<m + 1, j>>) < SpanRank(<<i, j>>)
    BY <2>1, SplitsWithin
  <2>4. \A a, b \in Int : SpanRank(<<a, b>>) < SpanRank(<<i, j>>) =>
           \A x \in Splits(tokens, "OR", a, b) : O[<<a, b>>] = O[<<a, x - 1>>] \cup O[<<x + 1, b>>]
    <3>1. \A a, b \in Int : SpanRank(<<a, b>>) < SpanRank(<<i, j>>) => SpanRank(<<a, b>>) < n
      BY <1>0
    <3>. QED  BY <1>2, <3>1
  <2>. HIDE DEF S, O
  <2>5. CASE m < c
    <3>1. m \in Splits(tokens, "OR", i, c - 1) /\ c \in Splits(tokens, "OR", m + 1, j)
      BY <2>1, <2>5, SplitsApart
    <3>2. O[<<i, c - 1>>] = O[<<i, m - 1>>] \cup O[<<m + 1, c - 1>>]
      BY <2>3, <2>4, <3>1
    <3>3. O[<<m + 1, j>>] = O[<<m + 1, c - 1>>] \cup O[<<c + 1, j>>]
      BY <2>3, <2>4, <3>1
    <3>. QED  BY <2>2, <3>2, <3>3
  <2>6. CASE c < m
    <3>1. c \in Splits(tokens, "OR", i, m - 1) /\ m \in Splits(tokens, "OR", c + 1, j)
      BY <2>1, <2>6, SplitsApart
    <3>2. O[<<i, m - 1>>] = O[<<i, c - 1>>] \cup O[<<c + 1, m - 1>>]
      BY <2>3, <2>4, <3>1
    <3>3. O[<<c + 1, j>>] = O[<<c + 1, m - 1>>] \cup O[<<m + 1, j>>]
      BY <2>3, <2>4, <3>1
    <3>. QED  BY <2>2, <3>2, <3>3
  <2>7. CASE c = m
    BY <2>2, <2>7
  <2>. QED  BY <2>3, <2>5, <2>6, <2>7
<1>. HIDE DEF S
<1>3. Nat \subseteq S
  BY <1>1, <1>2, Induction
<1>4. SpanRank(<<from, to>>) + 1 \in S /\ SpanRank(<<from, to>>) < SpanRank(<<from, to>>) + 1
  BY <1>0, <1>3
<1>. QED  BY <1>4 DEF S

LEMMA BothIs ==
    ASSUME NEW a, NEW b, NEW p
    PROVE  p \in Both(a, b) <=> \E u \in a : \E v \in b : p = u \cup v
<1>1. ASSUME p \in Both(a, b) PROVE \E u \in a : \E v \in b : p = u \cup v
  <2>1. PICK q \in a \X b : p = q[1] \cup q[2]
    BY <1>1 DEF Both
  <2>. QED  BY <2>1
<1>2. ASSUME NEW u \in a, NEW v \in b, p = u \cup v PROVE p \in Both(a, b)
  <2>1. <<u, v>> \in a \X b /\ <<u, v>>[1] = u /\ <<u, v>>[2] = v
    OBVIOUS
  <2>. QED  BY <1>2, <2>1 DEF Both
<1>. QED  BY <1>1, <1>2

LEMMA BothAssociates ==
    ASSUME NEW a, NEW b, NEW c
    PROVE  Both(Both(a, b), c) = Both(a, Both(b, c))
<1>1. ASSUME NEW p \in Both(Both(a, b), c) PROVE p \in Both(a, Both(b, c))
  <2>1. PICK q \in Both(a, b), w \in c : p = q \cup w
    BY BothIs
  <2>2. PICK u \in a, v \in b : q = u \cup v
    BY BothIs
  <2>3. v \cup w \in Both(b, c)
    BY BothIs
  <2>4. p = u \cup (v \cup w)
    BY <2>1, <2>2
  <2>. QED  BY <2>3, <2>4, BothIs
<1>2. ASSUME NEW p \in Both(a, Both(b, c)) PROVE p \in Both(Both(a, b), c)
  <2>1. PICK u \in a, q \in Both(b, c) : p = u \cup q
    BY BothIs
  <2>2. PICK v \in b, w \in c : q = v \cup w
    BY BothIs
  <2>3. u \cup v \in Both(a, b)
    BY BothIs
  <2>4. p = (u \cup v) \cup w
    BY <2>1, <2>2
  <2>. QED  BY <2>3, <2>4, BothIs
<1>. QED  BY <1>1, <1>2

\* Where no OR stands outside parentheses, every AND binds what is on its two sides.
LEMMA SplitAnd ==
    ASSUME NEW tokens, NEW from \in Int, NEW to \in Int, Splits(tokens, "OR", from, to) = {},
           NEW k \in Splits(tokens, "AND", from, to)
    PROVE  Offers(tokens)[<<from, to>>] = Both(Offers(tokens)[<<from, k - 1>>], Offers(tokens)[<<k + 1, to>>])
<1>. DEFINE O == Offers(tokens)
            S == {n \in Nat : \A i, j \in Int :
                    SpanRank(<<i, j>>) < n /\ Splits(tokens, "OR", i, j) = {} =>
                      \A m \in Splits(tokens, "AND", i, j) : O[<<i, j>>] = Both(O[<<i, m - 1>>], O[<<m + 1, j>>])}
<1>0. \A i, j \in Int : SpanRank(<<i, j>>) \in Nat
  BY DEF SpanRank
<1>1. 0 \in S
  BY <1>0
<1>2. ASSUME NEW n \in Nat, n \in S PROVE n + 1 \in S
  <2>. SUFFICES ASSUME NEW i \in Int, NEW j \in Int, SpanRank(<<i, j>>) < n + 1,
                       Splits(tokens, "OR", i, j) = {}, NEW m \in Splits(tokens, "AND", i, j)
                PROVE  O[<<i, j>>] = Both(O[<<i, m - 1>>], O[<<m + 1, j>>])
    OBVIOUS
  <2>. DEFINE c == CHOOSE x \in Splits(tokens, "AND", i, j) : TRUE
  <2>1. c \in Splits(tokens, "AND", i, j)
    OBVIOUS
  <2>2. O[<<i, j>>] = Both(O[<<i, c - 1>>], O[<<c + 1, j>>])
    BY OffersUnfold DEF OffersBetween
  <2>. HIDE DEF c
  <2>3. /\ m \in Int /\ c \in Int
        /\ SpanRank(<<i, c - 1>>) < SpanRank(<<i, j>>) /\ SpanRank(<<c + 1, j>>) < SpanRank(<<i, j>>)
        /\ SpanRank(<<i, m - 1>>) < SpanRank(<<i, j>>) /\ SpanRank(<<m + 1, j>>) < SpanRank(<<i, j>>)
    BY <2>1, SplitsWithin
  <2>4. \A a, b \in Int : SpanRank(<<a, b>>) < SpanRank(<<i, j>>) /\ Splits(tokens, "OR", a, b) = {} =>
           \A x \in Splits(tokens, "AND", a, b) : O[<<a, b>>] = Both(O[<<a, x - 1>>], O[<<x + 1, b>>])
    <3>1. \A a, b \in Int : SpanRank(<<a, b>>) < SpanRank(<<i, j>>) => SpanRank(<<a, b>>) < n
      BY <1>0
    <3>. QED  BY <1>2, <3>1
  <2>. HIDE DEF S, O
  <2>5. /\ Splits(tokens, "OR", i, c - 1) = {} /\ Splits(tokens, "OR", c + 1, j) = {}
        /\ Splits(tokens, "OR", i, m - 1) = {} /\ Splits(tokens, "OR", m + 1, j) = {}
    BY <2>1, SplitsNone
  <2>6. CASE m < c
    <3>1. m \in Splits(tokens, "AND", i, c - 1) /\ c \in Splits(tokens, "AND", m + 1, j)
      BY <2>1, <2>6, SplitsApart
    <3>2. O[<<i, c - 1>>] = Both(O[<<i, m - 1>>], O[<<m + 1, c - 1>>])
      BY <2>3, <2>4, <2>5, <3>1
    <3>3. O[<<m + 1, j>>] = Both(O[<<m + 1, c - 1>>], O[<<c + 1, j>>])
      BY <2>3, <2>4, <2>5, <3>1
    <3>. QED  BY <2>2, <3>2, <3>3, BothAssociates
  <2>7. CASE c < m
    <3>1. c \in Splits(tokens, "AND", i, m - 1) /\ m \in Splits(tokens, "AND", c + 1, j)
      BY <2>1, <2>7, SplitsApart
    <3>2. O[<<i, m - 1>>] = Both(O[<<i, c - 1>>], O[<<c + 1, m - 1>>])
      BY <2>3, <2>4, <2>5, <3>1
    <3>3. O[<<c + 1, j>>] = Both(O[<<c + 1, m - 1>>], O[<<m + 1, j>>])
      BY <2>3, <2>4, <2>5, <3>1
    <3>. QED  BY <2>2, <3>2, <3>3, BothAssociates
  <2>8. CASE c = m
    BY <2>2, <2>8
  <2>. QED  BY <2>3, <2>6, <2>7, <2>8
<1>. HIDE DEF S
<1>3. Nat \subseteq S
  BY <1>1, <1>2, Induction
<1>4. SpanRank(<<from, to>>) + 1 \in S /\ SpanRank(<<from, to>>) < SpanRank(<<from, to>>) + 1
  BY <1>0, <1>3
<1>. QED  BY <1>4 DEF S

-----------------------------------------------------------------------------
(* Verdicts and choices.                                                   *)

AllPermitted(policy, terms) == \A t \in terms : EvaluateTerm(policy, t) = Permitted
HasDenied(policy, terms) == \E t \in terms : EvaluateTerm(policy, t) = Denied

\* A result is what the choices allow.
Agrees(policy, e, offers) ==
    /\ e.result \in Verdicts
    /\ \A c \in offers : c # {}
    /\ e.result = Permitted <=> \E c \in offers : AllPermitted(policy, c)
    /\ e.result = Denied <=> \A c \in offers : HasDenied(policy, c)
    /\ e.result = Permitted => e.satisfied \in offers /\ AllPermitted(policy, e.satisfied)

LEMMA TermAgrees ==
    ASSUME NEW policy, NEW t, NEW e, e = [result |-> EvaluateTerm(policy, t), satisfied |-> {t}]
    PROVE  Agrees(policy, e, {{t}})
<1>1. e.result = EvaluateTerm(policy, t) /\ e.satisfied = {t} /\ e.result \in Verdicts
  BY TermVerdict
<1>. QED  BY <1>1 DEF Agrees, AllPermitted, HasDenied

LEMMA OrAgrees ==
    ASSUME NEW policy, NEW a, NEW b, NEW e, NEW A, NEW B, Agrees(policy, a, A), Agrees(policy, b, B),
           e.result \in Verdicts,
           e.result = Permitted <=> a.result = Permitted \/ b.result = Permitted,
           e.result = Denied <=> a.result = Denied /\ b.result = Denied,
           e.result = Permitted => e.satisfied = IF a.result = Permitted THEN a.satisfied ELSE b.satisfied
    PROVE  Agrees(policy, e, A \cup B)
  BY DEF Agrees

LEMMA AndAgrees ==
    ASSUME NEW policy, NEW a, NEW b, NEW e, NEW A, NEW B, Agrees(policy, a, A), Agrees(policy, b, B),
           e.result \in Verdicts,
           e.result = Permitted <=> a.result = Permitted /\ b.result = Permitted,
           e.result = Denied <=> a.result = Denied \/ b.result = Denied,
           e.result = Permitted => e.satisfied = a.satisfied \cup b.satisfied
    PROVE  Agrees(policy, e, Both(A, B))
<1>1. \A u, v : /\ AllPermitted(policy, u \cup v) <=> AllPermitted(policy, u) /\ AllPermitted(policy, v)
                /\ HasDenied(policy, u \cup v) <=> HasDenied(policy, u) \/ HasDenied(policy, v)
  BY DEF AllPermitted, HasDenied
<1>2. \A u \in A : \A v \in B : u \cup v \in Both(A, B)
  BY BothIs
<1>3. \A c \in Both(A, B) : \E u \in A : \E v \in B : c = u \cup v
  BY BothIs
<1>4. \A c \in Both(A, B) : c # {}
  BY <1>3 DEF Agrees
<1>5. e.result = Permitted <=> \E c \in Both(A, B) : AllPermitted(policy, c)
  <2>1. ASSUME e.result = Permitted PROVE \E c \in Both(A, B) : AllPermitted(policy, c)
    <3>1. PICK u \in A, v \in B : AllPermitted(policy, u) /\ AllPermitted(policy, v)
      BY <2>1 DEF Agrees
    <3>. QED  BY <1>1, <1>2, <3>1
  <2>2. ASSUME NEW c \in Both(A, B), AllPermitted(policy, c) PROVE e.result = Permitted
    <3>1. PICK u \in A, v \in B : c = u \cup v
      BY <1>3
    <3>. QED  BY <1>1, <2>2, <3>1 DEF Agrees
  <2>. QED  BY <2>1, <2>2
<1>6. e.result = Denied <=> \A c \in Both(A, B) : HasDenied(policy, c)
  <2>1. ASSUME e.result = Denied, NEW c \in Both(A, B) PROVE HasDenied(policy, c)
    <3>1. PICK u \in A, v \in B : c = u \cup v
      BY <1>3
    <3>. QED  BY <1>1, <2>1, <3>1 DEF Agrees
  <2>2. ASSUME e.result # Denied PROVE \E c \in Both(A, B) : ~HasDenied(policy, c)
    <3>1. PICK u \in A, v \in B : ~HasDenied(policy, u) /\ ~HasDenied(policy, v)
      BY <2>2 DEF Agrees
    <3>. QED  BY <1>1, <1>2, <3>1
  <2>. QED  BY <2>1, <2>2
<1>7. e.result = Permitted => e.satisfied \in Both(A, B) /\ AllPermitted(policy, e.satisfied)
  BY <1>1, <1>2 DEF Agrees
<1>. QED  BY <1>4, <1>5, <1>6, <1>7 DEF Agrees

Folded(rule, outcomes, n) == IF n = 1 THEN outcomes[1] ELSE Joined(rule, outcomes)

LEMMA FoldedOr ==
    ASSUME NEW n \in Nat, n > 0, NEW s, DOMAIN s = 1..n, \A m \in 1..n : s[m].result \in Verdicts,
           NEW e, e = Folded("or", s, n)
    PROVE  /\ e.result \in Verdicts
           /\ e.result = Permitted <=> \E m \in 1..n : s[m].result = Permitted
           /\ e.result = Denied <=> \A m \in 1..n : s[m].result = Denied
           /\ e.result = Permitted => \E m \in 1..n :
                /\ s[m].result = Permitted /\ e.satisfied = s[m].satisfied
                /\ \A k \in 1..n : s[k].result = Permitted => m <= k
<1>1. CASE n = 1
  BY <1>1 DEF Folded
<1>2. CASE n # 1
  <2>. DEFINE permitted == {m \in DOMAIN s : s[m].result = Permitted}
              first == CHOOSE m \in permitted : \A k \in permitted : m <= k
  <2>1. e = Disjunction(s)
    BY <1>2 DEF Folded, Joined
  <2>2. CASE permitted = {}
    <3>1. e = [result |-> IF \A m \in DOMAIN s : s[m].result = Denied THEN Denied ELSE Undetermined, satisfied |-> {}]
      BY <2>1, <2>2 DEF Disjunction
    <3>2. e.result = IF \A m \in 1..n : s[m].result = Denied THEN Denied ELSE Undetermined
      BY <3>1
    <3>. QED  BY <2>2, <3>2 DEF Verdicts, Permitted, Denied, Undetermined
  <2>3. CASE permitted # {}
    <3>1. permitted \subseteq Nat
      OBVIOUS
    <3>2. first \in permitted /\ \A k \in permitted : first <= k
      BY <2>3, <3>1, Least
    <3>3. e = s[first]
      BY <2>1, <2>3 DEF Disjunction
    <3>. HIDE DEF first
    <3>. QED  BY <3>2, <3>3 DEF Permitted, Denied
  <2>. QED  BY <2>2, <2>3
<1>. QED  BY <1>1, <1>2

LEMMA FoldedAnd ==
    ASSUME NEW n \in Nat, n > 0, NEW s, DOMAIN s = 1..n, \A m \in 1..n : s[m].result \in Verdicts,
           NEW e, e = Folded("and", s, n)
    PROVE  /\ e.result \in Verdicts
           /\ e.result = Permitted <=> \A m \in 1..n : s[m].result = Permitted
           /\ e.result = Denied <=> \E m \in 1..n : s[m].result = Denied
           /\ e.result = Permitted => e.satisfied = Satisfied(s)
<1>1. CASE n = 1
  <2>1. Satisfied(s) = s[1].satisfied
    BY <1>1 DEF Satisfied
  <2>. QED  BY <1>1, <2>1 DEF Folded
<1>2. CASE n # 1
  <2>. DEFINE outs == [m \in DOMAIN s |-> s[m].result]
              result == Conjunction(outs)
  <2>1. e = [result |-> result, satisfied |-> IF result = Permitted THEN Satisfied(s) ELSE {}]
    BY <1>2 DEF Folded, Joined
  <2>2. DOMAIN outs = 1..n /\ \A m \in 1..n : outs[m] = s[m].result
    OBVIOUS
  <2>. HIDE DEF outs
  <2>3. /\ result \in Verdicts
        /\ result = Permitted <=> \A m \in 1..n : s[m].result = Permitted
        /\ result = Denied <=> \E m \in 1..n : s[m].result = Denied
    BY <2>2 DEF Conjunction, Verdicts, Permitted, Denied, Undetermined
  <2>. HIDE DEF result
  <2>4. e.result = result /\ (result = Permitted => e.satisfied = Satisfied(s))
    BY <2>1
  <2>. QED  BY <2>3, <2>4
<1>. QED  BY <1>1, <1>2

\* One more operand at the head of a list.
LEMMA FoldedAgrees ==
    ASSUME NEW policy, NEW rule \in {"or", "and"}, NEW a, NEW A, NEW B, NEW n \in Nat, n > 0, NEW s, DOMAIN s = 1..n,
           \A m \in 1..n : s[m].result \in Verdicts,
           Agrees(policy, a, A), Agrees(policy, Folded(rule, s, n), B),
           NEW c, DOMAIN c = 1..(n + 1), c[1] = a, \A m \in 2..(n + 1) : c[m] = s[m - 1],
           NEW e, e = Folded(rule, c, n + 1)
    PROVE  Agrees(policy, e, IF rule = "or" THEN A \cup B ELSE Both(A, B))
<1>. DEFINE b == Folded(rule, s, n)
<1>1. a.result \in Verdicts
  BY DEF Agrees
<1>2. \A m \in 1..(n + 1) : c[m].result \in Verdicts
  <2>1. \A m \in 1..(n + 1) : m = 1 \/ (m \in 2..(n + 1) /\ m - 1 \in 1..n)
    OBVIOUS
  <2>. QED  BY <1>1, <2>1
<1>3. /\ \A m \in 1..n : m + 1 \in 2..(n + 1) /\ c[m + 1] = s[m]
      /\ 1 \in 1..(n + 1)
      /\ \A m \in 1..(n + 1) : m = 1 \/ (m - 1 \in 1..n /\ c[m] = s[m - 1])
      /\ \A m \in 1..n : m + 1 \in 1..(n + 1)
  <2>1. \A m \in 1..n : (m + 1) - 1 = m
    OBVIOUS
  <2>. QED  BY <2>1
<1>4. n + 1 \in Nat /\ n + 1 > 0
  OBVIOUS
<1>7. b = Folded(rule, s, n)
  OBVIOUS
<1>. HIDE DEF b
<1>5. CASE rule = "or"
  <2>1. /\ b.result \in Verdicts
        /\ b.result = Permitted <=> \E m \in 1..n : s[m].result = Permitted
        /\ b.result = Denied <=> \A m \in 1..n : s[m].result = Denied
        /\ b.result = Permitted => \E m \in 1..n :
             /\ s[m].result = Permitted /\ b.satisfied = s[m].satisfied
             /\ \A k \in 1..n : s[k].result = Permitted => m <= k
    BY <1>5, <1>7, FoldedOr
  <2>2. /\ e.result \in Verdicts
        /\ e.result = Permitted <=> \E m \in 1..(n + 1) : c[m].result = Permitted
        /\ e.result = Denied <=> \A m \in 1..(n + 1) : c[m].result = Denied
        /\ e.result = Permitted => \E m \in 1..(n + 1) :
             /\ c[m].result = Permitted /\ e.satisfied = c[m].satisfied
             /\ \A k \in 1..(n + 1) : c[k].result = Permitted => m <= k
    BY <1>2, <1>4, <1>5, FoldedOr
  <2>3. e.result = Permitted <=> a.result = Permitted \/ b.result = Permitted
    BY <1>3, <2>1, <2>2
  <2>4. e.result = Denied <=> a.result = Denied /\ b.result = Denied
    BY <1>3, <2>1, <2>2
  <2>5. ASSUME e.result = Permitted
        PROVE  e.satisfied = IF a.result = Permitted THEN a.satisfied ELSE b.satisfied
    <3>1. PICK m \in 1..(n + 1) : /\ c[m].result = Permitted /\ e.satisfied = c[m].satisfied
                                  /\ \A k \in 1..(n + 1) : c[k].result = Permitted => m <= k
      BY <2>2, <2>5
    <3>2. CASE a.result = Permitted
      <4>1. m = 1
        BY <1>3, <3>1, <3>2
      <4>. QED  BY <3>1, <3>2, <4>1
    <3>3. CASE a.result # Permitted
      <4>1. m - 1 \in 1..n /\ c[m] = s[m - 1]
        BY <1>3, <3>1, <3>3
      <4>2. PICK i \in 1..n : /\ s[i].result = Permitted /\ b.satisfied = s[i].satisfied
                              /\ \A k \in 1..n : s[k].result = Permitted => i <= k
        BY <2>1, <2>3, <2>5, <3>3
      <4>3. i <= m - 1
        BY <3>1, <4>1, <4>2
      <4>4. m <= i + 1
        BY <1>3, <3>1, <4>2
      <4>5. i = m - 1
        BY <4>3, <4>4
      <4>. QED  BY <3>1, <3>3, <4>1, <4>2, <4>5
    <3>. QED  BY <3>2, <3>3
  <2>6. Agrees(policy, b, B)
    BY <1>7
  <2>7. Agrees(policy, e, A \cup B)
    BY <2>2, <2>3, <2>4, <2>5, <2>6, OrAgrees
  <2>. QED  BY <1>5, <2>7
<1>6. CASE rule = "and"
  <2>1. /\ b.result \in Verdicts
        /\ b.result = Permitted <=> \A m \in 1..n : s[m].result = Permitted
        /\ b.result = Denied <=> \E m \in 1..n : s[m].result = Denied
        /\ b.result = Permitted => b.satisfied = Satisfied(s)
    BY <1>6, <1>7, FoldedAnd
  <2>2. /\ e.result \in Verdicts
        /\ e.result = Permitted <=> \A m \in 1..(n + 1) : c[m].result = Permitted
        /\ e.result = Denied <=> \E m \in 1..(n + 1) : c[m].result = Denied
        /\ e.result = Permitted => e.satisfied = Satisfied(c)
    BY <1>2, <1>4, <1>6, FoldedAnd
  <2>3. e.result = Permitted <=> a.result = Permitted /\ b.result = Permitted
    BY <1>3, <2>1, <2>2
  <2>4. e.result = Denied <=> a.result = Denied \/ b.result = Denied
    BY <1>3, <2>1, <2>2
  <2>5. Satisfied(c) = a.satisfied \cup Satisfied(s)
    <3>1. Satisfied(c) \subseteq a.satisfied \cup Satisfied(s)
      BY <1>3 DEF Satisfied
    <3>2. a.satisfied \subseteq Satisfied(c)
      BY <1>3 DEF Satisfied
    <3>3. Satisfied(s) \subseteq Satisfied(c)
      <4>. SUFFICES ASSUME NEW m \in 1..n, NEW x \in s[m].satisfied PROVE x \in Satisfied(c)
        BY DEF Satisfied
      <4>1. m + 1 \in DOMAIN c /\ x \in c[m + 1].satisfied
        BY <1>3
      <4>. QED  BY <4>1 DEF Satisfied
    <3>. QED  BY <3>1, <3>2, <3>3
  <2>6. Agrees(policy, b, B)
    BY <1>7
  <2>7. Agrees(policy, e, Both(A, B))
    BY <2>1, <2>2, <2>3, <2>4, <2>5, <2>6, AndAgrees
  <2>. QED  BY <1>6, <2>7
<1>. QED  BY <1>5, <1>6

-----------------------------------------------------------------------------
(* What a call takes is what its node stands for.                          *)

LEMMA EvaluateFits ==
    ASSUME NEW policy, NEW tokens, IsTokens(tokens)
    PROVE  \A node \in Nodes(tokens) : Evaluate(policy, tokens)[node].result \in Verdicts
<1>. DEFINE E == Evaluate(policy, tokens)
            S == {n \in Nat : \A c \in Nodes(tokens) : Rank(tokens, c) < n => E[c].result \in Verdicts}
<1>1. \A c \in Nodes(tokens) : Rank(tokens, c) \in Nat
  BY CallFacts
<1>2. 0 \in S
  BY <1>1
<1>3. ASSUME NEW n \in Nat, n \in S PROVE n + 1 \in S
  <2>. SUFFICES ASSUME NEW c \in Nodes(tokens), Rank(tokens, c) < n + 1 PROVE E[c].result \in Verdicts
    OBVIOUS
  <2>. DEFINE operands == Operands(tokens, c)
              outcomes == Outcomes(tokens, E, c)
  <2>1. /\ Len(operands) \in Nat /\ DOMAIN operands = 1..Len(operands)
        /\ operands = <<>> <=> Len(operands) = 0
        /\ \A m \in DOMAIN operands : operands[m] \in Nodes(tokens) /\ Rank(tokens, operands[m]) < Rank(tokens, c)
    BY NodeFacts
  <2>2. \A m \in DOMAIN operands : E[operands[m]].result \in Verdicts
    <3>1. \A m \in DOMAIN operands : Rank(tokens, operands[m]) < n
      BY <1>1, <2>1
    <3>. QED  BY <1>3, <2>1, <3>1
  <2>3. E[c] = IF operands = <<>>
               THEN [result |-> EvaluateTerm(policy, TermOf(tokens, c[2])), satisfied |-> {TermOf(tokens, c[2])}]
               ELSE IF Len(operands) = 1 THEN outcomes[1]
               ELSE Joined(c[1], outcomes)
    BY EvaluateUnfold, NodeIs
  <2>4. DOMAIN outcomes = 1..Len(operands) /\ \A m \in 1..Len(operands) : outcomes[m].result \in Verdicts
    BY <2>1, <2>2 DEF Outcomes
  <2>. HIDE DEF operands, outcomes, E
  <2>5. CASE operands = <<>>
    BY <2>3, <2>5, TermVerdict
  <2>6. CASE Len(operands) = 1
    <3>1. operands # <<>>
      BY <2>1, <2>6
    <3>. QED  BY <2>3, <2>4, <2>6, <3>1
  <2>7. CASE operands # <<>> /\ Len(operands) # 1
    <3>1. E[c] = Joined(c[1], outcomes) /\ Len(operands) > 0
      BY <2>1, <2>3, <2>7
    <3>2. CASE c[1] = "or"
      <4>1. E[c] = Folded("or", outcomes, Len(operands))
        BY <2>7, <3>1, <3>2 DEF Folded
      <4>. QED  BY <2>1, <2>4, <3>1, <4>1, FoldedOr
    <3>3. CASE c[1] # "or"
      <4>1. E[c].result = Conjunction([m \in DOMAIN outcomes |-> outcomes[m].result])
        BY <3>1, <3>3 DEF Joined
      <4>. QED  BY <4>1 DEF Conjunction, Verdicts
    <3>. QED  BY <3>2, <3>3
  <2>. QED  BY <2>5, <2>6, <2>7
<1>. HIDE DEF S
<1>4. Nat \subseteq S
  BY <1>2, <1>3, Induction
<1>5. ASSUME NEW c \in Nodes(tokens) PROVE E[c].result \in Verdicts
  <2>1. Rank(tokens, c) + 1 \in S /\ Rank(tokens, c) < Rank(tokens, c) + 1
    BY <1>1, <1>4
  <2>. QED  BY <2>1 DEF S
<1>. QED  BY <1>5

LEMMA OneOperand ==
    ASSUME NEW policy, NEW tokens, IsTokens(tokens), NEW node \in Nodes(tokens), NEW operand,
           Operands(tokens, node) = <<operand>>
    PROVE  Evaluate(policy, tokens)[node] = Evaluate(policy, tokens)[operand]
<1>. DEFINE E == Evaluate(policy, tokens)
<1>1. Operands(tokens, node) # <<>> /\ Len(Operands(tokens, node)) = 1
      /\ DOMAIN Operands(tokens, node) = {1} /\ Operands(tokens, node)[1] = operand
  OBVIOUS
<1>2. E[node] = Outcomes(tokens, E, node)[1]
  BY <1>1, EvaluateUnfold, NodeIs
<1>. QED  BY <1>1, <1>2 DEF Outcomes

LEMMA Depths ==
    ASSUME NEW tokens, NEW n \in Nat
    PROVE  Depth(tokens, n) \in Int
<1>1. n + 1 \in Nat /\ n + 1 > 0 /\ (n + 1) - 1 = n
  OBVIOUS
<1>. QED  BY <1>1, DepthStep

MayGoOn(tokens, place) == TokenAt(tokens, place) \in {"AND", "OR", Close, None}

\* A call that did not fail, and behind which an expression can go on or end.
Ends(tokens, node) ==
    Parser(tokens)[node].next <= End(tokens) /\ MayGoOn(tokens, Parser(tokens)[node].next)

\* Its tokens are balanced, hold an operator of its own level at most in parentheses,
\* and offer what its verdict says.
Balanced(tokens, rule, here, to) ==
    /\ Depth(tokens, to) = Depth(tokens, here - 1)
    /\ \A k \in here..to : Depth(tokens, k) >= Depth(tokens, here - 1)
    /\ rule # "or" => \A k \in here..to : tokens[k] = "OR" => Depth(tokens, k) > Depth(tokens, here - 1)
    /\ rule = "term" => \A k \in here..to : tokens[k] = "AND" => Depth(tokens, k) > Depth(tokens, here - 1)

Stands(policy, tokens, node) ==
    LET to == Parser(tokens)[node].next - 1
    IN /\ Balanced(tokens, node[1], node[2], to)
       /\ Agrees(policy, Evaluate(policy, tokens)[node], Offers(tokens)[<<node[2], to>>])

LEMMA CanonicalTokens ==
    ASSUME NEW tokens, IsCanonical(tokens)
    PROVE  /\ IsTokens(tokens)
           /\ Len(tokens) \in Nat /\ DOMAIN tokens = 1..Len(tokens)
           /\ End(tokens) = Len(tokens) + 1 /\ Error(tokens) = Len(tokens) + 2
           /\ \A place \in 1..Len(tokens) : TokenAt(tokens, place) = tokens[place] /\ tokens[place] # None
           /\ \A place : TokenAt(tokens, place) # None => place \in 1..Len(tokens) /\ TokenAt(tokens, place) = tokens[place]
           /\ \A place \in 1..Len(tokens) :
                tokens[place] \in {Open, "WITH"} =>
                  place + 1 \in 1..Len(tokens) /\ tokens[place + 1] \notin Reserved
<1>1. tokens \in Seq(STRING \ {None})
  BY DEF IsCanonical
<1>2. IsTokens(tokens)
  BY <1>1 DEF IsTokens
<1>3. Len(tokens) \in Nat /\ DOMAIN tokens = 1..Len(tokens)
  BY <1>1
<1>4. \A place \in 1..Len(tokens) : tokens[place] # None
  BY <1>1
<1>5. \A place \in 1..Len(tokens) :
        tokens[place] \in {Open, "WITH"} =>
          place + 1 \in 1..Len(tokens) /\ tokens[place + 1] \notin Reserved
  <2>1. \A n \in DOMAIN tokens :
          tokens[n] \in {Open, "WITH"} => n < Len(tokens) /\ tokens[n + 1] \notin Reserved
    BY Zenon DEF IsCanonical
  <2>2. ASSUME NEW place \in 1..Len(tokens), tokens[place] \in {Open, "WITH"}
        PROVE  place + 1 \in 1..Len(tokens) /\ tokens[place + 1] \notin Reserved
    <3>1. place < Len(tokens) /\ tokens[place + 1] \notin Reserved
      BY <1>3, <2>1, <2>2, Zenon
    <3>2. place + 1 \in 1..Len(tokens)
      BY <1>3, <3>1
    <3>. QED  BY <3>1, <3>2
  <2>. QED  BY <2>2
<1>6. End(tokens) = Len(tokens) + 1 /\ Error(tokens) = Len(tokens) + 2
  BY DEF End, Error
<1>7. \A place \in 1..Len(tokens) : TokenAt(tokens, place) = tokens[place]
  BY <1>3 DEF TokenAt
<1>. QED  BY <1>2, <1>3, <1>4, <1>5, <1>6, <1>7, CallFacts

\* A license, with its exception.
LEMMA LicenseStands ==
    ASSUME NEW policy, NEW tokens, IsCanonical(tokens), NEW here \in 1..End(tokens),
           Ends(tokens, <<"term", here>>), TokenAt(tokens, here) # Open
    PROVE  Stands(policy, tokens, <<"term", here>>)
<1>. DEFINE node == <<"term", here>>
            r == Parser(tokens)[node]
            to == r.next - 1
<1>1. /\ IsTokens(tokens) /\ Len(tokens) \in Nat
      /\ End(tokens) = Len(tokens) + 1 /\ Error(tokens) = Len(tokens) + 2
      /\ \A place \in 1..Len(tokens) : TokenAt(tokens, place) = tokens[place]
      /\ \A place : TokenAt(tokens, place) # None => place \in 1..Len(tokens) /\ TokenAt(tokens, place) = tokens[place]
      /\ \A place \in 1..Len(tokens) :
           tokens[place] \in {Open, "WITH"} => place + 1 \in 1..Len(tokens) /\ tokens[place + 1] \notin Reserved
  BY CanonicalTokens
<1>2. node \in Nodes(tokens) /\ node[1] = "term" /\ node[2] = here
  BY <1>1, CallFacts DEF Levels
<1>3. r = TermRule(tokens, Parser(tokens), here)
  BY <1>1, <1>2, ParserUnfold DEF ParserStep
<1>4. r = [operands |-> <<>>,
           next |-> IF TokenAt(tokens, here) \in Reserved \cup {None} THEN Error(tokens)
                    ELSE IF TokenAt(tokens, here + 1) # "WITH" THEN here + 1
                    ELSE IF TokenAt(tokens, here + 2) = None THEN Error(tokens)
                    ELSE here + 3]
  BY <1>3 DEF TermRule
<1>5. r.operands = <<>> /\
      r.next = IF TokenAt(tokens, here) \in Reserved \cup {None} THEN Error(tokens)
               ELSE IF TokenAt(tokens, here + 1) # "WITH" THEN here + 1
               ELSE IF TokenAt(tokens, here + 2) = None THEN Error(tokens)
               ELSE here + 3
  BY <1>4
<1>6. r.next <= End(tokens) /\ MayGoOn(tokens, r.next)
  BY DEF Ends
<1>7. Evaluate(policy, tokens)[node] =
        [result |-> EvaluateTerm(policy, TermOf(tokens, here)), satisfied |-> {TermOf(tokens, here)}]
  <2>1. Operands(tokens, node) = <<>>
    BY <1>5 DEF Operands
  <2>2. Evaluate(policy, tokens)[node] = EvaluateNode(policy, tokens, Evaluate(policy, tokens), node)
    BY <1>1, <1>2, EvaluateUnfold
  <2>. QED  BY <1>2, <2>1, <2>2, NodeIs
<1>. HIDE DEF r
<1>8. here \in 1..Len(tokens) /\ tokens[here] \notin Reserved /\ tokens[here] # Open
  BY <1>1, <1>5, <1>6
<1>9. \/ to = here /\ TokenAt(tokens, here + 1) # "WITH"
      \/ /\ to = here + 2 /\ to \in 1..Len(tokens) /\ here + 1 \in 1..Len(tokens)
         /\ tokens[here + 1] = "WITH" /\ tokens[here + 2] \notin Reserved /\ tokens[here + 2] # Open
  <2>1. CASE TokenAt(tokens, here + 1) # "WITH"
    BY <1>1, <1>5, <1>8, <2>1, <1>6
  <2>2. CASE TokenAt(tokens, here + 1) = "WITH"
    <3>1. here + 1 \in 1..Len(tokens) /\ tokens[here + 1] = "WITH"
      BY <1>1, <2>2, Words
    <3>2. TokenAt(tokens, here + 2) # None /\ r.next = here + 3
      BY <1>1, <1>5, <1>6, <1>8, <2>2
    <3>3. here + 2 \in 1..Len(tokens) /\ to = here + 2
      BY <1>1, <3>2
    <3>4. tokens[here + 2] \notin Reserved
      <4>1. (here + 1) + 1 = here + 2
        OBVIOUS
      <4>. QED  BY <1>1, <3>1, <4>1
    <3>5. tokens[here + 2] # Open
      <4>. SUFFICES ASSUME tokens[here + 2] = Open PROVE FALSE
        OBVIOUS
      <4>1. (here + 2) + 1 = here + 3
        OBVIOUS
      <4>2. here + 3 \in 1..Len(tokens) /\ tokens[here + 3] \notin Reserved
        BY <1>1, <3>3, <4>1
      <4>3. TokenAt(tokens, here + 3) \in {"AND", "OR", Close, None}
        BY <1>6, <3>2 DEF MayGoOn
      <4>4. TokenAt(tokens, here + 3) = tokens[here + 3] /\ tokens[here + 3] # None
        BY <4>2, CanonicalTokens
      <4>. QED  BY <4>2, <4>3, <4>4 DEF Reserved
    <3>. QED  BY <3>1, <3>3, <3>4, <3>5
  <2>. QED  BY <2>1, <2>2
<1>10. to \in 1..Len(tokens) /\ here <= to
  BY <1>8, <1>9
<1>. HIDE DEF to
\* None of these is a parenthesis, nor joins two operands.
<1>11. \A k \in here..to : tokens[k] # Open /\ tokens[k] # Close /\ tokens[k] # "OR" /\ tokens[k] # "AND"
  <2>1. \A k \in here..to : k = here \/ (to = here + 2 /\ (k = here + 1 \/ k = here + 2))
    BY <1>9
  <2>2. tokens[here] # Close /\ tokens[here] # "OR" /\ tokens[here] # "AND"
    BY <1>8 DEF Reserved
  <2>3. to = here + 2 => /\ tokens[here + 2] # Close /\ tokens[here + 2] # "OR" /\ tokens[here + 2] # "AND" /\ tokens[here + 2] # Open
                       /\ tokens[here + 1] = "WITH"
    BY <1>8, <1>9 DEF Reserved
  <2>. QED  BY <1>8, <2>1, <2>2, <2>3, Words
<1>12. \A k \in here..to : Depth(tokens, k) = Depth(tokens, k - 1)
  <2>. SUFFICES ASSUME NEW k \in here..to PROVE Depth(tokens, k) = Depth(tokens, k - 1)
    OBVIOUS
  <2>1. k \in Nat /\ k > 0 /\ tokens[k] # Open /\ tokens[k] # Close
    BY <1>11
  <2>. QED  BY <2>1, DepthStep
<1>13. \A k \in here..to : Depth(tokens, k) = Depth(tokens, here - 1)
  <2>1. Depth(tokens, here) = Depth(tokens, here - 1)
    BY <1>10, <1>12
  <2>2. to = here + 2 => Depth(tokens, here + 1) = Depth(tokens, here) /\ Depth(tokens, here + 2) = Depth(tokens, here + 1)
    <3>1. (here + 1) - 1 = here /\ (here + 2) - 1 = here + 1
      OBVIOUS
    <3>2. to = here + 2 => here + 1 \in here..to /\ here + 2 \in here..to
      OBVIOUS
    <3>. QED  BY <1>12, <3>1, <3>2
  <2>3. \A k \in here..to : k = here \/ (to = here + 2 /\ (k = here + 1 \/ k = here + 2))
    BY <1>9, <1>10 DEF to
  <2>. QED  BY <2>1, <2>2, <2>3
<1>14. Balanced(tokens, "term", here, to)
  <2>1. Depth(tokens, here - 1) \in Int /\ to \in here..to
    BY <1>10, Depths
  <2>. QED  BY <1>11, <1>13, <2>1 DEF Balanced
<1>15. Offers(tokens)[<<here, to>>] = {{TermOf(tokens, here)}}
  <2>1. Splits(tokens, "OR", here, to) = {} /\ Splits(tokens, "AND", here, to) = {}
    BY <1>11 DEF Splits
  <2>2. Offers(tokens)[<<here, to>>] = {{Term(tokens[here], IF to = here + 2 THEN tokens[to] ELSE None)}}
    <3>1. Offers(tokens)[<<here, to>>] = OffersBetween(tokens, Offers(tokens), here, to)
      <4>1. here \in Int /\ to \in Int
        BY <1>8, <1>10
      <4>2. \A i, j \in Int : Offers(tokens)[<<i, j>>] = OffersBetween(tokens, Offers(tokens), i, j)
        BY OffersUnfold
      <4>. QED  BY <4>1, <4>2
    <3>. QED  BY <1>8, <2>1, <3>1 DEF OffersBetween
  <2>3. TokenAt(tokens, here) = tokens[here] /\ (to = here + 2 <=> TokenAt(tokens, here + 1) = "WITH")
        /\ (to = here + 2 => TokenAt(tokens, here + 2) = tokens[to])
    BY <1>1, <1>8, <1>9, <1>10
  <2>. QED  BY <2>2, <2>3 DEF TermOf
<1>16. Agrees(policy, Evaluate(policy, tokens)[node], Offers(tokens)[<<here, to>>])
  <2>. DEFINE e == Evaluate(policy, tokens)[node]
  <2>1. Agrees(policy, e, {{TermOf(tokens, here)}})
    <3>. HIDE DEF e
    <3>. QED  BY <1>7, TermAgrees DEF e
  <2>. QED  BY <1>15, <2>1
<1>. QED  BY <1>2, <1>14, <1>16 DEF Stands, to, r

\* What stands in parentheses.
LEMMA ParenthesesStand ==
    ASSUME NEW policy, NEW tokens, IsCanonical(tokens), NEW here \in 1..End(tokens),
           Ends(tokens, <<"term", here>>), TokenAt(tokens, here) = Open,
           \A c \in Nodes(tokens) :
             Rank(tokens, c) < Rank(tokens, <<"term", here>>) /\ Ends(tokens, c) => Stands(policy, tokens, c)
    PROVE  Stands(policy, tokens, <<"term", here>>)
<1>. DEFINE node == <<"term", here>>
            from == here + 1
            inner == <<"or", from>>
            P == Parser(tokens)
            to == P[inner].next
<1>1. /\ IsTokens(tokens) /\ Len(tokens) \in Nat
      /\ End(tokens) = Len(tokens) + 1 /\ Error(tokens) = Len(tokens) + 2
      /\ \A place : TokenAt(tokens, place) # None => place \in 1..Len(tokens) /\ TokenAt(tokens, place) = tokens[place]
  BY CanonicalTokens
<1>2. node \in Nodes(tokens) /\ node[1] = "term" /\ node[2] = here
  BY <1>1, CallFacts DEF Levels
<1>3. here \in 1..Len(tokens) /\ tokens[here] = Open /\ from \in 1..End(tokens) /\ here < from /\ from - 1 = here
  BY <1>1, Words
<1>4. inner \in Nodes(tokens) /\ Rank(tokens, inner) < Rank(tokens, node) /\ inner[1] = "or" /\ inner[2] = from
  <2>. HIDE DEF from
  <2>1. "or" \in Levels /\ "term" \in Levels
    BY DEF Levels
  <2>. QED  BY <1>1, <1>3, <2>1, LaterCall
<1>5. P[node] = TermRule(tokens, P, here)
  BY <1>1, <1>2, ParserUnfold DEF ParserStep
<1>6. P[node] = [operands |-> <<inner>>,
                 next |-> IF TokenAt(tokens, to) = Close THEN to + 1 ELSE Error(tokens)]
  BY <1>5 DEF TermRule
<1>7. to \in 1..Error(tokens) /\ to > from
  BY <1>1, <1>4, ParserUnfold DEF Results
<1>. HIDE DEF inner, from, to
<1>8. P[node].operands = <<inner>> /\ P[node].next = IF TokenAt(tokens, to) = Close THEN to + 1 ELSE Error(tokens)
  BY <1>6
<1>9. P[node].next <= End(tokens)
  BY DEF Ends
<1>10. TokenAt(tokens, to) = Close /\ to \in 1..Len(tokens) /\ tokens[to] = Close /\ P[node].next - 1 = to
  BY <1>1, <1>7, <1>8, <1>9, Words
<1>11. Ends(tokens, inner)
  BY <1>1, <1>10 DEF Ends, MayGoOn, to
<1>12. Stands(policy, tokens, inner)
  BY <1>4, <1>11
<1>13. Balanced(tokens, "or", from, to - 1) /\
       Agrees(policy, Evaluate(policy, tokens)[inner], Offers(tokens)[<<from, to - 1>>])
  BY <1>4, <1>12 DEF Stands, to
<1>14. Depth(tokens, here) = Depth(tokens, here - 1) + 1 /\ Depth(tokens, here) \in Int /\ Depth(tokens, here - 1) \in Int
  BY <1>3, DepthStep
<1>15. Depth(tokens, to) = Depth(tokens, to - 1) - 1 /\ Depth(tokens, to) \in Int /\ Depth(tokens, to - 1) \in Int
  <2>1. to \in Nat /\ to > 0 /\ tokens[to] = Close /\ tokens[to] # Open
    BY <1>10, Words
  <2>. QED  BY <2>1, DepthStep
<1>16. Depth(tokens, to - 1) = Depth(tokens, here) /\ \A k \in from..(to - 1) : Depth(tokens, k) >= Depth(tokens, here)
  BY <1>3, <1>13 DEF Balanced
<1>17. \A k \in here..to : k = here \/ k = to \/ k \in from..(to - 1)
  BY <1>3, <1>7, <1>10 DEF from
<1>18. \A k \in Nat : Depth(tokens, k) \in Int
  BY Depths
<1>19. Depth(tokens, to) = Depth(tokens, here - 1)
  BY <1>14, <1>15, <1>16
<1>20. \A k \in from..(to - 1) : Depth(tokens, k) > Depth(tokens, here - 1)
  BY <1>3, <1>14, <1>16, <1>18
<1>21. tokens[here] # "OR" /\ tokens[here] # "AND" /\ tokens[to] # "OR" /\ tokens[to] # "AND"
  BY <1>3, <1>10, Words
<1>22. \A k \in here..to : tokens[k] \in {"OR", "AND"} => Depth(tokens, k) > Depth(tokens, here - 1)
  BY <1>17, <1>20, <1>21
<1>23. \A k \in here..to : Depth(tokens, k) >= Depth(tokens, here - 1)
  <2>1. ASSUME NEW k \in here..to PROVE Depth(tokens, k) >= Depth(tokens, here - 1)
    <3>1. CASE k = here
      BY <1>14, <3>1
    <3>2. CASE k = to
      BY <1>14, <1>19, <3>2
    <3>3. CASE k \in from..(to - 1)
      <4>1. k \in Nat
        BY <1>3
      <4>. QED  BY <1>14, <1>18, <1>20, <3>3, <4>1
    <3>. QED  BY <1>17, <3>1, <3>2, <3>3
  <2>. QED  BY <2>1
<1>24. Balanced(tokens, "term", here, to)
  BY <1>19, <1>22, <1>23 DEF Balanced
<1>25. Offers(tokens)[<<here, to>>] = Offers(tokens)[<<from, to - 1>>]
  <2>1. \A k \in here..to : tokens[k] \in {"OR", "AND"} => Depth(tokens, k) # Depth(tokens, here - 1)
    <3>1. \A k \in here..to : k \in Nat
      BY <1>3
    <3>. QED  BY <1>14, <1>18, <1>22, <3>1
  <2>2. Splits(tokens, "OR", here, to) = {} /\ Splits(tokens, "AND", here, to) = {}
    BY <2>1 DEF Splits
  <2>3. here < to /\ here \in Int /\ to \in Int
    BY <1>3, <1>7, <1>10
  <2>. QED  BY <1>3, <2>2, <2>3, OffersUnfold DEF OffersBetween, from
<1>26. Evaluate(policy, tokens)[node] = Evaluate(policy, tokens)[inner]
  BY <1>1, <1>2, <1>8, OneOperand DEF Operands
<1>. QED  BY <1>2, <1>10, <1>13, <1>24, <1>25, <1>26 DEF Stands

\* Operands of one operator, or one.
LEMMA ListStands ==
    ASSUME NEW policy, NEW tokens, IsCanonical(tokens), NEW rule \in {"or", "and"}, NEW here \in 1..End(tokens),
           Ends(tokens, <<rule, here>>),
           \A c \in Nodes(tokens) :
             Rank(tokens, c) < Rank(tokens, <<rule, here>>) /\ Ends(tokens, c) => Stands(policy, tokens, c)
    PROVE  Stands(policy, tokens, <<rule, here>>)
<1>. DEFINE node == <<rule, here>>
            first == <<Inner(rule), here>>
            P == Parser(tokens)
            E == Evaluate(policy, tokens)
            O == Offers(tokens)
            j == P[first].next
            from == j + 1
            others == <<rule, from>>
<1>1. /\ IsTokens(tokens) /\ Len(tokens) \in Nat
      /\ End(tokens) = Len(tokens) + 1 /\ Error(tokens) = Len(tokens) + 2
      /\ \A place : TokenAt(tokens, place) # None => place \in 1..Len(tokens) /\ TokenAt(tokens, place) = tokens[place]
  BY CanonicalTokens
<1>2. /\ node \in Nodes(tokens) /\ node[1] = rule /\ node[2] = here
      /\ first \in Nodes(tokens) /\ first[1] = Inner(rule) /\ first[2] = here /\ Inner(rule) # "or"
      /\ rule \in Levels /\ (rule = "and" => Inner(rule) = "term")
  BY <1>1, CallFacts DEF Levels, Inner
<1>3. Rank(tokens, first) < Rank(tokens, node)
  BY <1>1 DEF Inner, Rank
<1>4. P[node] = ListRule(tokens, P, rule, here)
  BY <1>1, <1>2, ParserUnfold DEF ParserStep
<1>5. P[node] = IF TokenAt(tokens, j) = Joiner(rule)
                THEN [operands |-> <<first>> \o P[others].operands, next |-> P[others].next]
                ELSE [operands |-> <<first>>, next |-> j]
  BY <1>4 DEF ListRule
<1>6. j \in 1..Error(tokens) /\ j > here
  BY <1>1, <1>2, ParserUnfold DEF Results
<1>7. P[node].next <= End(tokens) /\ MayGoOn(tokens, P[node].next)
  BY DEF Ends
<1>. HIDE DEF first, from, j
<1>8. CASE TokenAt(tokens, j) # Joiner(rule)
  <2>1. P[node].operands = <<first>> /\ P[node].next = j
    BY <1>5, <1>8
  <2>2. Stands(policy, tokens, first)
    BY <1>2, <1>3, <1>7, <2>1 DEF Ends, j
  <2>3. Balanced(tokens, Inner(rule), here, j - 1) /\ Agrees(policy, E[first], O[<<here, j - 1>>])
    BY <1>2, <2>2 DEF Stands, j
  <2>4. Balanced(tokens, rule, here, j - 1)
    BY <1>2, <2>3 DEF Balanced
  <2>5. E[node] = E[first]
    BY <1>1, <1>2, <2>1, OneOperand DEF Operands
  <2>. QED  BY <1>2, <2>1, <2>3, <2>4, <2>5 DEF Stands
<1>9. CASE TokenAt(tokens, j) = Joiner(rule)
  <2>. DEFINE to == P[others].next - 1
  <2>1. j \in 1..Len(tokens) /\ tokens[j] = Joiner(rule) /\ from \in 1..End(tokens) /\ here < from /\ from - 1 = j
    BY <1>1, <1>6, <1>9, Words DEF Joiner, from
  <2>2. /\ others \in Nodes(tokens) /\ Rank(tokens, others) < Rank(tokens, node)
        /\ others[1] = rule /\ others[2] = from
    <3>1. others \in Nodes(tokens) /\ Rank(tokens, others) < Rank(tokens, node)
      <4>1. rule \in Levels /\ IsTokens(tokens) /\ from \in 1..End(tokens) /\ here < from
        BY <1>1, <1>2, <2>1
      <4>. QED  BY <4>1, LaterCall
    <3>2. others[1] = rule /\ others[2] = from
      OBVIOUS
    <3>. QED  BY <3>1, <3>2
  <2>3. P[node].operands = <<first>> \o P[others].operands /\ P[node].next = P[others].next
    BY <1>5, <1>9
  <2>4. P[others].next \in 1..Error(tokens) /\ P[others].next > from /\ P[others].operands \in Seq(Nodes(tokens))
    BY <1>1, <2>2, ParserUnfold DEF Results
  <2>. HIDE DEF others
  <2>5. Ends(tokens, others)
    BY <1>7, <2>3 DEF Ends
  <2>6. Ends(tokens, first)
    <3>1. j <= End(tokens) /\ MayGoOn(tokens, j)
      BY <1>1, <1>9, <2>1 DEF MayGoOn, Joiner
    <3>. QED  BY <3>1 DEF Ends, j
  <2>7. Stands(policy, tokens, first) /\ Stands(policy, tokens, others)
    BY <1>2, <1>3, <2>2, <2>5, <2>6
  <2>8. Balanced(tokens, Inner(rule), here, j - 1) /\ Agrees(policy, E[first], O[<<here, j - 1>>])
    BY <1>2, <2>7 DEF Stands, j
  <2>9. Balanced(tokens, rule, from, to) /\ Agrees(policy, E[others], O[<<from, to>>])
    BY <2>2, <2>7 DEF Stands
  <2>10. to \in Nat /\ to > j /\ to <= Len(tokens) /\ P[node].next - 1 = to
    BY <1>1, <1>7, <2>1, <2>3, <2>4
  <2>. HIDE DEF to
  <2>11. Depth(tokens, j) = Depth(tokens, j - 1)
    <3>1. j \in Nat /\ j > 0 /\ tokens[j] # Open /\ tokens[j] # Close
      BY <2>1, Words DEF Joiner
    <3>. QED  BY <3>1, DepthStep
  <2>12. Depth(tokens, here - 1) \in Int
    BY Depths
  <2>13. Depth(tokens, j - 1) = Depth(tokens, here - 1) /\ Depth(tokens, j) = Depth(tokens, here - 1)
         /\ Depth(tokens, to) = Depth(tokens, here - 1)
    BY <2>1, <2>8, <2>9, <2>11 DEF Balanced
  <2>14. \A k \in here..to : k \in here..(j - 1) \/ k = j \/ k \in from..to
    BY <1>6, <2>1, <2>10
  <2>15. \A k \in here..to : Depth(tokens, k) >= Depth(tokens, here - 1)
    <3>1. \A k \in here..(j - 1) : Depth(tokens, k) >= Depth(tokens, here - 1)
      BY <2>8 DEF Balanced
    <3>2. \A k \in from..to : Depth(tokens, k) >= Depth(tokens, here - 1)
      BY <2>1, <2>9, <2>13 DEF Balanced
    <3>3. Depth(tokens, j) >= Depth(tokens, here - 1)
      BY <2>12, <2>13
    <3>. QED  BY <2>14, <3>1, <3>2, <3>3
  <2>16. rule = "and" => \A k \in here..to : tokens[k] = "OR" => Depth(tokens, k) > Depth(tokens, here - 1)
    <3>. SUFFICES ASSUME rule = "and"
                  PROVE  \A k \in here..to : tokens[k] = "OR" => Depth(tokens, k) > Depth(tokens, here - 1)
      OBVIOUS
    <3>1. \A k \in here..(j - 1) : tokens[k] = "OR" => Depth(tokens, k) > Depth(tokens, here - 1)
      BY <1>2, <2>8 DEF Balanced
    <3>2. \A k \in from..to : tokens[k] = "OR" => Depth(tokens, k) > Depth(tokens, here - 1)
      BY <2>1, <2>9, <2>13 DEF Balanced
    <3>3. tokens[j] # "OR"
      BY <2>1 DEF Joiner
    <3>. QED  BY <2>14, <3>1, <3>2, <3>3
  <2>17. Balanced(tokens, rule, here, to)
    BY <2>13, <2>15, <2>16 DEF Balanced
  <2>18. j \in Splits(tokens, Joiner(rule), here, to) /\ here \in Int /\ to \in Int
    BY <1>6, <2>1, <2>10, <2>13 DEF Splits
  <2>19. O[<<here, to>>] = IF rule = "or" THEN O[<<here, j - 1>>] \cup O[<<from, to>>]
                         ELSE Both(O[<<here, j - 1>>], O[<<from, to>>])
    <3>1. CASE rule = "or"
      <4>1. j \in Splits(tokens, "OR", here, to)
        BY <2>18, <3>1 DEF Joiner
      <4>. QED  BY <2>18, <3>1, <4>1, SplitOr DEF from
    <3>2. CASE rule = "and"
      <4>1. j \in Splits(tokens, "AND", here, to)
        BY <2>18, <3>2 DEF Joiner
      <4>2. \A k \in here..to : tokens[k] = "OR" => Depth(tokens, k) # Depth(tokens, here - 1)
        <5>1. \A k \in here..to : k \in Nat /\ Depth(tokens, k) \in Int
          BY Depths
        <5>. QED  BY <2>12, <2>16, <3>2, <5>1
      <4>3. Splits(tokens, "OR", here, to) = {}
        BY <4>2 DEF Splits
      <4>. QED  BY <2>18, <3>2, <4>1, <4>3, SplitAnd DEF from
    <3>. QED  BY <3>1, <3>2
  <2>. DEFINE n == Len(Operands(tokens, others))
              s == Outcomes(tokens, E, others)
              c == Outcomes(tokens, E, node)
  <2>20. /\ n \in Nat /\ n > 0 /\ DOMAIN Operands(tokens, others) = 1..n
         /\ Operands(tokens, others) # <<>>
         /\ \A m \in 1..n : Operands(tokens, others)[m] \in Nodes(tokens)
    <3>1. /\ n \in Nat /\ DOMAIN Operands(tokens, others) = 1..n
          /\ Operands(tokens, others) = <<>> <=> n = 0
          /\ \A m \in DOMAIN Operands(tokens, others) : Operands(tokens, others)[m] \in Nodes(tokens)
          /\ Operands(tokens, others) = <<>> => others[1] = "term"
      BY <1>1, <2>2, NodeFacts
    <3>. QED  BY <2>2, <3>1
  <2>21. /\ Operands(tokens, node) # <<>> /\ Len(Operands(tokens, node)) = n + 1
         /\ DOMAIN Operands(tokens, node) = 1..(n + 1) /\ Operands(tokens, node)[1] = first
         /\ \A m \in 2..(n + 1) : Operands(tokens, node)[m] = Operands(tokens, others)[m - 1]
    BY <1>2, <2>3, <2>4, ConsFacts DEF Operands
  <2>22. DOMAIN s = 1..n /\ \A m \in 1..n : s[m] = E[Operands(tokens, others)[m]]
    BY <2>20 DEF Outcomes
  <2>23. \A m \in 1..n : s[m].result \in Verdicts
    BY <1>1, <2>20, <2>22, EvaluateFits
  <2>24. DOMAIN c = 1..(n + 1) /\ c[1] = E[first] /\ \A m \in 2..(n + 1) : c[m] = s[m - 1]
    <3>1. DOMAIN c = 1..(n + 1) /\ \A m \in 1..(n + 1) : c[m] = E[Operands(tokens, node)[m]]
      BY <2>21 DEF Outcomes
    <3>2. \A m \in 2..(n + 1) : m \in 1..(n + 1) /\ m - 1 \in 1..n
      BY <2>20
    <3>3. 1 \in 1..(n + 1)
      BY <2>20
    <3>4. c[1] = E[first]
      BY <2>21, <3>1, <3>3
    <3>5. \A m \in 2..(n + 1) : c[m] = s[m - 1]
      BY <2>21, <2>22, <3>1, <3>2
    <3>. QED  BY <3>1, <3>4, <3>5
  <2>. HIDE DEF n, s, c, E, O, P
  <2>25. E[others] = Folded(rule, s, n)
    <3>1. E[others] = EvaluateNode(policy, tokens, E, others)
      BY <1>1, <2>2, EvaluateUnfold DEF E
    <3>. QED  BY <2>2, <2>20, <3>1, NodeIs DEF Folded, n, s
  <2>26. E[node] = Folded(rule, c, n + 1)
    <3>1. E[node] = EvaluateNode(policy, tokens, E, node)
      BY <1>1, <1>2, EvaluateUnfold DEF E
    <3>2. n + 1 # 1
      BY <2>20
    <3>. QED  BY <1>2, <2>21, <3>1, <3>2, NodeIs DEF Folded, c
  <2>27. Agrees(policy, E[node], O[<<here, to>>])
    <3>1. Agrees(policy, Folded(rule, s, n), O[<<from, to>>])
      BY <2>9, <2>25
    <3>2. Agrees(policy, Folded(rule, c, n + 1),
            IF rule = "or" THEN O[<<here, j - 1>>] \cup O[<<from, to>>] ELSE Both(O[<<here, j - 1>>], O[<<from, to>>]))
      <4>. DEFINE a == E[first]
                  A == O[<<here, j - 1>>]
                  B == O[<<from, to>>]
      <4>1. Agrees(policy, a, A) /\ Agrees(policy, Folded(rule, s, n), B) /\ c[1] = a
        BY <2>8, <2>24, <3>1
      <4>. HIDE DEF a, A, B
      <4>2. Agrees(policy, Folded(rule, c, n + 1), IF rule = "or" THEN A \cup B ELSE Both(A, B))
        <5>. DEFINE e == Folded(rule, c, n + 1)
        <5>1. e = Folded(rule, c, n + 1)
          OBVIOUS
        <5>. HIDE DEF e
        <5>2. n \in Nat /\ n > 0
          BY <2>20
        <5>3. DOMAIN s = 1..n
          BY <2>22
        <5>4. DOMAIN c = 1..(n + 1) /\ \A m \in 2..(n + 1) : c[m] = s[m - 1]
          BY <2>24
        <5>5. Agrees(policy, e, IF rule = "or" THEN A \cup B ELSE Both(A, B))
          BY <2>23, <4>1, <5>1, <5>2, <5>3, <5>4, FoldedAgrees
        <5>. QED  BY <5>5 DEF e
      <4>. QED  BY <4>2 DEF A, B
    <3>. QED  BY <2>19, <2>26, <3>2
  <2>. QED  BY <1>2, <2>10, <2>17, <2>27 DEF Stands, P, E, O
<1>. QED  BY <1>8, <1>9

LEMMA CallsStand ==
    ASSUME NEW policy, NEW tokens, IsCanonical(tokens)
    PROVE  \A c \in Nodes(tokens) : Ends(tokens, c) => Stands(policy, tokens, c)
<1>. DEFINE S == {n \in Nat : \A c \in Nodes(tokens) :
                    Rank(tokens, c) < n /\ Ends(tokens, c) => Stands(policy, tokens, c)}
<1>0. IsTokens(tokens)
  BY CanonicalTokens
<1>1. \A c \in Nodes(tokens) : Rank(tokens, c) \in Nat
  BY <1>0, CallFacts
<1>2. 0 \in S
  BY <1>1
<1>3. ASSUME NEW n \in Nat, n \in S PROVE n + 1 \in S
  <2>. SUFFICES ASSUME NEW node \in Nodes(tokens), Rank(tokens, node) < n + 1, Ends(tokens, node)
                PROVE  Stands(policy, tokens, node)
    OBVIOUS
  <2>1. \A c \in Nodes(tokens) : Rank(tokens, c) < Rank(tokens, node) /\ Ends(tokens, c) => Stands(policy, tokens, c)
    <3>1. \A c \in Nodes(tokens) : Rank(tokens, c) < Rank(tokens, node) => Rank(tokens, c) < n
      BY <1>1
    <3>. QED  BY <1>3, <3>1
  <2>. DEFINE rule == node[1]
              here == node[2]
  <2>2. rule \in Levels /\ here \in 1..End(tokens) /\ node = <<rule, here>>
    BY <1>0, CallFacts
  <2>. HIDE DEF S, rule, here
  <2>3. CASE rule = "term"
    <3>1. Ends(tokens, <<"term", here>>) /\ \A c \in Nodes(tokens) :
             Rank(tokens, c) < Rank(tokens, <<"term", here>>) /\ Ends(tokens, c) => Stands(policy, tokens, c)
      BY <2>1, <2>2, <2>3
    <3>2. Stands(policy, tokens, <<"term", here>>)
      BY <2>2, <3>1, LicenseStands, ParenthesesStand
    <3>. QED  BY <2>2, <2>3, <3>2
  <2>4. CASE rule \in {"or", "and"}
    <3>1. Ends(tokens, <<rule, here>>) /\ \A c \in Nodes(tokens) :
             Rank(tokens, c) < Rank(tokens, <<rule, here>>) /\ Ends(tokens, c) => Stands(policy, tokens, c)
      BY <2>1, <2>2
    <3>2. Stands(policy, tokens, <<rule, here>>)
      BY <2>2, <2>4, <3>1, ListStands
    <3>. QED  BY <2>2, <3>2
  <2>. QED  BY <2>2, <2>3, <2>4 DEF Levels
<1>. HIDE DEF S
<1>4. Nat \subseteq S
  BY <1>2, <1>3, Induction
<1>5. ASSUME NEW c \in Nodes(tokens), Ends(tokens, c) PROVE Stands(policy, tokens, c)
  <2>1. Rank(tokens, c) + 1 \in S /\ Rank(tokens, c) < Rank(tokens, c) + 1
    BY <1>1, <1>4
  <2>. QED  BY <1>5, <2>1 DEF S
<1>. QED  BY <1>5

\* What the parser takes as a whole.
LEMMA ValueAgrees ==
    ASSUME NEW policy, NEW tokens, IsCanonical(tokens), tokens # <<>>, Parses(tokens)
    PROVE  Agrees(policy, EvaluateValue(policy, tokens), Offers(tokens)[<<1, Len(tokens)>>])
<1>. DEFINE node == <<"or", 1>>
<1>1. /\ IsTokens(tokens) /\ Len(tokens) \in Nat /\ End(tokens) = Len(tokens) + 1
      /\ \A place : TokenAt(tokens, place) # None => place \in 1..Len(tokens)
  BY CanonicalTokens
<1>2. node \in Nodes(tokens) /\ node[2] = 1
  BY <1>1 DEF Nodes, Levels
<1>3. Parser(tokens)[node].next = End(tokens)
  BY DEF Parses
<1>4. TokenAt(tokens, End(tokens)) = None
  BY <1>1
<1>5. Ends(tokens, node)
  BY <1>1, <1>3, <1>4 DEF Ends, MayGoOn
<1>6. Stands(policy, tokens, node)
  BY <1>2, <1>5, CallsStand
<1>7. Agrees(policy, Evaluate(policy, tokens)[node], Offers(tokens)[<<node[2], End(tokens) - 1>>])
  BY <1>3, <1>6 DEF Stands
<1>8. End(tokens) - 1 = Len(tokens)
  BY <1>1
<1>. QED  BY <1>2, <1>7, <1>8 DEF EvaluateValue

-----------------------------------------------------------------------------
(* The verdict of a package.                                               *)

\* What was evaluated, and the verdict made of it.
LicenseInv ==
    /\ case \in Cases
    /\ verdict = "none" => evaluations = {}
    /\ verdict # "none" =>
         IF InventoryComposes /\ case.evidence \in Resolved
         THEN /\ evaluations = {[tokens |-> s, of |-> EvaluateValue(case.policy, s)] : s \in case.stated}
              /\ verdict = PackageResult({e.of : e \in evaluations})
         ELSE evaluations = {} /\ verdict \in {"scope_unresolved", "not assessed"}

LEMMA LicenseInvariant == LicenseSpec => []LicenseInv
<1>1. ASSUME NEW c \in Cases, LicenseInit(c) PROVE LicenseInv
  BY <1>1 DEF LicenseInit, LicenseInv
<1>2. LicenseInv /\ [LicenseNext]_licenseVars => LicenseInv'
  <2>. SUFFICES ASSUME LicenseInv, [LicenseNext]_licenseVars PROVE LicenseInv'
    OBVIOUS
  <2>1. CASE CheckNothing
    <3>1. case' = case /\ evaluations' = {} /\ verdict' \in {"scope_unresolved", "not assessed"}
      BY <2>1 DEF CheckNothing, LicenseInv
    <3>2. InventoryComposes' = InventoryComposes
      BY <3>1 DEF InventoryComposes
    <3>3. ~(InventoryComposes /\ case.evidence \in Resolved)
      BY <2>1 DEF CheckNothing
    <3>. QED  BY <3>1, <3>2, <3>3 DEF LicenseInv
  <2>2. CASE EvaluateInventory
    <3>1. case' = case /\ InventoryComposes /\ case.evidence \in Resolved /\ InventoryComposes' = InventoryComposes
      BY <2>2 DEF EvaluateInventory, InventoryComposes
    <3>2. /\ evaluations' = {[tokens |-> s, of |-> EvaluateValue(case.policy, s)] : s \in case.stated}
          /\ verdict' = PackageResult({e.of : e \in evaluations'})
      BY <2>2 DEF EvaluateInventory
    <3>3. verdict' # "none"
      BY <3>2 DEF PackageResult, Denied, Undetermined, Permitted
    <3>. QED  BY <3>1, <3>2, <3>3 DEF LicenseInv
  <2>3. CASE UNCHANGED licenseVars
    <3>1. case' = case /\ evaluations' = evaluations /\ verdict' = verdict
      BY <2>3 DEF licenseVars
    <3>. QED  BY <3>1 DEF LicenseInv, InventoryComposes
  <2>. QED  BY <2>1, <2>2, <2>3 DEF LicenseNext
<1>3. (\E c \in Cases : LicenseInit(c)) => LicenseInv
  BY <1>1
<1>. QED  BY <1>2, <1>3, PTL DEF LicenseSpec

\* A banned license is permitted under an exact pair alone.
LEMMA BannedStands ==
    ASSUME NEW t, EvaluateTerm(case.policy, t) = Permitted, Banned(t.license)
    PROVE  NamesExactly(case.policy.allowed, t.license, t.exception)
  BY DEF EvaluateTerm, Banned, Permitted, Denied, Undetermined

LEMMA LicenseInvSuffices ==
    ASSUME LicenseInv
    PROVE  VerdictIsChoice
<1>. SUFFICES ASSUME verdict # "none"
              PROVE  /\ {e.tokens : e \in evaluations} =
                          IF InventoryComposes /\ case.evidence \in Resolved THEN case.stated ELSE {}
                     /\ \A e \in evaluations :
                          IF e.tokens = <<>> THEN e.of.result = Undetermined
                          ELSE LET choices == Offers(e.tokens)[<<1, Len(e.tokens)>>] IN
                               /\ e.of.result = Permitted <=> \E c \in choices : Grade(c) = {Permitted}
                               /\ e.of.result = Denied <=> \A c \in choices : Denied \in Grade(c)
                               /\ e.of.result = Permitted =>
                                    /\ e.of.satisfied \in choices
                                    /\ \A t \in e.of.satisfied :
                                         Banned(t.license) => NamesExactly(case.policy.allowed, t.license, t.exception)
                     /\ verdict = Permitted <=>
                          evaluations # {} /\ \A e \in evaluations : e.of.result = Permitted
                     /\ verdict = Denied <=> \E e \in evaluations : e.of.result = Denied
  BY DEF VerdictIsChoice
<1>1. CASE ~(InventoryComposes /\ case.evidence \in Resolved)
  BY <1>1 DEF LicenseInv, Permitted, Denied
<1>2. CASE InventoryComposes /\ case.evidence \in Resolved
  <2>1. /\ evaluations = {[tokens |-> s, of |-> EvaluateValue(case.policy, s)] : s \in case.stated}
        /\ verdict = PackageResult({e.of : e \in evaluations})
    BY <1>2 DEF LicenseInv
  <2>2. {e.tokens : e \in evaluations} = case.stated
    <3>1. \A e \in evaluations : e.tokens \in case.stated
      BY <2>1
    <3>2. ASSUME NEW s \in case.stated PROVE s \in {e.tokens : e \in evaluations}
      <4>1. [tokens |-> s, of |-> EvaluateValue(case.policy, s)] \in evaluations
        BY <2>1
      <4>. QED  BY <4>1
    <3>. QED  BY <3>1, <3>2
  <2>3. \A e \in evaluations : e.tokens \in case.stated /\ e.of = EvaluateValue(case.policy, e.tokens)
    BY <2>1
  <2>4. \A s \in case.stated : IsCanonical(s) /\ (s = <<>> \/ Parses(s))
    BY <1>2, LicenseAssumption DEF LicenseInv, InventoryComposes
  <2>5. ASSUME NEW e \in evaluations, e.tokens = <<>> PROVE e.of.result = Undetermined
    BY <2>3, <2>5 DEF EvaluateValue
  <2>6. ASSUME NEW e \in evaluations, e.tokens # <<>>
        PROVE  Agrees(case.policy, e.of, Offers(e.tokens)[<<1, Len(e.tokens)>>])
    <3>. DEFINE s == e.tokens
    <3>1. IsCanonical(s) /\ Parses(s) /\ s # <<>> /\ e.of = EvaluateValue(case.policy, s)
      BY <2>3, <2>4, <2>6
    <3>. HIDE DEF s
    <3>2. Agrees(case.policy, EvaluateValue(case.policy, s), Offers(s)[<<1, Len(s)>>])
      BY <3>1, ValueAgrees
    <3>. QED  BY <3>1, <3>2 DEF s
  <2>7. \A e \in evaluations : e.of.result \in Verdicts
    BY <2>5, <2>6 DEF Agrees, Verdicts
  <2>8. ASSUME NEW c, c # {} PROVE Grade(c) = {Permitted} <=> AllPermitted(case.policy, c)
    BY <2>8 DEF Grade, AllPermitted
  <2>9. ASSUME NEW c PROVE Denied \in Grade(c) <=> HasDenied(case.policy, c)
    BY DEF Grade, HasDenied
  <2>10. ASSUME NEW e \in evaluations, e.tokens # <<>>, NEW choices, choices = Offers(e.tokens)[<<1, Len(e.tokens)>>]
         PROVE  /\ e.of.result = Permitted <=> \E c \in choices : Grade(c) = {Permitted}
                /\ e.of.result = Denied <=> \A c \in choices : Denied \in Grade(c)
                /\ e.of.result = Permitted =>
                     /\ e.of.satisfied \in choices
                     /\ \A t \in e.of.satisfied :
                          Banned(t.license) => NamesExactly(case.policy.allowed, t.license, t.exception)
    <3>1. Agrees(case.policy, e.of, choices)
      BY <2>6, <2>10
    <3>2. \A c \in choices : Grade(c) = {Permitted} <=> AllPermitted(case.policy, c)
      BY <2>8, <3>1 DEF Agrees
    <3>3. \A c \in choices : Denied \in Grade(c) <=> HasDenied(case.policy, c)
      BY <2>9
    <3>4. ASSUME e.of.result = Permitted
          PROVE  \A t \in e.of.satisfied :
                   Banned(t.license) => NamesExactly(case.policy.allowed, t.license, t.exception)
      BY <3>1, <3>4, BannedStands DEF Agrees, AllPermitted
    <3>. QED  BY <3>1, <3>2, <3>3, <3>4 DEF Agrees
  <2>11. /\ verdict = Permitted <=> evaluations # {} /\ \A e \in evaluations : e.of.result = Permitted
         /\ verdict = Denied <=> \E e \in evaluations : e.of.result = Denied
    <3>. DEFINE outs == {o.result : o \in {e.of : e \in evaluations}}
    <3>1. \A x : x \in outs <=> \E e \in evaluations : e.of.result = x
      OBVIOUS
    <3>2. verdict = IF Denied \in outs THEN Denied
                    ELSE IF {e.of : e \in evaluations} = {} \/ Undetermined \in outs THEN Undetermined
                    ELSE Permitted
      BY <2>1 DEF PackageResult
    <3>3. {e.of : e \in evaluations} = {} <=> evaluations = {}
      OBVIOUS
    <3>. HIDE DEF outs
    <3>. QED  BY <2>7, <3>1, <3>2, <3>3 DEF Verdicts, Permitted, Denied, Undetermined
  <2>. QED  BY <1>2, <2>2, <2>5, <2>10, <2>11
<1>. QED  BY <1>1, <1>2

\* For every expression the list accepts, of any length and nesting, and every policy:
\* the parser and the evaluator decide as the choices which the tokens offer do
\* (license_expression.py:129-178, 247-262, license_checker.py:113-138).
THEOREM VerdictsAreChoices == LicenseSpec => []VerdictIsChoice
  BY LicenseInvariant, LicenseInvSuffices, PTL
=============================================================================
