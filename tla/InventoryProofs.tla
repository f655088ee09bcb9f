--------------------------- MODULE InventoryProofs ---------------------------
(***************************************************************************)
(* What the adapters of inventory/ make of a lock and of a manifest, for   *)
(* every lock and manifest, whatever the walks meet and in whatever order. *)
(***************************************************************************)
EXTENDS LockAdapters, ManifestAdapters, FiniteSetTheorems, SequenceTheorems, TLAPS

-----------------------------------------------------------------------------
(* Induction on the naturals, for a set rather than a predicate.           *)

\* A set of naturals has a least member.
LEMMA Least ==
    ASSUME NEW S, S \subseteq Nat, S # {}
    PROVE  \E m \in S : \A k \in S : m <= k
<1>. DEFINE R == OpToRel(<, Nat)
<1>1. IsWellFoundedOn(R, Nat)
  BY NatLessThanWellFounded
<1>. HIDE DEF R
<1>2. PICK x \in S : \A y \in S : ~ (<<y, x>> \in R)
  BY <1>1, WFMin
<1>3. \A u, v \in Nat : <<v, u>> \in R <=> v < u
  BY DEF R, OpToRel
<1>4. \A y \in S : x <= y
  <2>. TAKE y \in S
  <2>1. x \in Nat /\ y \in Nat
    OBVIOUS
  <2>2. ~ (y < x)
    BY <1>2, <1>3, <2>1
  <2>. QED  BY <2>1, <2>2
<1>. QED  BY <1>4

\* What holds of 0, and of n + 1 when it holds of n, holds of every natural.
LEMMA Induction ==
    ASSUME NEW S, 0 \in S, \A n \in Nat : n \in S => n + 1 \in S
    PROVE  Nat \subseteq S
<1>. SUFFICES ASSUME Nat \ S # {} PROVE FALSE
  OBVIOUS
<1>1. PICK m \in Nat \ S : \A k \in Nat \ S : m <= k
  BY Least
<1>2. m # 0 /\ m - 1 \in Nat
  BY <1>1
<1>3. m - 1 \in S
  BY <1>1, <1>2
<1>. QED  BY <1>1, <1>2, <1>3

\* g starts at x and goes from k to k + 1 by F, for n steps.
Follows(g, x, F, n) ==
    /\ g[0] = x
    /\ \A k \in 0..n - 1 : g[k + 1] = F[<<k, g[k]>>]

LEMMA FollowsExists ==
    ASSUME NEW U, NEW x \in U, NEW F \in [Nat \X U -> U]
    PROVE  \A n \in Nat : \E g \in [Nat -> U] : Follows(g, x, F, n)
<1>. DEFINE S == {n \in Nat : \E g \in [Nat -> U] : Follows(g, x, F, n)}
<1>1. 0 \in S
  <2>1. Follows([k \in Nat |-> x], x, F, 0)
    BY DEF Follows
  <2>. QED  BY <2>1
<1>2. ASSUME NEW n \in Nat, n \in S PROVE n + 1 \in S
  <2>1. PICK g \in [Nat -> U] : Follows(g, x, F, n)
    BY <1>2
  <2>. DEFINE h == [k \in Nat |-> IF k = n + 1 THEN F[<<n, g[n]>>] ELSE g[k]]
  <2>2. h \in [Nat -> U]
    OBVIOUS
  <2>3. h[0] = x
    BY <2>1 DEF Follows
  <2>4. ASSUME NEW k \in 0..(n + 1) - 1 PROVE h[k + 1] = F[<<k, h[k]>>]
    <3>1. k # n + 1 /\ k \in Nat /\ h[k] = g[k]
      OBVIOUS
    <3>2. CASE k = n
      BY <3>1, <3>2
    <3>3. CASE k # n
      <4>1. k \in 0..n - 1 /\ k + 1 # n + 1
        BY <3>1, <3>3
      <4>2. h[k + 1] = g[k + 1]
        BY <3>1, <4>1
      <4>. QED  BY <2>1, <3>1, <4>1, <4>2 DEF Follows
    <3>. QED  BY <3>2, <3>3
  <2>. HIDE DEF h
  <2>5. Follows(h, x, F, n + 1)
    BY <2>3, <2>4 DEF Follows
  <2>. QED  BY <2>2, <2>5
<1>. HIDE DEF S
<1>3. Nat \subseteq S
  BY <1>1, <1>2, Induction
<1>. QED  BY <1>3 DEF S

LEMMA FollowsUnique ==
    ASSUME NEW x, NEW F, NEW n \in Nat, NEW g, NEW h, NEW m \in Nat, m <= n,
           Follows(g, x, F, n), Follows(h, x, F, m)
    PROVE  g[m] = h[m]
<1>. DEFINE S == {k \in Nat : k <= m => g[k] = h[k]}
<1>1. 0 \in S
  BY DEF Follows
<1>2. ASSUME NEW k \in Nat, k \in S PROVE k + 1 \in S
  <2>1. CASE k + 1 <= m
    <3>1. k \in 0..m - 1 /\ k \in 0..n - 1 /\ k <= m
      BY <2>1
    <3>2. g[k + 1] = F[<<k, g[k]>>] /\ h[k + 1] = F[<<k, h[k]>>]
      BY <3>1 DEF Follows
    <3>. QED  BY <1>2, <3>1, <3>2
  <2>. QED  BY <2>1
<1>. HIDE DEF S
<1>3. Nat \subseteq S
  BY <1>1, <1>2, Induction
<1>. QED  BY <1>3 DEF S

IsStep(F, U) == F \in [Nat \X U -> U]
Runs(g, x, F) == g[0] = x /\ \A n \in Nat : g[n + 1] = F[<<n, g[n]>>]

\* Every step function is followed by some function without end.
LEMMA Iteration ==
    \A U, F : \A x \in U : IsStep(F, U) => \E g \in [Nat -> U] : Runs(g, x, F)
<1>. SUFFICES ASSUME NEW U, NEW F, NEW x \in U, IsStep(F, U)
              PROVE  \E g \in [Nat -> U] : Runs(g, x, F)
  OBVIOUS
<1>. DEFINE h(n) == CHOOSE f \in [Nat -> U] : Follows(f, x, F, n)
            g == [n \in Nat |-> h(n)[n]]
<1>1. \A n \in Nat : h(n) \in [Nat -> U] /\ Follows(h(n), x, F, n)
  BY FollowsExists DEF IsStep
<1>. HIDE DEF h
<1>2. g \in [Nat -> U]
  BY <1>1
<1>3. g[0] = x
  BY <1>1 DEF Follows
<1>4. ASSUME NEW n \in Nat PROVE g[n + 1] = F[<<n, g[n]>>]
  <2>1. n \in 0..(n + 1) - 1 /\ n + 1 \in Nat /\ n <= n + 1
    OBVIOUS
  <2>2. h(n + 1)[n + 1] = F[<<n, h(n + 1)[n]>>]
    BY <1>1, <2>1 DEF Follows
  <2>3. h(n + 1)[n] = h(n)[n]
    BY <1>1, <2>1, FollowsUnique
  <2>. QED  BY <2>1, <2>2, <2>3
<1>. HIDE DEF g
<1>5. Runs(g, x, F)
  BY <1>3, <1>4 DEF Runs
<1>. QED  BY <1>2, <1>5

-----------------------------------------------------------------------------
(* What Reached comes to.                                                  *)

LEMMA StepsAwayUnfold ==
    ASSUME NEW from, NEW next, from \subseteq DOMAIN next,
           \A x \in DOMAIN next : next[x] \subseteq DOMAIN next
    PROVE  /\ StepsAway(from, next)[0] = from
           /\ \A n \in Nat : StepsAway(from, next)[n + 1] =
                StepsAway(from, next)[n] \cup UNION {next[x] : x \in StepsAway(from, next)[n]}
<1>. DEFINE U == SUBSET DOMAIN next
            F == [p \in Nat \X U |-> p[2] \cup UNION {next[x] : x \in p[2]}]
<1>1. F \in [Nat \X U -> U]
  OBVIOUS
<1>2. \A n \in Nat : \A s \in U : F[<<n, s>>] = s \cup UNION {next[x] : x \in s}
  OBVIOUS
<1>3. from \in U
  OBVIOUS
<1>. HIDE DEF F, U
<1>4. PICK g \in [Nat -> U] : Runs(g, from, F)
  <2>1. IsStep(F, U)
    BY <1>1 DEF IsStep
  <2>. QED  BY <1>3, <2>1, Iteration
<1>5. g \in [Nat -> U] /\ g[0] = from /\ \A n \in Nat : g[n + 1] = F[<<n, g[n]>>]
  BY <1>4 DEF Runs
<1>6. ASSUME NEW n \in Nat, n # 0
      PROVE  g[n] = g[n - 1] \cup UNION {next[x] : x \in g[n - 1]}
  <2>1. n - 1 \in Nat /\ (n - 1) + 1 = n /\ g[n - 1] \in U
    BY <1>5, <1>6
  <2>2. g[n] = F[<<n - 1, g[n - 1]>>]
    BY <1>5, <2>1
  <2>. QED  BY <1>2, <2>1, <2>2
<1>7. g = [n \in Nat |-> IF n = 0 THEN from ELSE g[n - 1] \cup UNION {next[x] : x \in g[n - 1]}]
  BY <1>5, <1>6
<1>. DEFINE w == StepsAway(from, next)
<1>8. w = [n \in Nat |-> IF n = 0 THEN from ELSE w[n - 1] \cup UNION {next[x] : x \in w[n - 1]}]
  BY <1>7 DEF StepsAway
<1>. HIDE DEF w
<1>9. \A n \in Nat : n + 1 \in Nat /\ n + 1 # 0 /\ (n + 1) - 1 = n
  OBVIOUS
<1>10. w[0] = from /\ \A n \in Nat : w[n + 1] = w[n] \cup UNION {next[x] : x \in w[n]}
  BY <1>8, <1>9
<1>. QED  BY <1>10 DEF w

\* It holds where it starts, leads nowhere else, and is in every set that does.
LEMMA ReachedClosure ==
    ASSUME NEW from, NEW next, IsFiniteSet(DOMAIN next), from \subseteq DOMAIN next,
           \A x \in DOMAIN next : next[x] \subseteq DOMAIN next
    PROVE  /\ from \subseteq Reached(from, next)
           /\ Reached(from, next) \subseteq DOMAIN next
           /\ \A x \in Reached(from, next) : next[x] \subseteq Reached(from, next)
           /\ \A Q : from \subseteq Q /\ (\A x \in Q \cap DOMAIN next : next[x] \subseteq Q)
                       => Reached(from, next) \subseteq Q
<1>0. Reached(from, next) = StepsAway(from, next)[Cardinality(DOMAIN next)]
  BY DEF Reached
<1>. DEFINE D == DOMAIN next
            Closed(s) == \A x \in s : next[x] \subseteq s
<1>1. PICK h : /\ Reached(from, next) = h[Cardinality(D)]
               /\ h[0] = from
               /\ \A n \in Nat : h[n + 1] = h[n] \cup UNION {next[x] : x \in h[n]}
  BY <1>0, StepsAwayUnfold
<1>2. h[0] = from /\ \A n \in Nat : h[n + 1] = h[n] \cup UNION {next[x] : x \in h[n]}
  BY <1>1
<1>3. Cardinality(D) \in Nat
  BY FS_CardinalityType
<1>4. \A n \in Nat : from \subseteq h[n] /\ h[n] \subseteq D
  <2>. DEFINE S == {n \in Nat : from \subseteq h[n] /\ h[n] \subseteq D}
  <2>1. 0 \in S
    BY <1>2
  <2>2. ASSUME NEW n \in Nat, n \in S PROVE n + 1 \in S
    <3>1. h[n + 1] = h[n] \cup UNION {next[x] : x \in h[n]} /\ n + 1 \in Nat
      BY <1>2
    <3>2. \A x \in h[n] : next[x] \subseteq D
      BY <2>2
    <3>. QED  BY <2>2, <3>1, <3>2
  <2>. HIDE DEF S
  <2>3. Nat \subseteq S
    BY <2>1, <2>2, Induction
  <2>. QED  BY <2>3 DEF S
<1>5. \A n \in Nat : Closed(h[n]) \/ Cardinality(h[n]) >= n
  <2>. DEFINE S == {n \in Nat : Closed(h[n]) \/ Cardinality(h[n]) >= n}
  <2>1. 0 \in S
    BY <1>4, FS_Subset, FS_CardinalityType
  <2>2. ASSUME NEW n \in Nat, n \in S PROVE n + 1 \in S
    <3>1. h[n + 1] = h[n] \cup UNION {next[x] : x \in h[n]} /\ n + 1 \in Nat
      BY <1>2
    <3>2. CASE Closed(h[n])
      <4>1. h[n + 1] = h[n]
        BY <3>1, <3>2
      <4>2. Closed(h[n + 1])
        BY <3>2, <4>1
      <4>. QED  BY <3>1, <4>2
    <3>3. CASE ~Closed(h[n])
      <4>1. h[n] \subseteq h[n + 1] /\ h[n] # h[n + 1] /\ h[n + 1] \subseteq D
        BY <1>4, <3>1, <3>3
      <4>2. IsFiniteSet(h[n + 1]) /\ IsFiniteSet(h[n])
        BY <1>4, <3>1, FS_Subset
      <4>3. /\ Cardinality(h[n]) <= Cardinality(h[n + 1])
            /\ Cardinality(h[n]) # Cardinality(h[n + 1])
        BY <4>1, <4>2, FS_Subset
      <4>4. Cardinality(h[n]) \in Nat /\ Cardinality(h[n + 1]) \in Nat
        BY <4>2, FS_CardinalityType
      <4>5. Cardinality(h[n]) >= n
        BY <2>2, <3>3
      <4>6. Cardinality(h[n + 1]) >= n + 1
        BY <4>3, <4>4, <4>5
      <4>. QED  BY <3>1, <4>6
    <3>. QED  BY <3>2, <3>3
  <2>. HIDE DEF S
  <2>3. Nat \subseteq S
    BY <2>1, <2>2, Induction
  <2>. QED  BY <2>3 DEF S
<1>6. Closed(h[Cardinality(D)])
  <2>1. CASE Cardinality(h[Cardinality(D)]) >= Cardinality(D)
    <3>1. /\ h[Cardinality(D)] \in SUBSET D
          /\ Cardinality(h[Cardinality(D)]) <= Cardinality(D)
          /\ IsFiniteSet(h[Cardinality(D)])
      BY <1>3, <1>4, FS_Subset
    <3>2. Cardinality(h[Cardinality(D)]) = Cardinality(D)
      BY <1>3, <2>1, <3>1, FS_CardinalityType
    <3>3. h[Cardinality(D)] = D
      BY <3>1, <3>2, FS_Subset
    <3>. QED  BY <3>3
  <2>. QED  BY <1>3, <1>5, <2>1
<1>7. ASSUME NEW Q, from \subseteq Q, \A x \in Q \cap D : next[x] \subseteq Q
      PROVE  \A n \in Nat : h[n] \subseteq Q
  <2>. DEFINE S == {n \in Nat : h[n] \subseteq Q}
  <2>1. 0 \in S
    BY <1>2, <1>7
  <2>2. ASSUME NEW n \in Nat, n \in S PROVE n + 1 \in S
    <3>1. h[n + 1] = h[n] \cup UNION {next[x] : x \in h[n]} /\ n + 1 \in Nat
      BY <1>2
    <3>2. \A x \in h[n] : next[x] \subseteq Q
      BY <1>4, <1>7, <2>2
    <3>. QED  BY <2>2, <3>1, <3>2
  <2>. HIDE DEF S
  <2>3. Nat \subseteq S
    BY <2>1, <2>2, Induction
  <2>. QED  BY <2>3 DEF S
<1>. QED  BY <1>1, <1>3, <1>4, <1>6, <1>7
-----------------------------------------------------------------------------
(* One lock, from its rows to its packages.                                *)

AfterRead == {"link", "import", "walk", "rest", "done"}
AfterLinks == {"import", "walk", "rest", "done"}

AdmittedRows == {i \in Parse(lock).kept : Admits(i)}

\* The first half of LinksFollowTheLock, of one link.
RightLink(l) ==
    LET ref == RefsOf(l.from)[l.ref] IN
    /\ Serves(l.to, l.from, ref)
    /\ lock.format \in YarnFormats \cup {"npm", "nuget"} => At(l.to).version \in ref.range
    /\ \A j \in Rows \ {l.to} : Serves(j, l.from, ref) =>
         CASE lock.format = "npm" -> Len(At(j).above) < Len(At(l.to).above)
           [] lock.format = "pdm" -> At(j).variant # At(l.to).variant
           [] OTHER -> FALSE

\* What is admitted is what the parser kept and the adapter could use, and a file
\* not marked incomplete was understood as a whole.
AdmissionInv ==
    /\ adapting \in {"read"} \cup AfterRead \cup {"refused"}
    /\ IsLock(lock)
    /\ admitted = IF adapting \in AfterRead THEN AdmittedRows ELSE {}
    /\ adapting \in AfterRead /\ ~incomplete =>
         Parse(lock).disposition = "parsed" /\ \A i \in Parse(lock).kept : Admits(i)

\* Every link is justified when it is made and nothing of it changes; none is
\* missing unless the file is marked incomplete.
LinksInv ==
    /\ adapting \notin AfterLinks => links = {}
    /\ \A l \in links : /\ l.from \in admitted /\ l.to \in admitted
                        /\ l.ref \in DOMAIN RefsOf(l.from)
                        /\ RightLink(l)
    /\ adapting \in AfterLinks /\ ~incomplete =>
         \A i \in admitted : \A k \in DOMAIN RefsOf(i) : \E l \in links : l.from = i /\ l.ref = k

\* Every row that was reached has a package, and what no importer reached is left.
PackagesInv ==
    /\ adapting \notin AfterLinks => packages = {} /\ owned = {}
    /\ walk \cup reached \subseteq admitted
    /\ \A p \in packages : p.row \in admitted
    /\ adapting \in {"import", "walk", "rest"} => owned = {p.row : p \in packages}
    /\ adapting = "rest" => reached = admitted \ owned
    /\ adapting = "done" => {p.row : p \in packages} = admitted
    /\ lock.format \notin {"npm", "pnpm"} => adapting # "walk" /\ (adapting # "done" => packages = {})
    /\ lock.format = "gradle" => \A p \in packages : p.scopes = At(p.row).scopes

LockInv == AdmissionInv /\ LinksInv /\ PackagesInv

-----------------------------------------------------------------------------
(* What each adapter's search finds.                                       *)

LEMMA Greatest ==
    ASSUME NEW n \in Nat, NEW S, S \subseteq 0..n, S # {}
    PROVE  Max(S) \in S /\ \A k \in S : k <= Max(S)
<1>. DEFINE D == {n - k : k \in S}
<1>0. \A k \in S : k \in Int /\ n - k \in Nat /\ n - k \in D
  OBVIOUS
<1>1. D \subseteq Nat /\ D # {}
  BY <1>0
<1>7. \A d \in D : \E k \in S : d = n - k
  OBVIOUS
<1>. HIDE DEF D
<1>2. PICK m \in D : \A d \in D : m <= d
  BY <1>1, Least
<1>3. PICK k \in S : m = n - k
  BY <1>7
<1>4. \A y \in S : k >= y
  BY <1>0, <1>2, <1>3
<1>5. \E x \in S : \A y \in S : x >= y
  BY <1>3, <1>4
<1>6. Max(S) \in S /\ \A y \in S : Max(S) >= y
  BY <1>5, Zenon DEF Max
<1>. QED  BY <1>6

LEMMA OnlyOne ==
    ASSUME NEW S, IsFiniteSet(S), Cardinality(S) = 1, NEW x \in S
    PROVE  \A y \in S : y = x
<1>1. PICK z : S = {z}
  BY FS_Singleton
<1>. QED  BY <1>1

LEMMA MoreThanOne ==
    ASSUME NEW S, IsFiniteSet(S), NEW x \in S, NEW y \in S, x # y
    PROVE  Cardinality(S) > 1
<1>1. Cardinality(S) \in Nat
  BY FS_CardinalityType
<1>2. Cardinality(S) # 0
  BY FS_EmptySet
<1>3. Cardinality(S) # 1
  BY OnlyOne
<1>. QED  BY <1>1, <1>2, <1>3

LEMMA RowFacts ==
    ASSUME IsLock(lock)
    PROVE  /\ Len(lock.rows) \in Nat /\ Rows = 1..Len(lock.rows) /\ IsFiniteSet(Rows)
           /\ \A i \in Rows : At(i) \in LockRow
           /\ lock.format \in LockFormats
<1>1. lock.rows \in Seq(LockRow) /\ lock.format \in LockFormats
  BY DEF IsLock
<1>2. /\ Len(lock.rows) \in Nat /\ Rows = 1..Len(lock.rows)
      /\ \A i \in Rows : At(i) \in LockRow
  BY <1>1 DEF Rows, At
<1>3. IsFiniteSet(Rows)
  BY <1>2, FS_Interval
<1>. QED  BY <1>1, <1>2, <1>3

\* What the parser says of the rows that are admitted, and of their file.
LEMMA AdmittedFacts ==
    ASSUME NEW i \in AdmittedRows
    PROVE  /\ i \in Rows /\ Admits(i)
           /\ Parse(lock).disposition # "refused"
           /\ ~Contradicts(lock)
           /\ Verdict(lock, i) # "left out"
           /\ \A j \in Rows : Verdict(lock, j) # "refused"
           /\ Parse(lock).kept = {j \in Rows : /\ Verdict(lock, j) # "left out"
                                               /\ lock.format = "pnpm" => PnpmBound(lock, j)}
<1>. DEFINE verdicts == {Verdict(lock, j) : j \in Rows}
            bad == lock.head = "refused" \/ "refused" \in verdicts \/ Contradicts(lock)
            kept == {j \in Rows : /\ Verdict(lock, j) # "left out"
                                  /\ lock.format = "pnpm" => PnpmBound(lock, j)}
            fit == lock.head = "sound" /\ verdicts \subseteq {"kept"} /\ ~Doubtful(lock)
<1>1. Parse(lock) = IF bad THEN [disposition |-> "refused", kept |-> {}]
                    ELSE [disposition |-> IF fit THEN "parsed" ELSE "partial", kept |-> kept]
  BY DEF Parse, Rows
<1>2. i \in Parse(lock).kept /\ Admits(i)
  BY DEF AdmittedRows
<1>3. "refused" \in verdicts <=> \E j \in Rows : Verdict(lock, j) = "refused"
  OBVIOUS
<1>4. bad \/ ~bad
  OBVIOUS
<1>5. ~bad <=> /\ lock.head # "refused" /\ ~Contradicts(lock)
               /\ \A j \in Rows : Verdict(lock, j) # "refused"
  BY <1>3
<1>. HIDE DEF fit, verdicts, bad, kept
<1>6. ~bad
  <2>. SUFFICES ASSUME bad PROVE FALSE
    BY <1>4
  <2>1. Parse(lock).kept = {}
    BY <1>1
  <2>. QED  BY <1>2, <2>1
<1>7. Parse(lock).disposition # "refused" /\ Parse(lock).kept = kept
  <2>1. CASE fit
    BY <1>1, <1>6, <2>1
  <2>2. CASE ~fit
    BY <1>1, <1>6, <2>2
  <2>. QED  BY <2>1, <2>2
<1>. QED  BY <1>2, <1>5, <1>6, <1>7 DEF kept

LEMMA SoleFinds ==
    ASSUME NEW found, IsFiniteSet(found), NEW j \in Sole(found)
    PROVE  j \in admitted /\ j \in found /\ \A m \in found : m = j
<1>1. Cardinality(found) = 1 /\ j \in found /\ j \in admitted
  BY DEF Sole
<1>. QED  BY <1>1, OnlyOne

-----------------------------------------------------------------------------
(* Each format's link goes to the row the lock means.                      *)

\* In npm the entry found is the nearest of its name.
LEMMA NpmRight ==
    ASSUME IsLock(lock), NEW dir, dir \in Seq(STRING), NEW ref, NEW j \in NpmLink(dir, ref)
    PROVE  /\ j \in admitted /\ At(j).name = ref.name /\ At(j).version \in ref.range
           /\ \E k \in 0..Len(dir) : At(j).above = SubSeq(dir, 1, k)
           /\ \A m \in Rows \ {j} :
                At(m).name = ref.name /\ (\E k \in 0..Len(dir) : At(m).above = SubSeq(dir, 1, k))
                  => Len(At(m).above) < Len(At(j).above)
<1>. DEFINE entry(k) == {m \in Rows : At(m).above = SubSeq(dir, 1, k) /\ At(m).name = ref.name}
            levels == {k \in 0..Len(dir) : entry(k) # {}}
<1>1. NpmEndpoint(dir, ref) = IF levels = {} THEN {} ELSE entry(Max(levels))
  BY DEF NpmEndpoint
<1>2. j \in Sole(NpmEndpoint(dir, ref)) /\ At(j).version \in ref.range
  BY DEF NpmLink, InRange
<1>3. levels # {}
  BY <1>1, <1>2 DEF Sole
<1>4. Len(dir) \in Nat
  OBVIOUS
<1>5. Max(levels) \in levels /\ \A k \in levels : k <= Max(levels)
  BY <1>3, <1>4, Greatest
<1>6. IsFiniteSet(entry(Max(levels)))
  BY RowFacts, FS_Subset
<1>7. j \in Sole(entry(Max(levels)))
  BY <1>1, <1>2, <1>3
<1>. HIDE DEF entry
<1>8. j \in admitted /\ j \in entry(Max(levels)) /\ \A m \in entry(Max(levels)) : m = j
  BY <1>6, <1>7, SoleFinds
<1>9. Max(levels) \in 0..Len(dir)
  BY <1>5
<1>10. \A k \in 0..Len(dir) : Len(SubSeq(dir, 1, k)) = k
  OBVIOUS
<1>. HIDE DEF levels
<1>11. /\ At(j).above = SubSeq(dir, 1, Max(levels)) /\ At(j).name = ref.name
       /\ Len(At(j).above) = Max(levels)
  BY <1>8, <1>9, <1>10 DEF entry
<1>12. ASSUME NEW m \in Rows \ {j}, At(m).name = ref.name, NEW k \in 0..Len(dir), At(m).above = SubSeq(dir, 1, k)
       PROVE  Len(At(m).above) < Len(At(j).above)
  <2>1. m \in entry(k) /\ k \in levels
    BY <1>12 DEF entry, levels
  <2>2. k <= Max(levels) /\ k # Max(levels)
    BY <1>5, <1>8, <2>1
  <2>3. Len(At(m).above) = k
    BY <1>10, <1>12
  <2>. QED  BY <1>9, <1>11, <2>2, <2>3
<1>. QED  BY <1>2, <1>8, <1>9, <1>11, <1>12

\* A descriptor of a yarn lock has one owner, and the row bears its name.
LEMMA YarnRight ==
    ASSUME IsLock(lock), admitted = AdmittedRows, lock.format \in YarnFormats, NEW ref, NEW j \in YarnLink(ref)
    PROVE  /\ j \in admitted /\ At(j).name = ref.name /\ At(j).version \in ref.range
           /\ <<ref.name, ref.range>> \in At(j).descriptors
           /\ \A m \in Rows \ {j} : <<ref.name, ref.range>> \notin At(m).descriptors
<1>. DEFINE d == <<ref.name, ref.range>>
            listing == {m \in Rows : d \in At(m).descriptors}
<1>1. j \in Sole(YarnOwners(d))
  BY DEF YarnLink
<1>2. j \in YarnOwners(d) /\ j \in admitted
  BY <1>1 DEF Sole
<1>3. /\ d \notin YarnBlocked(lock)
      /\ d \in At(j).descriptors /\ At(j).version \in ref.range
  BY <1>2 DEF YarnOwners
<1>4. j \in Rows /\ Verdict(lock, j) # "left out"
  BY <1>2, AdmittedFacts
<1>5. lock.rows[j].flaw \notin {"alias", "descriptor"}
  BY <1>4 DEF Verdict, FlawsOf, YarnFlaws, Effects, YarnFormats
<1>6. \A e \in lock.rows[j].descriptors : e[1] = lock.rows[j].name
  BY <1>4, <1>5 DEF IsLock, Rows
<1>7. At(j).name = ref.name
  BY <1>3, <1>6 DEF At
<1>8. ASSUME NEW m \in Rows \ {j}, d \in At(m).descriptors
      PROVE  FALSE
  <2>1. IsFiniteSet(listing) /\ m \in listing /\ j \in listing
    BY <1>3, <1>4, <1>8, RowFacts, FS_Subset
  <2>2. Cardinality(listing) > 1
    BY <1>8, <2>1, MoreThanOne
  <2>3. listing = {i \in DOMAIN lock.rows : d \in lock.rows[i].descriptors}
    BY DEF Rows, At
  <2>4. d \in YarnBlocked(lock)
    BY <1>4, <1>3, <2>2, <2>3 DEF YarnBlocked, Rows, At
  <2>. QED  BY <1>3, <2>4
<1>. QED  BY <1>2, <1>3, <1>7, <1>8

\* The key of a pnpm snapshot names it.
LEMMA PnpmRight ==
    ASSUME IsLock(lock), admitted = AdmittedRows, lock.format = "pnpm", NEW ref, NEW j \in PnpmLink(ref)
    PROVE  /\ j \in admitted /\ ~At(j).bare /\ At(j).name = ref.name
           /\ At(j).version = ref.version /\ At(j).variant = ref.variant
           /\ \A m \in Rows \ {j} : ~(/\ ~At(m).bare /\ At(m).name = ref.name
                                      /\ At(m).version = ref.version /\ At(m).variant = ref.variant)
<1>1. /\ j \in admitted /\ ~At(j).bare /\ At(j).name = ref.name
      /\ At(j).version = ref.version /\ At(j).variant = ref.variant
  BY DEF PnpmLink
<1>2. j \in Rows
  BY <1>1, AdmittedFacts
<1>3. \A m \in Rows : ~(/\ Named(lock, j, m) /\ ~lock.rows[m].bare
                        /\ lock.rows[m].version = lock.rows[j].version
                        /\ lock.rows[m].variant = lock.rows[j].variant)
  BY <1>1, <1>2 DEF IsLock, Rows, At
<1>. QED  BY <1>1, <1>3 DEF Named, At

LEMMA CargoRight ==
    ASSUME IsLock(lock), NEW ref, NEW j \in CargoLink(ref)
    PROVE  /\ j \in admitted /\ At(j).name = ref.name
           /\ ref.version \in {0, At(j).version} /\ ref.source \in {0, At(j).source}
           /\ \A m \in Rows \ {j} : ~(/\ At(m).name = ref.name
                                      /\ ref.version \in {0, At(m).version} /\ ref.source \in {0, At(m).source})
<1>. DEFINE found == {m \in Rows : /\ At(m).name = ref.name
                                   /\ ref.version \in {0, At(m).version}
                                   /\ ref.source \in {0, At(m).source}}
<1>1. j \in Sole(found)
  BY DEF CargoLink
<1>2. IsFiniteSet(found)
  BY RowFacts, FS_Subset
<1>3. j \in admitted /\ j \in found /\ \A m \in found : m = j
  <2>. HIDE DEF found
  <2>. QED  BY <1>1, <1>2, SoleFinds
<1>. QED  BY <1>3

\* No row of a Python lock is left out, so one that matches alone is the only one.
LEMMA PythonRight ==
    ASSUME IsLock(lock), admitted = AdmittedRows, lock.format \in PythonFormats,
           NEW i, NEW k, NEW j \in PythonLink(i, k)
    PROVE  LET ref == RefsOf(i)[k]
               fits(m) == /\ At(m).name = ref.name
                          /\ ref.version \in {0, At(m).version} /\ ref.source \in {0, At(m).source}
                          /\ At(m).version \in ref.range
                          /\ lock.format \in {"poetry", "pdm"} /\ At(i).group # 0 => At(m).group = At(i).group
           IN /\ j \in admitted /\ fits(j)
              /\ \A m \in Rows \ {j} : fits(m) => lock.format = "pdm" /\ At(m).variant # At(j).variant
<1>. DEFINE ref == RefsOf(i)[k]
            found == {m \in InRange(RowsNamed(ref.name), ref) :
                        /\ ref.version \in {0, At(m).version}
                        /\ ref.source \in {0, At(m).source}
                        /\ lock.format = "pdm" => At(m).variant = ref.variant
                        /\ lock.format \in {"poetry", "pdm"} /\ At(i).group # 0 => At(m).group = At(i).group}
<1>1. j \in Sole(found)
  BY DEF PythonLink
<1>2. admitted \subseteq Rows
  BY AdmittedFacts
<1>3. found \subseteq Rows
  BY <1>2 DEF InRange, RowsNamed
<1>4. IsFiniteSet(found)
  BY <1>3, RowFacts, FS_Subset
<1>5. j \in admitted /\ j \in found /\ \A m \in found : m = j
  <2>. HIDE DEF found
  <2>. QED  BY <1>1, <1>4, SoleFinds
<1>6. ASSUME NEW m \in Rows PROVE m \in admitted
  <2>1. Verdict(lock, m) # "left out"
    BY DEF Verdict, FlawsOf, PipfileFlaws, PylockFlaws, PoetryFlaws, PdmFlaws, UvFlaws, Effects,
           PythonFormats, GroupedFormats, YarnFormats
  <2>2. lock.format \notin {"npm", "pnpm"} \cup YarnFormats
    BY DEF PythonFormats, GroupedFormats, YarnFormats
  <2>3. m \in Parse(lock).kept
    BY <1>5, <2>1, <2>2, AdmittedFacts
  <2>4. Admits(m)
    BY <2>2 DEF Admits
  <2>. QED  BY <2>3, <2>4 DEF AdmittedRows
<1>. QED  BY <1>5, <1>6 DEF InRange, RowsNamed

LEMMA NugetRight ==
    ASSUME IsLock(lock), admitted = AdmittedRows, lock.format = "nuget", NEW i, NEW ref, NEW j \in NugetLink(i, ref)
    PROVE  /\ j \in admitted /\ At(j).name = ref.name /\ At(j).group = At(i).group /\ At(j).version \in ref.range
           /\ \A m \in Rows \ {j} : ~(At(m).name = ref.name /\ At(m).group = At(i).group)
<1>1. j \in admitted /\ At(j).name = ref.name /\ At(j).group = At(i).group /\ At(j).version \in ref.range
  BY DEF NugetLink, RowsNamed, InRange
<1>2. j \in Rows /\ ~NameTwice(lock)
  BY <1>1, AdmittedFacts DEF Contradicts
<1>3. \A m \in Rows : lock.rows[m].flaw # "type"
  BY DEF IsLock, FlawsOf, NugetFlaws, Effects, Rows, YarnFormats, PythonFormats, GroupedFormats
<1>. QED  BY <1>1, <1>2, <1>3 DEF NameTwice, Named, Rows, At

LEMMA EndpointRight ==
    ASSUME IsLock(lock), admitted = AdmittedRows,
           NEW i \in admitted, NEW k \in DOMAIN RefsOf(i), NEW j \in Endpoint(i, k)
    PROVE  j \in admitted /\ RightLink([from |-> i, ref |-> k, to |-> j])
<1>. DEFINE ref == RefsOf(i)[k]
            right == /\ Serves(j, i, ref)
                     /\ lock.format \in YarnFormats \cup {"npm", "nuget"} => At(j).version \in ref.range
                     /\ \A m \in Rows \ {j} : Serves(m, i, ref) =>
                          CASE lock.format = "npm" -> Len(At(m).above) < Len(At(j).above)
                            [] lock.format = "pdm" -> At(m).variant # At(j).variant
                            [] OTHER -> FALSE
<1>1. i \in Rows /\ At(i) \in LockRow /\ lock.format \in LockFormats
  BY AdmittedFacts, RowFacts
<1>. SUFFICES j \in admitted /\ right
  BY DEF RightLink
<1>2. CASE lock.format = "npm"
  <2>. DEFINE dir == Append(At(i).above, At(i).name)
  <2>1. dir \in Seq(STRING)
    BY <1>1 DEF LockRow
  <2>2. j \in NpmLink(dir, ref)
    BY <1>2 DEF Endpoint, YarnFormats, PythonFormats, GroupedFormats
  <2>3. \A m \in Rows : Serves(m, i, ref) <=>
          At(m).name = ref.name /\ \E n \in 0..Len(dir) : At(m).above = SubSeq(dir, 1, n)
    BY <1>2 DEF Serves, YarnFormats
  <2>4. admitted \subseteq Rows
    BY AdmittedFacts
  <2>. HIDE DEF dir, ref
  <2>5. /\ j \in admitted /\ At(j).name = ref.name /\ At(j).version \in ref.range
        /\ \E n \in 0..Len(dir) : At(j).above = SubSeq(dir, 1, n)
        /\ \A m \in Rows \ {j} :
             At(m).name = ref.name /\ (\E n \in 0..Len(dir) : At(m).above = SubSeq(dir, 1, n))
               => Len(At(m).above) < Len(At(j).above)
    BY <2>1, <2>2, NpmRight
  <2>. QED  BY <1>2, <2>3, <2>4, <2>5
<1>3. CASE lock.format \in YarnFormats
  <2>1. j \in YarnLink(ref)
    BY <1>3 DEF Endpoint, YarnFormats, PythonFormats, GroupedFormats
  <2>2. \A m : Serves(m, i, ref) <=> At(m).name = ref.name /\ <<ref.name, ref.range>> \in At(m).descriptors
    BY <1>3 DEF Serves, YarnFormats
  <2>3. lock.format \notin {"npm", "pdm"}
    BY <1>3 DEF YarnFormats
  <2>. HIDE DEF ref
  <2>. QED  BY <1>3, <2>1, <2>2, <2>3, YarnRight
<1>4. CASE lock.format = "pnpm"
  <2>1. j \in PnpmLink(ref)
    BY <1>4 DEF Endpoint, YarnFormats, PythonFormats, GroupedFormats
  <2>2. \A m : Serves(m, i, ref) <=> /\ At(m).name = ref.name /\ ~At(m).bare
                                     /\ At(m).version = ref.version /\ At(m).variant = ref.variant
    BY <1>4 DEF Serves, YarnFormats
  <2>. HIDE DEF ref
  <2>. QED  BY <1>4, <2>1, <2>2, PnpmRight DEF YarnFormats
<1>5. CASE lock.format = "cargo"
  <2>1. j \in CargoLink(ref)
    BY <1>5 DEF Endpoint, YarnFormats, PythonFormats, GroupedFormats
  <2>2. \A m : Serves(m, i, ref) <=> /\ At(m).name = ref.name /\ ref.version \in {0, At(m).version}
                                     /\ ref.source \in {0, At(m).source}
    BY <1>5 DEF Serves, YarnFormats
  <2>. HIDE DEF ref
  <2>. QED  BY <1>5, <2>1, <2>2, CargoRight DEF YarnFormats
<1>6. CASE lock.format \in PythonFormats
  <2>1. j \in PythonLink(i, k)
    BY <1>6 DEF Endpoint, YarnFormats, PythonFormats, GroupedFormats
  <2>. DEFINE fits(m) == /\ At(m).name = ref.name
                         /\ ref.version \in {0, At(m).version} /\ ref.source \in {0, At(m).source}
                         /\ At(m).version \in ref.range
                         /\ lock.format \in {"poetry", "pdm"} /\ At(i).group # 0 => At(m).group = At(i).group
  <2>2. \A m : Serves(m, i, ref) <=> fits(m)
    BY <1>6 DEF Serves, YarnFormats, PythonFormats, GroupedFormats
  <2>3. lock.format \notin YarnFormats \cup {"npm", "nuget"}
    BY <1>6 DEF YarnFormats, PythonFormats, GroupedFormats
  <2>4. /\ j \in admitted /\ fits(j)
        /\ \A m \in Rows \ {j} : fits(m) => lock.format = "pdm" /\ At(m).variant # At(j).variant
    BY <1>6, <2>1, PythonRight
  <2>. HIDE DEF ref, fits
  <2>. QED  BY <2>2, <2>3, <2>4
<1>7. CASE lock.format = "nuget"
  <2>1. j \in NugetLink(i, ref)
    BY <1>7 DEF Endpoint, YarnFormats, PythonFormats, GroupedFormats
  <2>2. \A m : Serves(m, i, ref) <=> At(m).name = ref.name /\ At(m).group = At(i).group
    BY <1>7 DEF Serves, YarnFormats, PythonFormats, GroupedFormats
  <2>. HIDE DEF ref
  <2>. QED  BY <1>7, <2>1, <2>2, NugetRight DEF YarnFormats
<1>8. CASE lock.format \in {"composer", "bundler", "gradle"}
  <2>1. At(i).refs = <<>>
    BY <1>1, <1>8 DEF IsLock, Rows, At
  <2>2. RefsOf(i) = <<>>
    BY <1>8, <2>1 DEF RefsOf, Effective, YarnFormats
  <2>. QED  BY <2>2
<1>. QED  BY <1>1, <1>2, <1>3, <1>4, <1>5, <1>6, <1>7, <1>8 DEF LockFormats

\* A file that was understood as a whole is a package for every row of it.
LEMMA ParsedIsWhole ==
    ASSUME IsLock(lock), Parse(lock).disposition = "parsed", NEW i \in Rows, ~At(i).bare
    PROVE  i \in Parse(lock).kept
<1>. DEFINE verdicts == {Verdict(lock, j) : j \in Rows}
            bad == lock.head = "refused" \/ "refused" \in verdicts \/ Contradicts(lock)
            kept == {j \in Rows : /\ Verdict(lock, j) # "left out"
                                  /\ lock.format = "pnpm" => PnpmBound(lock, j)}
            fit == lock.head = "sound" /\ verdicts \subseteq {"kept"} /\ ~Doubtful(lock)
<1>1. Parse(lock) = IF bad THEN [disposition |-> "refused", kept |-> {}]
                    ELSE [disposition |-> IF fit THEN "parsed" ELSE "partial", kept |-> kept]
  BY DEF Parse, Rows
<1>2. ~bad /\ fit
  <2>1. (bad \/ ~bad) /\ (fit \/ ~fit)
    OBVIOUS
  <2>. HIDE DEF bad, fit, kept
  <2>2. ASSUME bad PROVE FALSE
    BY <1>1, <2>2
  <2>3. ASSUME ~bad, ~fit PROVE FALSE
    BY <1>1, <2>3
  <2>. QED  BY <2>1, <2>2, <2>3
<1>3. Parse(lock).kept = kept
  <2>. HIDE DEF bad, fit, kept
  <2>. QED  BY <1>1, <1>2
<1>4. Verdict(lock, i) = "kept"
  BY <1>2
<1>5. lock.format = "pnpm" => PnpmBound(lock, i)
  <2>. SUFFICES ASSUME lock.format = "pnpm" PROVE PnpmBound(lock, i)
    OBVIOUS
  <2>1. ~Doubtful(lock)
    BY <1>2
  <2>2. lock.rows[i].bare # PnpmBound(lock, i)
    BY <1>4, <2>1 DEF Doubtful, Rows
  <2>3. lock.rows[i].bare = FALSE
    BY RowFacts DEF At, LockRow
  <2>. QED  BY <2>2, <2>3 DEF PnpmBound
<1>. QED  BY <1>3, <1>4, <1>5

-----------------------------------------------------------------------------
(* LockInv holds at the start and is kept by every step.                   *)

LEMMA LockUnchanged ==
    ASSUME lock' = lock
    PROVE  /\ Rows' = Rows /\ AdmittedRows' = AdmittedRows
           /\ \A i : At(i)' = At(i) /\ RefsOf(i)' = RefsOf(i)
           /\ \A l : RightLink(l)' <=> RightLink(l)
<1>1. Rows' = Rows /\ \A i : At(i)' = At(i) /\ RefsOf(i)' = RefsOf(i)
  BY DEF Rows, At, RefsOf
<1>2. \A i : Admits(i)' <=> Admits(i)
  BY DEF Admits, NpmAdmits, YarnAdmits, At
<1>3. AdmittedRows' = AdmittedRows
  <2>1. Parse(lock') = Parse(lock)
    OBVIOUS
  <2>2. \A i : i \in AdmittedRows' <=> i \in Parse(lock').kept /\ Admits(i)'
    BY DEF AdmittedRows
  <2>3. \A i : i \in AdmittedRows <=> i \in Parse(lock).kept /\ Admits(i)
    BY DEF AdmittedRows
  <2>4. \A i : i \in AdmittedRows' <=> i \in AdmittedRows
    BY <1>2, <2>1, <2>2, <2>3
  <2>. QED  BY <2>4
<1>4. \A j, i, ref : Serves(j, i, ref)' <=> Serves(j, i, ref)
  BY DEF Serves, At
<1>5. \A l : RightLink(l)' <=> RightLink(l)
  <2>. TAKE l
  <2>. DEFINE ref == RefsOf(l.from)[l.ref]
  <2>1. /\ Serves(l.to, l.from, ref)' <=> Serves(l.to, l.from, ref)
        /\ \A j : Serves(j, l.from, ref)' <=> Serves(j, l.from, ref)
    BY <1>1, <1>4
  <2>. QED  BY <1>1, <2>1 DEF RightLink
<1>. QED  BY <1>1, <1>3, <1>5

LEMMA SelectionAdmitted ==
    ASSUME NEW ref
    PROVE  Selection(ref) \subseteq admitted
BY DEF Selection, NpmSelection, PnpmSelection, NpmLink, PnpmLink, InRange, Sole

LEMMA LockInitInv ==
    ASSUME NEW l \in Locks, LockInit(l)
    PROVE  LockInv
BY LockAssumption DEF LockInit, LockInv, AdmissionInv, LinksInv, PackagesInv, AfterRead, AfterLinks

LEMMA ParseLockInv ==
    ASSUME LockInv, ParseLock
    PROVE  LockInv'
<1>. USE DEF LockInv, ParseLock
<1>1. lock' = lock /\ AdmittedRows' = AdmittedRows /\ Parse(lock)' = Parse(lock) /\ adapting' \in {"done", "link"}
  BY LockUnchanged
<1>2. admitted' = AdmittedRows
  BY DEF AdmittedRows
<1>3. \A i : Admits(i)' <=> Admits(i)
  BY <1>1 DEF Admits, NpmAdmits, YarnAdmits, At
<1>4. AdmissionInv'
  <2>1. IsLock(lock)' /\ admitted' = AdmittedRows'
    BY <1>1, <1>2 DEF AdmissionInv
  <2>2. adapting' \in AfterRead
    BY <1>1 DEF AfterRead
  <2>3. ~incomplete' => Parse(lock)'.disposition = "parsed" /\ \A i \in Parse(lock)'.kept : Admits(i)'
    BY <1>1, <1>3
  <2>. QED  BY <2>1, <2>2, <2>3 DEF AdmissionInv
<1>5. adapting = "read" /\ admitted = {} /\ links = {} /\ packages = {} /\ owned = {} /\ walk = {} /\ reached = {}
  BY DEF AdmissionInv, LinksInv, PackagesInv, AfterRead, AfterLinks
<1>6. adapting' = "done" => admitted' = {}
  <2>. SUFFICES ASSUME adapting' = "done", NEW i \in admitted' PROVE FALSE
    OBVIOUS
  <2>1. Parse(lock).disposition = "refused"
    OBVIOUS
  <2>. QED  BY <1>2, <2>1, AdmittedFacts
<1>7. LinksInv'
  BY <1>1, <1>5, <1>6 DEF LinksInv, AfterLinks
<1>8. PackagesInv'
  BY <1>1, <1>5, <1>6 DEF PackagesInv, AfterLinks
<1>. QED  BY <1>4, <1>7, <1>8

LEMMA LinkRowsInv ==
    ASSUME LockInv, LinkRows
    PROVE  LockInv'
<1>. USE DEF LockInv, LinkRows
<1>1. lock' = lock /\ admitted' = admitted /\ adapting = "link" /\ adapting' = "import"
  OBVIOUS
<1>2. IsLock(lock) /\ admitted = AdmittedRows
  BY DEF AdmissionInv, AfterRead
<1>3. AdmissionInv'
  <2>1. \A i : Admits(i)' <=> Admits(i)
    BY <1>1 DEF Admits, NpmAdmits, YarnAdmits, At
  <2>2. ~incomplete' => ~incomplete
    OBVIOUS
  <2>. QED  BY <1>1, <2>1, <2>2, LockUnchanged DEF AdmissionInv, AfterRead
<1>4. \A l \in links' : \E i \in admitted : \E k \in DOMAIN RefsOf(i) : \E j \in Endpoint(i, k) :
        l = [from |-> i, ref |-> k, to |-> j]
  OBVIOUS
<1>5. \A l \in links' : l.from \in admitted /\ l.to \in admitted /\ l.ref \in DOMAIN RefsOf(l.from) /\ RightLink(l)
  BY <1>2, <1>4, EndpointRight
<1>6. ASSUME ~incomplete', NEW i \in admitted, NEW k \in DOMAIN RefsOf(i)
      PROVE  \E l \in links' : l.from = i /\ l.ref = k
  <2>1. PICK j : j \in Endpoint(i, k)
    BY <1>6
  <2>2. [from |-> i, ref |-> k, to |-> j] \in links'
    BY <2>1
  <2>. QED  BY <2>2
<1>7. LinksInv'
  BY <1>1, <1>5, <1>6, LockUnchanged DEF LinksInv, AfterLinks
<1>8. packages = {} /\ owned = {}
  BY <1>1 DEF PackagesInv, AfterLinks
<1>9. PackagesInv'
  BY <1>1, <1>8, LockUnchanged DEF PackagesInv, AfterLinks
<1>. QED  BY <1>3, <1>7, <1>9

\* Steps that leave the lock, its rows and its links alone.
LEMMA LinksStay ==
    ASSUME LockInv, adapting \in AfterLinks, adapting' \in AfterLinks,
           lock' = lock, admitted' = admitted, links' = links, ~incomplete' => ~incomplete
    PROVE  AdmissionInv' /\ LinksInv'
<1>1. \A i : Admits(i)' <=> Admits(i)
  BY DEF Admits, NpmAdmits, YarnAdmits, At
<1>2. AfterLinks \subseteq AfterRead
  BY DEF AfterLinks, AfterRead
<1>3. AdmissionInv'
  <2>1. IsLock(lock)' /\ admitted' = AdmittedRows'
    BY <1>2, LockUnchanged DEF LockInv, AdmissionInv
  <2>2. ~incomplete' => Parse(lock)'.disposition = "parsed" /\ \A i \in Parse(lock)'.kept : Admits(i)'
    BY <1>1, <1>2 DEF LockInv, AdmissionInv
  <2>. QED  BY <1>2, <2>1, <2>2 DEF AdmissionInv
<1>4. LinksInv'
  BY LockUnchanged DEF LockInv, LinksInv
<1>. QED  BY <1>3, <1>4

LEMMA BeginImporterInv ==
    ASSUME LockInv, BeginImporter
    PROVE  LockInv'
<1>. USE DEF BeginImporter
<1>1. /\ adapting = "import" /\ adapting' = "walk" /\ lock' = lock /\ admitted' = admitted /\ links' = links
      /\ owned' = owned /\ packages' = packages /\ walk' = Direct(importer) /\ reached' = Direct(importer)
  OBVIOUS
<1>2. ~incomplete' => ~incomplete
  OBVIOUS
<1>3. Direct(importer) \subseteq admitted
  BY SelectionAdmitted DEF Direct
<1>4. lock.format \in {"npm", "pnpm"}
  <2>1. IsLock(lock) /\ importer \in DOMAIN lock.importers
    BY DEF LockInv, AdmissionInv
  <2>2. lock.importers # <<>>
    BY <2>1
  <2>. QED  BY <2>1, <2>2 DEF IsLock
<1>. HIDE DEF BeginImporter
<1>5. AdmissionInv' /\ LinksInv'
  BY <1>1, <1>2, LinksStay DEF AfterLinks
<1>6. PackagesInv'
  BY <1>1, <1>3, <1>4, LockUnchanged DEF LockInv, PackagesInv, AfterLinks
<1>. QED  BY <1>5, <1>6 DEF LockInv

LEMMA FollowRowInv ==
    ASSUME LockInv, NEW i \in walk, FollowRow(i)
    PROVE  LockInv'
<1>1. /\ adapting = "walk" /\ adapting' = "walk" /\ lock' = lock /\ admitted' = admitted /\ links' = links
      /\ owned' = owned /\ packages' = packages /\ incomplete' = incomplete
      /\ walk' \subseteq walk \cup LinkedFrom(i) /\ reached' = reached \cup LinkedFrom(i)
  BY DEF FollowRow
<1>2. LinkedFrom(i) \subseteq admitted
  BY DEF LinkedFrom, LockInv, LinksInv
<1>3. AdmissionInv' /\ LinksInv'
  BY <1>1, LinksStay DEF AfterLinks
<1>4. PackagesInv'
  BY <1>1, <1>2, LockUnchanged DEF LockInv, PackagesInv, AfterLinks
<1>. QED  BY <1>3, <1>4 DEF LockInv

LEMMA EndImporterInv ==
    ASSUME LockInv, EndImporter
    PROVE  LockInv'
<1>. DEFINE pkg(j) == IF lock.format = "npm" THEN NpmPackage(importer, j) ELSE PnpmPackage(importer, j)
<1>1. /\ adapting = "walk" /\ adapting' = "import" /\ lock' = lock /\ admitted' = admitted /\ links' = links
      /\ incomplete' = incomplete /\ walk' = walk /\ reached' = reached /\ owned' = owned \cup reached
      /\ packages' = packages \cup {pkg(j) : j \in reached}
  BY DEF EndImporter
<1>2. \A j : pkg(j).row = j
  BY DEF NpmPackage, PnpmPackage, Package
<1>. HIDE DEF pkg
<1>3. AdmissionInv' /\ LinksInv'
  BY <1>1, LinksStay DEF AfterLinks
<1>4. owned' = {p.row : p \in packages'} /\ \A p \in packages' : p.row \in admitted
  BY <1>1, <1>2 DEF LockInv, PackagesInv
<1>5. PackagesInv'
  BY <1>1, <1>4, LockUnchanged DEF LockInv, PackagesInv, AfterLinks
<1>. QED  BY <1>3, <1>5 DEF LockInv

LEMMA BeginRestInv ==
    ASSUME LockInv, BeginRest
    PROVE  LockInv'
<1>1. /\ adapting = "import" /\ adapting' = "rest" /\ lock' = lock /\ admitted' = admitted /\ links' = links
      /\ incomplete' = incomplete /\ walk' = walk /\ reached' = admitted \ owned /\ owned' = owned
      /\ packages' = packages
  BY DEF BeginRest
<1>2. AdmissionInv' /\ LinksInv'
  BY <1>1, LinksStay DEF AfterLinks
<1>3. PackagesInv'
  BY <1>1, LockUnchanged DEF LockInv, PackagesInv, AfterLinks
<1>. QED  BY <1>2, <1>3 DEF LockInv

\* What no importer reached leads to admitted rows only.
LEMMA RestAdmitted ==
    ASSUME LockInv, adapting \in AfterLinks
    PROVE  /\ reached \subseteq Reached(reached, [i \in Rows |-> LinkedFrom(i)])
           /\ Reached(reached, [i \in Rows |-> LinkedFrom(i)]) \subseteq admitted
<1>. DEFINE next == [i \in Rows |-> LinkedFrom(i)]
<1>1. IsLock(lock) /\ admitted = AdmittedRows /\ reached \subseteq admitted
  BY DEF LockInv, AdmissionInv, PackagesInv, AfterLinks, AfterRead
<1>2. admitted \subseteq Rows
  BY <1>1, AdmittedFacts
<1>3. \A i : LinkedFrom(i) \subseteq admitted
  BY DEF LinkedFrom, LockInv, LinksInv
<1>4. DOMAIN next = Rows /\ \A i \in Rows : next[i] \subseteq admitted
  BY <1>3
<1>5. IsFiniteSet(Rows)
  BY <1>1, RowFacts
<1>. HIDE DEF next
<1>6. /\ reached \subseteq Reached(reached, next)
      /\ \A Q : reached \subseteq Q /\ (\A x \in Q \cap DOMAIN next : next[x] \subseteq Q)
                  => Reached(reached, next) \subseteq Q
  BY <1>1, <1>2, <1>4, <1>5, ReachedClosure
<1>7. Reached(reached, next) \subseteq admitted
  BY <1>1, <1>2, <1>4, <1>6
<1>. QED  BY <1>6, <1>7 DEF next

LEMMA RestRows ==
    ASSUME LockInv, adapting \in AfterLinks
    PROVE  reached \subseteq {p.row : p \in Rest} /\ {p.row : p \in Rest} \subseteq admitted
<1>. USE DEF Package
<1>1. reached \subseteq admitted
  BY DEF LockInv, PackagesInv
<1>2. CASE lock.format = "pnpm"
  <2>. DEFINE all == Reached(reached, [i \in Rows |-> LinkedFrom(i)])
  <2>1. Rest = {Package(0, j, "unknown", {}) : j \in all}
    BY <1>2 DEF Rest, PnpmRest, PythonFormats, GroupedFormats, YarnFormats
  <2>2. reached \subseteq all /\ all \subseteq admitted
    BY RestAdmitted
  <2>. HIDE DEF all
  <2>3. \A p \in Rest : p.row \in all
    BY <2>1
  <2>4. \A j \in all : \E p \in Rest : p.row = j
    <3>. TAKE j \in all
    <3>1. Package(0, j, "unknown", {}) \in Rest
      BY <2>1
    <3>. QED  BY <3>1
  <2>. QED  BY <2>2, <2>3, <2>4
<1>3. CASE lock.format # "pnpm"
  <2>1. \A p \in Rest : p.row \in reached
    BY <1>3 DEF Rest, NugetPackage, CargoPackage, PythonPackage, YarnPackage, GradlePackage, SecondaryPackage,
                PythonFormats, GroupedFormats, YarnFormats
  <2>2. \A j \in reached : \E p \in Rest : p.row = j
    <3>. TAKE j \in reached
    <3>1. CASE lock.format = "npm"
      <4>1. Package(0, j, "unknown", At(j).scopes) \in Rest
        BY <3>1 DEF Rest, PythonFormats, GroupedFormats, YarnFormats
      <4>. QED  BY <4>1
    <3>2. CASE lock.format = "nuget"
      <4>1. NugetPackage(j) \in Rest
        BY <3>2 DEF Rest, PythonFormats, GroupedFormats, YarnFormats
      <4>. QED  BY <4>1 DEF NugetPackage
    <3>3. CASE lock.format = "cargo"
      <4>1. CargoPackage(j) \in Rest
        BY <3>3 DEF Rest, PythonFormats, GroupedFormats, YarnFormats
      <4>. QED  BY <4>1 DEF CargoPackage
    <3>4. CASE lock.format \in PythonFormats
      <4>1. PythonPackage(j) \in Rest
        BY <3>4 DEF Rest, PythonFormats, GroupedFormats, YarnFormats
      <4>. QED  BY <4>1 DEF PythonPackage
    <3>5. CASE lock.format \in YarnFormats
      <4>1. YarnPackage(j) \in Rest
        BY <3>5 DEF Rest, PythonFormats, GroupedFormats, YarnFormats
      <4>. QED  BY <4>1 DEF YarnPackage
    <3>6. CASE lock.format = "gradle"
      <4>1. GradlePackage(j) \in Rest
        BY <3>6 DEF Rest, PythonFormats, GroupedFormats, YarnFormats
      <4>. QED  BY <4>1 DEF GradlePackage
    <3>7. CASE lock.format \notin {"npm", "pnpm", "nuget", "cargo", "gradle"} \cup PythonFormats \cup YarnFormats
      <4>1. SecondaryPackage(j) \in Rest
        BY <3>7 DEF Rest
      <4>. QED  BY <4>1 DEF SecondaryPackage
    <3>. QED  BY <1>3, <3>1, <3>2, <3>3, <3>4, <3>5, <3>6, <3>7
  <2>. QED  BY <1>1, <2>1, <2>2
<1>. QED  BY <1>2, <1>3

LEMMA PublishRestInv ==
    ASSUME LockInv, PublishRest
    PROVE  LockInv'
<1>1. /\ adapting = "rest" /\ adapting' = "done" /\ lock' = lock /\ admitted' = admitted /\ links' = links
      /\ incomplete' = incomplete /\ walk' = walk /\ reached' = reached /\ owned' = owned
      /\ packages' = packages \cup Rest
  BY DEF PublishRest
<1>2. AdmissionInv' /\ LinksInv'
  BY <1>1, LinksStay DEF AfterLinks
<1>3. reached \subseteq {p.row : p \in Rest} /\ {p.row : p \in Rest} \subseteq admitted
  BY <1>1, RestRows DEF AfterLinks
<1>4. lock.format = "gradle" => \A p \in Rest : p.scopes = At(p.row).scopes
  BY DEF Rest, GradlePackage, Package, PythonFormats, GroupedFormats, YarnFormats
<1>5. {p.row : p \in packages'} = admitted
  <2>1. reached = admitted \ owned /\ owned = {p.row : p \in packages}
    BY <1>1 DEF LockInv, PackagesInv
  <2>2. {p.row : p \in packages} \subseteq admitted
    BY DEF LockInv, PackagesInv
  <2>. QED  BY <1>1, <1>3, <2>1, <2>2
<1>6. lock.format = "gradle" => \A p \in packages' : p.scopes = At(p.row).scopes
  BY <1>1, <1>4 DEF LockInv, PackagesInv
<1>7. PackagesInv'
  <2>1. \A p \in packages' : p.row \in admitted
    BY <1>5
  <2>. HIDE DEF Rest
  <2>. QED  BY <1>1, <1>5, <1>6, <2>1, LockUnchanged DEF LockInv, PackagesInv, AfterLinks
<1>. QED  BY <1>2, <1>7 DEF LockInv

LEMMA RefuseLockInv ==
    ASSUME LockInv, RefuseLock
    PROVE  LockInv'
<1>1. /\ adapting' = "refused" /\ lock' = lock /\ admitted' = {} /\ links' = {} /\ packages' = {}
      /\ walk' = {} /\ reached' = {} /\ owned' = {}
  BY DEF RefuseLock
<1>. QED  BY <1>1 DEF LockInv, AdmissionInv, LinksInv, PackagesInv, AfterRead, AfterLinks

LEMMA LockStutterInv ==
    ASSUME LockInv, UNCHANGED lockVars
    PROVE  LockInv'
<1>. USE DEF lockVars
<1>1. \A i : Admits(i)' <=> Admits(i)
  BY DEF Admits, NpmAdmits, YarnAdmits, At
<1>2. AdmissionInv'
  BY <1>1, LockUnchanged DEF LockInv, AdmissionInv
<1>3. LinksInv'
  BY LockUnchanged DEF LockInv, LinksInv
<1>4. PackagesInv'
  BY LockUnchanged DEF LockInv, PackagesInv
<1>. QED  BY <1>2, <1>3, <1>4 DEF LockInv

LEMMA LockInvHolds == LockSpec => []LockInv
<1>1. (\E l \in Locks : LockInit(l)) => LockInv
  BY LockInitInv
<1>2. LockInv /\ [LockNext]_lockVars => LockInv'
  BY ParseLockInv, LinkRowsInv, BeginImporterInv, FollowRowInv, EndImporterInv, BeginRestInv,
     PublishRestInv, RefuseLockInv, LockStutterInv DEF LockNext
<1>. QED  BY <1>1, <1>2, PTL DEF LockSpec

\* A link goes to the row of the lock that serves its reference, and a lock not marked
\* incomplete has a package for every row and a link for every reference
\* (compose_npm.py, compose_yarn.py, compose_pnpm.py, compose_cargo.py,
\* compose_locks.py, compose_nuget.py).
THEOREM LinksFollow == LockSpec => []LinksFollowTheLock
<1>1. LockInv => LinksFollowTheLock
  <2>. SUFFICES ASSUME LockInv PROVE LinksFollowTheLock
    OBVIOUS
  <2>1. \A l \in links : RightLink(l)
    BY DEF LockInv, LinksInv
  <2>2. ASSUME adapting = "done", ~incomplete, NEW i \in Rows, ~At(i).bare
        PROVE  /\ \E p \in packages : p.row = i
               /\ \A k \in DOMAIN RefsOf(i) : \E l \in links : l.from = i /\ l.ref = k
    <3>1. IsLock(lock) /\ admitted = AdmittedRows
      BY <2>2 DEF LockInv, AdmissionInv, AfterRead
    <3>2. Parse(lock).disposition = "parsed" /\ \A j \in Parse(lock).kept : Admits(j)
      BY <2>2 DEF LockInv, AdmissionInv, AfterRead
    <3>3. i \in admitted
      BY <2>2, <3>1, <3>2, ParsedIsWhole DEF AdmittedRows
    <3>4. {p.row : p \in packages} = admitted
      BY <2>2 DEF LockInv, PackagesInv
    <3>. QED  BY <2>2, <3>3, <3>4 DEF LockInv, LinksInv, AfterLinks
  <2>. QED  BY <2>1, <2>2 DEF LinksFollowTheLock, RightLink
<1>. QED  BY <1>1, LockInvHolds, PTL

\* Two versions of one module are never published side by side where the tool selects
\* one (gradle_locks.py, nuget_sources.py, python_locks.py, secondary_locks.py).
THEOREM OneVersion == LockSpec => []OneVersionSelected
<1>1. LockInv => OneVersionSelected
  <2>. SUFFICES ASSUME LockInv, NEW p \in packages, NEW q \in packages,
                       p.row # q.row, At(p.row).name = At(q.row).name
                PROVE  CASE lock.format = "gradle" -> p.scopes \cap q.scopes = {}
                         [] lock.format \in {"nuget", "pipfile"} -> At(p.row).group # At(q.row).group
                         [] lock.format \in {"composer", "bundler"} -> FALSE
                         [] OTHER -> TRUE
    BY DEF OneVersionSelected
  <2>1. IsLock(lock) /\ p.row \in AdmittedRows /\ q.row \in AdmittedRows
    BY DEF LockInv, AdmissionInv, PackagesInv
  <2>2. /\ p.row \in Rows /\ q.row \in Rows /\ ~Contradicts(lock)
        /\ Verdict(lock, p.row) # "left out" /\ Verdict(lock, q.row) # "left out"
    BY <2>1, AdmittedFacts
  <2>3. Named(lock, p.row, q.row)
    BY DEF Named, At
  <2>4. CASE lock.format = "gradle"
    <3>1. ~GradleContradicts(lock)
      BY <2>2, <2>4 DEF Contradicts
    <3>2. p.scopes = At(p.row).scopes /\ q.scopes = At(q.row).scopes
      BY <2>4 DEF LockInv, PackagesInv
    <3>. QED  BY <2>2, <2>3, <2>4, <3>1, <3>2 DEF GradleContradicts, At, Rows
  <2>5. CASE lock.format \in {"nuget", "pipfile", "composer", "bundler"}
    <3>1. ~NameTwice(lock)
      BY <2>2, <2>5, Zenon DEF Contradicts
    <3>2. "type" \notin {lock.rows[p.row].flaw, lock.rows[q.row].flaw}
      BY <2>1, <2>2, <2>5, ZenonT(60)
      DEF IsLock, FlawsOf, Verdict, NugetFlaws, PipfileFlaws, BundlerFlaws, ComposerFlaws, Effects,
          Rows, YarnFormats, PythonFormats, GroupedFormats
    <3>3. At(p.row).group # At(q.row).group
      BY <2>2, <2>3, <3>1, <3>2, Zenon DEF NameTwice, At, Rows
    <3>4. lock.format \in {"composer", "bundler"} => At(p.row).group = 0 /\ At(q.row).group = 0
      <4>1. \A i \in DOMAIN lock.rows : lock.rows[i].group # 0 => lock.format \in GroupedFormats \cup {"nuget"}
        BY <2>1 DEF IsLock
      <4>. QED  BY <2>2, <4>1 DEF GroupedFormats, At, Rows
    <3>. QED  BY <2>5, <3>3, <3>4
  <2>. QED  BY <2>4, <2>5
<1>. QED  BY <1>1, LockInvHolds, PTL

-----------------------------------------------------------------------------
(* The walks: what an importer's selections reach, and with which scopes.  *)

Chosen(c) == UNION {Selection(Importing(c)[k]) \X {Importing(c)[k].scope} : k \in DOMAIN Importing(c)}
Onward == [pair \in Rows \X Scopes |-> Handed(pair)]

\* What ScopesAreThePaths says of one importer.
ImporterDone(c) ==
    LET mine == {p \in packages : p.context = c}
    IN /\ {h[1] : h \in HandedOn(c)} = {p.row : p \in mine}
       /\ lock.format = "pnpm" => HandedOn(c) = UNION {{p.row} \X p.scopes : p \in mine}

\* Nothing is reached or spread but what the importer hands on.
WalkSound(c) ==
    /\ walk \subseteq reached
    /\ \A j \in reached : \E s \in Scopes : <<j, s>> \in HandedOn(c)
    /\ lock.format = "pnpm" =>
         /\ \A j \in Rows : \A s \in spread[j] : <<j, s>> \in HandedOn(c)
         /\ \A j \in reached : spread[j] # {}

\* Nothing is missing but what the rows still to be walked hand on.
WalkComplete(c) ==
    /\ \A pair \in Chosen(c) : pair[1] \in reached
    /\ \A i \in reached \ walk : LinkedFrom(i) \subseteq reached
    /\ lock.format = "pnpm" =>
         /\ \A pair \in Chosen(c) : pair[2] \in spread[pair[1]]
         /\ \A i \in reached \ walk : \A j \in Rows : Gained(i, j) \subseteq spread[j]

\* A file that was refused hands nothing on.
PathsInv ==
    /\ adapting \in {"import", "walk", "rest"} =>
         /\ importer \in 1..Len(lock.importers) + 1
         /\ \A p \in packages : p.context \in 1..importer - 1
         /\ \A c \in 1..importer - 1 : ImporterDone(c)
    /\ adapting = "walk" => \E c \in DOMAIN lock.importers : c = importer /\ WalkSound(c) /\ WalkComplete(c)
    /\ adapting = "rest" => importer \notin DOMAIN lock.importers
    /\ adapting = "done" => admitted = {} \/ \A c \in DOMAIN lock.importers : ImporterDone(c)

LEMMA HandedOnIs ==
    ASSUME NEW c
    PROVE  HandedOn(c) = Reached(Chosen(c), Onward)
BY DEF HandedOn, Chosen, Onward

\* What HandedOn comes to.
LEMMA HandedOnClosure ==
    ASSUME IsLock(lock), admitted \subseteq Rows, \A l \in links : l.to \in admitted,
           NEW c \in DOMAIN lock.importers
    PROVE  /\ Chosen(c) \subseteq HandedOn(c)
           /\ HandedOn(c) \subseteq Rows \X Scopes
           /\ \A pair \in HandedOn(c) : Handed(pair) \subseteq HandedOn(c)
           /\ \A Q : Q \subseteq Rows \X Scopes /\ Chosen(c) \subseteq Q /\ (\A pair \in Q : Handed(pair) \subseteq Q)
                       => HandedOn(c) \subseteq Q
<1>1. \A k \in DOMAIN Importing(c) : Importing(c)[k].scope \in Scopes
  <2>1. lock.importers[c] \in Seq(LockRef)
    BY DEF IsLock
  <2>2. \A k \in DOMAIN lock.importers[c] : lock.importers[c][k] \in LockRef
    BY <2>1
  <2>3. \A k \in DOMAIN Importing(c) : Importing(c)[k] \in LockRef
    BY <2>2 DEF Importing, Effective
  <2>. QED  BY <2>3 DEF LockRef, Scopes
<1>2. Chosen(c) \subseteq Rows \X Scopes
  BY <1>1, SelectionAdmitted DEF Chosen
<1>3. \A pair \in Rows \X Scopes : Handed(pair) \subseteq Rows \X Scopes
  BY DEF Handed, Scopes
<1>4. DOMAIN Onward = Rows \X Scopes /\ \A pair \in Rows \X Scopes : Onward[pair] = Handed(pair)
  BY DEF Onward
<1>5. IsFiniteSet(Rows \X Scopes)
  <2>1. IsFiniteSet(Rows)
    BY RowFacts
  <2>2. IsFiniteSet(Scopes)
    <3>1. IsFiniteSet({"runtime"})
      BY FS_Singleton
    <3>2. IsFiniteSet({"runtime"} \cup {"optional"})
      BY <3>1, FS_AddElement
    <3>3. IsFiniteSet({"runtime"} \cup {"optional"} \cup {"peer"})
      BY <3>2, FS_AddElement
    <3>4. Scopes = {"runtime"} \cup {"optional"} \cup {"peer"}
      BY DEF Scopes
    <3>. QED  BY <3>3, <3>4
  <2>. QED  BY <2>1, <2>2, FS_Product
<1>6. \A x \in DOMAIN Onward : Onward[x] \subseteq DOMAIN Onward
  BY <1>3, <1>4
<1>7. /\ Chosen(c) \subseteq Reached(Chosen(c), Onward)
      /\ Reached(Chosen(c), Onward) \subseteq DOMAIN Onward
      /\ \A x \in Reached(Chosen(c), Onward) : Onward[x] \subseteq Reached(Chosen(c), Onward)
      /\ \A Q : Chosen(c) \subseteq Q /\ (\A x \in Q \cap DOMAIN Onward : Onward[x] \subseteq Q)
                  => Reached(Chosen(c), Onward) \subseteq Q
  <2>1. IsFiniteSet(DOMAIN Onward) /\ Chosen(c) \subseteq DOMAIN Onward
    BY <1>2, <1>4, <1>5
  <2>. QED  BY <1>6, <2>1, ReachedClosure
<1>. QED  BY <1>3, <1>4, <1>7, HandedOnIs

\* Nothing that is handed on changes while the rows and the links stay.
LEMMA HandedOnStays ==
    ASSUME lock' = lock, admitted' = admitted, links' = links
    PROVE  /\ \A c : HandedOn(c)' = HandedOn(c) /\ Chosen(c)' = Chosen(c)
           /\ \A i : LinkedFrom(i)' = LinkedFrom(i)
<1>1. Rows' = Rows /\ Scopes' = Scopes /\ \A i : At(i)' = At(i) /\ RefsOf(i)' = RefsOf(i)
  BY LockUnchanged DEF Scopes
<1>2. \A c : Importing(c)' = Importing(c)
  BY DEF Importing
<1>3. \A dir, ref : NpmEndpoint(dir, ref)' = NpmEndpoint(dir, ref)
  <2>. TAKE dir, ref
  <2>. DEFINE entry(k) == {j \in Rows : At(j).above = SubSeq(dir, 1, k) /\ At(j).name = ref.name}
              levels == {k \in 0..Len(dir) : entry(k) # {}}
  <2>1. \A k : entry(k)' = entry(k)
    BY <1>1
  <2>2. levels' = levels
    BY <2>1
  <2>3. NpmEndpoint(dir, ref) = IF levels = {} THEN {} ELSE entry(Max(levels))
    BY DEF NpmEndpoint
  <2>4. NpmEndpoint(dir, ref)' =
          IF levels' = {} THEN {}
          ELSE {j \in Rows' : At(j)'.above = SubSeq(dir, 1, Max(levels')) /\ At(j)'.name = ref.name}
    BY DEF NpmEndpoint
  <2>5. entry(Max(levels)) = {j \in Rows' : At(j)'.above = SubSeq(dir, 1, Max(levels)) /\ At(j)'.name = ref.name}
    BY <1>1
  <2>. HIDE DEF entry, levels
  <2>. QED  BY <2>2, <2>3, <2>4, <2>5
<1>4. \A found : Sole(found)' = Sole(found)
  BY DEF Sole
<1>5. \A dir, ref : NpmLink(dir, ref)' = NpmLink(dir, ref)
  BY <1>1, <1>3, <1>4 DEF NpmLink, InRange
<1>6. \A ref : PnpmLink(ref)' = PnpmLink(ref)
  BY <1>1 DEF PnpmLink
<1>7. \A ref : Selection(ref)' = Selection(ref)
  BY <1>1, <1>5, <1>6 DEF Selection, NpmSelection, PnpmSelection, InRange
<1>8. \A c : Chosen(c)' = Chosen(c)
  BY <1>2, <1>7 DEF Chosen
<1>9. \A pair : Handed(pair)' = Handed(pair)
  BY <1>1 DEF Handed
<1>10. Onward' = Onward
  BY <1>1, <1>9 DEF Onward
<1>11. \A c : HandedOn(c)' = HandedOn(c)
  <2>. TAKE c
  <2>1. HandedOn(c)' = Reached(Chosen(c)', Onward')
    BY DEF HandedOn, Chosen, Onward
  <2>. QED  BY <1>8, <1>10, <2>1, HandedOnIs
<1>12. \A i : LinkedFrom(i)' = LinkedFrom(i)
  BY DEF LinkedFrom
<1>. QED  BY <1>8, <1>11, <1>12

LEMMA ImporterDoneStays ==
    ASSUME lock' = lock, admitted' = admitted, links' = links,
           NEW c, {p \in packages' : p.context = c} = {p \in packages : p.context = c}, ImporterDone(c)
    PROVE  ImporterDone(c)'
<1>1. HandedOn(c)' = HandedOn(c)
  BY HandedOnStays
<1>. QED  BY <1>1 DEF ImporterDone

\* What LockInv says of the links and the rows.
LEMMA WalkFacts ==
    ASSUME LockInv
    PROVE  /\ IsLock(lock) /\ admitted \subseteq Rows
           /\ \A l \in links : l.from \in admitted /\ l.to \in admitted
           /\ lock.importers \in Seq(Seq(LockRef))
<1>1. admitted \subseteq Rows
  <2>1. admitted = AdmittedRows \/ admitted = {}
    BY DEF LockInv, AdmissionInv
  <2>. QED  BY <2>1, AdmittedFacts
<1>2. IsLock(lock) /\ \A l \in links : l.from \in admitted /\ l.to \in admitted
  BY DEF LockInv, AdmissionInv, LinksInv
<1>. QED  BY <1>1, <1>2 DEF IsLock

LEMMA LinkRowsPaths ==
    ASSUME LockInv, LinkRows
    PROVE  PathsInv'
<1>1. adapting' = "import" /\ lock' = lock /\ importer' = 1 /\ packages' = packages /\ adapting = "link"
  BY DEF LinkRows
<1>2. packages = {}
  BY <1>1 DEF LockInv, PackagesInv, AfterLinks
<1>3. Len(lock.importers) \in Nat
  BY WalkFacts
<1>. QED  BY <1>1, <1>2, <1>3 DEF PathsInv

LEMMA BeginImporterPaths ==
    ASSUME LockInv, PathsInv, BeginImporter
    PROVE  PathsInv'
<1>1. /\ adapting = "import" /\ adapting' = "walk" /\ lock' = lock /\ admitted' = admitted /\ links' = links
      /\ packages' = packages /\ importer' = importer /\ importer \in DOMAIN lock.importers
      /\ walk' = Direct(importer) /\ reached' = Direct(importer)
      /\ spread' = [j \in Rows |->
           IF lock.format = "pnpm"
           THEN {Importing(importer)[k].scope : k \in {n \in DOMAIN Importing(importer) :
                                                        j \in Selection(Importing(importer)[n])}}
           ELSE {}]
  BY DEF BeginImporter
<1>2. PICK c \in DOMAIN lock.importers : c = importer
  BY <1>1
<1>3. Chosen(c) \subseteq HandedOn(c) /\ HandedOn(c) \subseteq Rows \X Scopes
  BY WalkFacts, HandedOnClosure
<1>4. HandedOn(c)' = HandedOn(c) /\ Chosen(c)' = Chosen(c) /\ Rows' = Rows /\ Scopes' = Scopes
  BY <1>1, HandedOnStays, LockUnchanged DEF Scopes
<1>5. \A j, s : <<j, s>> \in Chosen(c) <=>
        \E k \in DOMAIN Importing(c) : j \in Selection(Importing(c)[k]) /\ s = Importing(c)[k].scope
  BY DEF Chosen
<1>6. \A pair \in Chosen(c) : pair = <<pair[1], pair[2]>> /\ pair[1] \in Rows
  BY <1>3
<1>7. \A j : j \in reached' <=> \E s : <<j, s>> \in Chosen(c)
  <2>1. \A j : j \in Direct(c) <=> \E k \in DOMAIN Importing(c) : j \in Selection(Importing(c)[k])
    BY DEF Direct
  <2>2. reached' = Direct(c)
    BY <1>1, <1>2
  <2>3. ASSUME NEW j, j \in Direct(c) PROVE \E s : <<j, s>> \in Chosen(c)
    <3>1. PICK k \in DOMAIN Importing(c) : j \in Selection(Importing(c)[k])
      BY <2>1, <2>3
    <3>2. <<j, Importing(c)[k].scope>> \in Chosen(c)
      BY <1>5, <3>1
    <3>. QED  BY <3>2
  <2>4. ASSUME NEW j, NEW s, <<j, s>> \in Chosen(c) PROVE j \in Direct(c)
    BY <1>5, <2>1, <2>4
  <2>. QED  BY <2>2, <2>3, <2>4
<1>8. \A j \in Rows : lock.format = "pnpm" => \A s : s \in spread'[j] <=> <<j, s>> \in Chosen(c)
  BY <1>1, <1>2, <1>5
<1>9. WalkSound(c)'
  <2>1. \A j \in reached' : \E s \in Scopes : <<j, s>> \in HandedOn(c)
    BY <1>3, <1>7
  <2>2. lock.format = "pnpm" => /\ \A j \in Rows : \A s \in spread'[j] : <<j, s>> \in HandedOn(c)
                                /\ \A j \in reached' : spread'[j] # {}
    <3>1. ASSUME NEW j \in reached' PROVE j \in Rows /\ \E s : <<j, s>> \in Chosen(c)
      <4>1. PICK s : <<j, s>> \in Chosen(c)
        BY <1>7
      <4>2. <<j, s>> \in Rows \X Scopes
        BY <1>3, <4>1
      <4>. QED  BY <4>1, <4>2
    <3>2. ASSUME lock.format = "pnpm", NEW j \in Rows, NEW s \in spread'[j] PROVE <<j, s>> \in HandedOn(c)
      BY <1>3, <1>8, <3>2
    <3>3. ASSUME lock.format = "pnpm", NEW j \in reached' PROVE spread'[j] # {}
      <4>1. PICK s : <<j, s>> \in Chosen(c)
        BY <3>1
      <4>2. s \in spread'[j]
        BY <1>8, <3>1, <3>3, <4>1
      <4>. QED  BY <4>2
    <3>. QED  BY <3>2, <3>3
  <2>. QED  BY <1>1, <1>4, <2>1, <2>2 DEF WalkSound
<1>10. WalkComplete(c)'
  <2>1. \A pair \in Chosen(c) : pair[1] \in reached'
    <3>. TAKE pair \in Chosen(c)
    <3>. PICK j, s : j = pair[1] /\ s = pair[2]
      OBVIOUS
    <3>1. <<j, s>> \in Chosen(c)
      BY <1>6
    <3>. QED  BY <1>7, <3>1
  <2>2. lock.format = "pnpm" => \A pair \in Chosen(c) : pair[2] \in spread'[pair[1]]
    BY <1>6, <1>8
  <2>. QED  BY <1>1, <1>4, <2>1, <2>2 DEF WalkComplete
<1>11. \A d \in 1..importer - 1 : ImporterDone(d)'
  BY <1>1, ImporterDoneStays DEF PathsInv
<1>. QED  BY <1>1, <1>2, <1>9, <1>10, <1>11 DEF PathsInv

LEMMA GainedFrom ==
    ASSUME NEW i, NEW j
    PROVE  /\ \A s : s \in Gained(i, j) <=>
                \E l \in links : l.from = i /\ l.to = j /\ s \in Passed(i, RefsOf(i)[l.ref])
           /\ j \in LinkedFrom(i) <=> \E l \in links : l.from = i /\ l.to = j
BY DEF Gained, LinkedFrom

LEMMA FollowRowPaths ==
    ASSUME LockInv, PathsInv, NEW i \in walk, FollowRow(i)
    PROVE  PathsInv'
<1>1. /\ adapting = "walk" /\ adapting' = "walk" /\ lock' = lock /\ admitted' = admitted /\ links' = links
      /\ packages' = packages /\ importer' = importer
      /\ walk' = (walk \ {i}) \cup {j \in LinkedFrom(i) : j \notin reached \/ ~(Gained(i, j) \subseteq spread[j])}
      /\ reached' = reached \cup LinkedFrom(i)
      /\ spread' = [j \in Rows |-> spread[j] \cup Gained(i, j)]
  BY DEF FollowRow
<1>2. PICK c \in DOMAIN lock.importers : c = importer /\ WalkSound(c) /\ WalkComplete(c)
  BY <1>1 DEF PathsInv
<1>3. \A pair \in HandedOn(c) : Handed(pair) \subseteq HandedOn(c)
  BY WalkFacts, HandedOnClosure
<1>4. /\ HandedOn(c)' = HandedOn(c) /\ Chosen(c)' = Chosen(c) /\ Rows' = Rows /\ Scopes' = Scopes
      /\ \A k : LinkedFrom(k)' = LinkedFrom(k)
  BY <1>1, HandedOnStays, LockUnchanged DEF Scopes
<1>5. i \in reached
  BY <1>2 DEF WalkSound
<1>6. \A l \in links, s \in Scopes : l.from = i =>
        <<l.to, IF RefsOf(i)[l.ref].scope = "optional" THEN "optional" ELSE s>> \in Handed(<<i, s>>)
  BY DEF Handed
<1>7. \A j \in Rows : spread'[j] = spread[j] \cup Gained(i, j)
  BY <1>1
<1>8. LinkedFrom(i) \subseteq Rows /\ reached \subseteq Rows
  BY WalkFacts DEF LinkedFrom, LockInv, PackagesInv
<1>9. WalkSound(c)'
  <2>1. walk' \subseteq reached'
    BY <1>1, <1>2 DEF WalkSound
  <2>2. ASSUME NEW j \in reached' PROVE \E s \in Scopes : <<j, s>> \in HandedOn(c)
    <3>1. CASE j \in reached
      BY <1>2, <3>1 DEF WalkSound
    <3>2. CASE j \in LinkedFrom(i)
      <4>1. PICK l \in links : l.from = i /\ l.to = j
        BY <3>2, GainedFrom
      <4>2. PICK s \in Scopes : <<i, s>> \in HandedOn(c)
        BY <1>2, <1>5 DEF WalkSound
      <4>3. <<j, IF RefsOf(i)[l.ref].scope = "optional" THEN "optional" ELSE s>> \in HandedOn(c)
        BY <1>3, <1>6, <4>1, <4>2
      <4>. QED  BY <4>2, <4>3 DEF Scopes
    <3>. QED  BY <1>1, <3>1, <3>2
  <2>3. ASSUME lock.format = "pnpm", NEW j \in Rows, NEW s \in spread'[j] PROVE <<j, s>> \in HandedOn(c)
    <3>1. CASE s \in spread[j]
      BY <1>2, <2>3, <3>1 DEF WalkSound
    <3>2. CASE s \in Gained(i, j)
      <4>1. PICK l \in links : l.from = i /\ l.to = j /\ s \in Passed(i, RefsOf(i)[l.ref])
        BY <3>2, GainedFrom
      <4>2. \A t \in spread[i] : <<i, t>> \in HandedOn(c) /\ t \in Scopes
        <5>1. i \in Rows
          BY <1>5, <1>8
        <5>2. HandedOn(c) \subseteq Rows \X Scopes
          BY WalkFacts, HandedOnClosure
        <5>. QED  BY <1>2, <2>3, <5>1, <5>2 DEF WalkSound
      <4>3. PICK t \in spread[i] : s = IF RefsOf(i)[l.ref].scope = "optional" THEN "optional" ELSE t
        <5>1. spread[i] # {}
          BY <1>2, <1>5, <2>3 DEF WalkSound
        <5>2. CASE RefsOf(i)[l.ref].scope = "optional"
          BY <2>3, <4>1, <5>1, <5>2 DEF Passed
        <5>3. CASE RefsOf(i)[l.ref].scope # "optional"
          BY <4>1, <5>3 DEF Passed
        <5>. QED  BY <5>2, <5>3
      <4>. QED  BY <1>3, <1>6, <4>1, <4>2, <4>3
    <3>. QED  BY <1>7, <2>3, <3>1, <3>2
  <2>4. ASSUME lock.format = "pnpm", NEW j \in reached' PROVE spread'[j] # {}
    <3>1. j \in Rows
      BY <1>1, <1>8
    <3>2. CASE j \in reached
      BY <1>2, <1>7, <2>4, <3>1, <3>2 DEF WalkSound
    <3>3. CASE j \in LinkedFrom(i)
      <4>1. PICK l \in links : l.from = i /\ l.to = j
        BY <3>3, GainedFrom
      <4>2. spread[i] # {}
        BY <1>2, <1>5, <2>4 DEF WalkSound
      <4>3. PICK s : s \in Passed(i, RefsOf(i)[l.ref])
        BY <4>2 DEF Passed
      <4>4. s \in Gained(i, j)
        BY <4>1, <4>3, GainedFrom
      <4>. QED  BY <1>7, <3>1, <4>4
    <3>. QED  BY <1>1, <3>2, <3>3
  <2>. QED  BY <1>1, <1>4, <2>1, <2>2, <2>3, <2>4 DEF WalkSound
<1>10. ASSUME NEW k \in reached' \ walk'
       PROVE  /\ spread'[k] = spread[k] /\ k \in reached
              /\ k = i \/ k \in reached \ walk
  <2>1. k \in Rows /\ (k \in LinkedFrom(i) => k \in reached /\ Gained(i, k) \subseteq spread[k])
    BY <1>1, <1>8
  <2>2. k \notin LinkedFrom(i) => Gained(i, k) = {}
    BY GainedFrom
  <2>. QED  BY <1>1, <1>7, <2>1, <2>2
<1>11. WalkComplete(c)'
  <2>1. \A pair \in Chosen(c) : pair[1] \in reached'
    BY <1>1, <1>2 DEF WalkComplete
  <2>2. ASSUME NEW k \in reached' \ walk' PROVE LinkedFrom(k) \subseteq reached'
    <3>1. CASE k = i
      BY <1>1, <3>1
    <3>2. CASE k \in reached \ walk
      BY <1>1, <1>2, <3>2 DEF WalkComplete
    <3>. QED  BY <1>10, <3>1, <3>2
  <2>3. ASSUME lock.format = "pnpm", NEW pair \in Chosen(c) PROVE pair[2] \in spread'[pair[1]]
    <3>1. pair[1] \in Rows /\ pair[2] \in spread[pair[1]]
      BY <1>2, <1>8, <2>3 DEF WalkComplete
    <3>. QED  BY <1>7, <3>1
  <2>4. ASSUME lock.format = "pnpm", NEW k \in reached' \ walk', NEW j \in Rows
        PROVE  Gained(k, j)' \subseteq spread'[j]
    <3>1. \A ref : Passed(k, ref)' = Passed(k, ref)
      BY <1>1, <1>10 DEF Passed
    <3>2. Gained(k, j)' = Gained(k, j)
      BY <1>1, <3>1, LockUnchanged DEF Gained
    <3>3. Gained(k, j) \subseteq spread'[j]
      <4>1. CASE k = i
        BY <1>7, <4>1
      <4>2. CASE k \in reached \ walk
        BY <1>2, <1>7, <2>4, <4>2 DEF WalkComplete
      <4>. QED  BY <1>10, <4>1, <4>2
    <3>. QED  BY <3>2, <3>3
  <2>. QED  BY <1>1, <1>4, <2>1, <2>2, <2>3, <2>4 DEF WalkComplete
<1>12. \A d \in 1..importer - 1 : ImporterDone(d)'
  BY <1>1, ImporterDoneStays DEF PathsInv
<1>. QED  BY <1>1, <1>2, <1>9, <1>11, <1>12 DEF PathsInv

\* When no row is left to be walked, what is reached is what is handed on.
LEMMA WalkedIsHandedOn ==
    ASSUME LockInv, walk = {}, NEW c \in DOMAIN lock.importers, WalkSound(c), WalkComplete(c)
    PROVE  /\ {h[1] : h \in HandedOn(c)} = reached
           /\ lock.format = "pnpm" => HandedOn(c) = UNION {{j} \X spread[j] : j \in reached}
<1>. DEFINE H == HandedOn(c)
            Q == {pair \in Rows \X Scopes : /\ pair[1] \in reached
                                            /\ lock.format = "pnpm" => pair[2] \in spread[pair[1]]}
<1>1. /\ Chosen(c) \subseteq H /\ H \subseteq Rows \X Scopes
      /\ \A S : S \subseteq Rows \X Scopes /\ Chosen(c) \subseteq S /\ (\A pair \in S : Handed(pair) \subseteq S)
                  => H \subseteq S
  BY WalkFacts, HandedOnClosure
<1>2. Chosen(c) \subseteq Q
  BY <1>1 DEF WalkComplete
<1>3. ASSUME NEW pair \in Q, NEW h \in Handed(pair) PROVE h \in Q
  <2>1. PICK l \in links : /\ l.from = pair[1]
                           /\ h = <<l.to, IF RefsOf(l.from)[l.ref].scope = "optional" THEN "optional" ELSE pair[2]>>
    BY <1>3 DEF Handed
  <2>2. l.to \in reached /\ l.to \in Rows
    <3>1. l.to \in LinkedFrom(pair[1])
      BY <2>1 DEF LinkedFrom
    <3>. QED  BY <3>1, WalkFacts DEF WalkComplete
  <2>3. h \in Rows \X Scopes /\ h[1] = l.to
    BY <2>1, <2>2 DEF Scopes
  <2>4. ASSUME lock.format = "pnpm" PROVE h[2] \in spread[l.to]
    <3>1. h[2] \in Passed(pair[1], RefsOf(pair[1])[l.ref])
      BY <2>1, <2>4 DEF Passed
    <3>2. h[2] \in Gained(pair[1], l.to)
      BY <2>1, <3>1, GainedFrom
    <3>3. Gained(pair[1], l.to) \subseteq spread[l.to]
      BY <2>2, <2>4 DEF WalkComplete
    <3>. QED  BY <3>2, <3>3
  <2>. QED  BY <2>2, <2>3, <2>4
<1>. HIDE DEF H
<1>4. H \subseteq Q
  <2>1. Q \subseteq Rows \X Scopes /\ \A pair \in Q : Handed(pair) \subseteq Q
    BY <1>3
  <2>. HIDE DEF Q
  <2>. QED  BY <1>1, <1>2, <2>1
<1>5. {h[1] : h \in H} = reached
  <2>1. \A h \in H : h[1] \in reached
    BY <1>4
  <2>2. ASSUME NEW j \in reached PROVE \E h \in H : h[1] = j
    <3>1. PICK s \in Scopes : <<j, s>> \in H
      BY DEF WalkSound, H
    <3>. QED  BY <3>1
  <2>. QED  BY <2>1, <2>2
<1>6. ASSUME lock.format = "pnpm" PROVE H = UNION {{j} \X spread[j] : j \in reached}
  <2>1. ASSUME NEW h \in H PROVE h \in UNION {{j} \X spread[j] : j \in reached}
    <3>1. h = <<h[1], h[2]>> /\ h[1] \in reached /\ h[2] \in spread[h[1]]
      BY <1>4, <1>6
    <3>2. h \in {h[1]} \X spread[h[1]]
      BY <3>1
    <3>. QED  BY <3>1, <3>2
  <2>2. ASSUME NEW j \in reached, NEW s \in spread[j] PROVE <<j, s>> \in H
    <3>1. j \in Rows
      BY WalkFacts DEF LockInv, PackagesInv
    <3>. QED  BY <1>6, <3>1 DEF WalkSound, H
  <2>. QED  BY <2>1, <2>2
<1>. QED  BY <1>5, <1>6 DEF H

LEMMA EndImporterPaths ==
    ASSUME LockInv, PathsInv, EndImporter
    PROVE  PathsInv'
<1>. DEFINE pkg(j) == IF lock.format = "npm" THEN NpmPackage(importer, j) ELSE PnpmPackage(importer, j)
<1>1. /\ adapting = "walk" /\ adapting' = "import" /\ lock' = lock /\ admitted' = admitted /\ links' = links
      /\ walk = {} /\ importer' = importer + 1
      /\ packages' = packages \cup {pkg(j) : j \in reached}
  BY DEF EndImporter
<1>2. PICK c \in DOMAIN lock.importers : c = importer /\ WalkSound(c) /\ WalkComplete(c)
  BY <1>1 DEF PathsInv
<1>3. /\ {h[1] : h \in HandedOn(c)} = reached
      /\ lock.format = "pnpm" => HandedOn(c) = UNION {{j} \X spread[j] : j \in reached}
  BY <1>1, <1>2, WalkedIsHandedOn
<1>4. \A j : /\ pkg(j).row = j /\ pkg(j).context = c
             /\ lock.format = "pnpm" => pkg(j).scopes = spread[j]
  BY <1>2 DEF NpmPackage, PnpmPackage, Package
<1>5. Len(lock.importers) \in Nat /\ c \in 1..Len(lock.importers)
  BY WalkFacts
<1>6. /\ \A p \in packages : p.context \in 1..c - 1
      /\ \A d \in 1..c - 1 : ImporterDone(d)
  BY <1>1, <1>2 DEF PathsInv
<1>. HIDE DEF pkg
<1>7. {p \in packages' : p.context = c} = {pkg(j) : j \in reached}
  BY <1>1, <1>4, <1>5, <1>6
<1>8. ImporterDone(c)'
  <2>. DEFINE mine == {pkg(j) : j \in reached}
  <2>1. HandedOn(c)' = HandedOn(c)
    BY <1>1, HandedOnStays
  <2>2. {p.row : p \in mine} = reached
    BY <1>4
  <2>3. UNION {{p.row} \X p.scopes : p \in mine} = UNION {{j} \X pkg(j).scopes : j \in reached}
    BY <1>4
  <2>4. lock.format = "pnpm" => UNION {{p.row} \X p.scopes : p \in mine} = UNION {{j} \X spread[j] : j \in reached}
    BY <1>4, <2>3
  <2>. HIDE DEF mine
  <2>5. {p \in packages' : p.context = c} = mine
    BY <1>7 DEF mine
  <2>. QED  BY <1>1, <1>3, <2>1, <2>2, <2>4, <2>5 DEF ImporterDone
<1>9. ASSUME NEW d \in 1..c - 1 PROVE ImporterDone(d)'
  <2>1. {p \in packages' : p.context = d} = {p \in packages : p.context = d}
    BY <1>1, <1>4, <1>5
  <2>. QED  BY <1>1, <1>6, <2>1, ImporterDoneStays
<1>10. \A p \in packages' : p.context \in 1..c
  BY <1>1, <1>4, <1>5, <1>6
<1>11. importer' \in 1..Len(lock.importers) + 1 /\ importer' - 1 = c
  BY <1>1, <1>2, <1>5
<1>12. \A d \in 1..c : d = c \/ d \in 1..c - 1
  BY <1>5
<1>. QED  BY <1>1, <1>8, <1>9, <1>10, <1>11, <1>12 DEF PathsInv

LEMMA BeginRestPaths ==
    ASSUME LockInv, PathsInv, BeginRest
    PROVE  PathsInv'
<1>1. /\ adapting = "import" /\ adapting' = "rest" /\ lock' = lock /\ admitted' = admitted /\ links' = links
      /\ packages' = packages /\ importer' = importer /\ importer \notin DOMAIN lock.importers
  BY DEF BeginRest
<1>2. \A d \in 1..importer - 1 : ImporterDone(d)'
  BY <1>1, ImporterDoneStays DEF PathsInv
<1>. QED  BY <1>1, <1>2 DEF PathsInv

LEMMA PublishRestPaths ==
    ASSUME LockInv, PathsInv, PublishRest
    PROVE  PathsInv'
<1>1. /\ adapting = "rest" /\ adapting' = "done" /\ lock' = lock /\ admitted' = admitted /\ links' = links
      /\ packages' = packages \cup Rest
  BY DEF PublishRest
<1>2. Len(lock.importers) \in Nat /\ DOMAIN lock.importers = 1..Len(lock.importers)
  BY WalkFacts
<1>3. DOMAIN lock.importers = 1..importer - 1
  BY <1>1, <1>2 DEF PathsInv
<1>4. ASSUME NEW c \in DOMAIN lock.importers PROVE ImporterDone(c)'
  <2>1. lock.format \in {"npm", "pnpm"}
    <3>1. lock.importers # <<>>
      BY <1>2
    <3>. QED  BY <3>1, WalkFacts DEF IsLock
  <2>2. \A p \in Rest : p.context = 0
    <3>1. CASE lock.format = "npm"
      <4>1. Rest = {Package(0, j, "unknown", At(j).scopes) : j \in reached}
        BY <3>1 DEF Rest, PythonFormats, GroupedFormats, YarnFormats
      <4>. QED  BY <4>1 DEF Package
    <3>2. CASE lock.format = "pnpm"
      <4>. DEFINE all == Reached(reached, [i \in Rows |-> LinkedFrom(i)])
      <4>1. Rest = {Package(0, j, "unknown", {}) : j \in all}
        BY <3>2 DEF Rest, PnpmRest, PythonFormats, GroupedFormats, YarnFormats
      <4>. HIDE DEF all
      <4>. QED  BY <4>1 DEF Package
    <3>. QED  BY <2>1, <3>1, <3>2
  <2>3. {p \in packages' : p.context = c} = {p \in packages : p.context = c}
    BY <1>1, <1>2, <2>2
  <2>4. ImporterDone(c)
    BY <1>1, <1>3 DEF PathsInv
  <2>. QED  BY <1>1, <2>3, <2>4, ImporterDoneStays
<1>. QED  BY <1>1, <1>4 DEF PathsInv

LEMMA LockStutterPaths ==
    ASSUME LockInv, PathsInv, UNCHANGED lockVars
    PROVE  PathsInv'
<1>. USE DEF lockVars
<1>1. \A c : ImporterDone(c) => ImporterDone(c)'
  BY ImporterDoneStays
<1>2. \A c : HandedOn(c)' = HandedOn(c) /\ Chosen(c)' = Chosen(c)
  BY HandedOnStays
<1>3. Rows' = Rows /\ Scopes' = Scopes /\ \A i : RefsOf(i)' = RefsOf(i) /\ LinkedFrom(i)' = LinkedFrom(i)
  BY HandedOnStays, LockUnchanged DEF Scopes
<1>4. \A i, j : Gained(i, j)' = Gained(i, j)
  <2>1. \A i, ref : Passed(i, ref)' = Passed(i, ref)
    BY DEF Passed
  <2>. QED  BY <1>3, <2>1 DEF Gained
<1>5. \A c : (WalkSound(c) => WalkSound(c)') /\ (WalkComplete(c) => WalkComplete(c)')
  BY <1>2, <1>3, <1>4 DEF WalkSound, WalkComplete
<1>. QED  BY <1>1, <1>5 DEF PathsInv

LEMMA ParseLockPaths ==
    ASSUME LockInv, ParseLock
    PROVE  PathsInv'
<1>1. lock' = lock /\ adapting' \in {"done", "link"}
  BY DEF ParseLock
<1>2. adapting' = "done" => admitted' = {}
  <2>. SUFFICES ASSUME adapting' = "done", NEW i \in admitted' PROVE FALSE
    OBVIOUS
  <2>1. Parse(lock).disposition = "refused" /\ i \in AdmittedRows
    BY DEF ParseLock, AdmittedRows
  <2>. QED  BY <2>1, AdmittedFacts
<1>. QED  BY <1>1, <1>2 DEF PathsInv

LEMMA PathsInvHolds == LockSpec => []PathsInv
<1>1. (\E l \in Locks : LockInit(l)) => PathsInv
  BY DEF LockInit, PathsInv
<1>2. LockInv /\ PathsInv /\ [LockNext]_lockVars => PathsInv'
  <2>1. LockInv /\ PathsInv /\ RefuseLock => PathsInv'
    BY DEF RefuseLock, PathsInv
  <2>. QED  BY <2>1, ParseLockPaths, LinkRowsPaths, BeginImporterPaths, FollowRowPaths, EndImporterPaths,
               BeginRestPaths, PublishRestPaths, LockStutterPaths DEF LockNext
<1>. QED  BY <1>1, <1>2, LockInvHolds, PTL DEF LockSpec

\* The packages of an importer are those its selections reach along links, each with
\* the scopes of the paths that reach it, whatever the order of the walk; every
\* admitted row ends up in some context (compose_pnpm.py, compose_npm.py).
THEOREM ScopesArePaths == LockSpec => []ScopesAreThePaths
<1>1. LockInv /\ PathsInv => ScopesAreThePaths
  <2>. SUFFICES ASSUME LockInv, PathsInv, adapting = "done"
                PROVE  /\ \A c \in DOMAIN lock.importers : ImporterDone(c)
                       /\ {p.row : p \in packages} = admitted
    BY DEF ScopesAreThePaths, ImporterDone
  <2>1. {p.row : p \in packages} = admitted
    BY DEF LockInv, PackagesInv
  <2>2. ASSUME NEW c \in DOMAIN lock.importers, admitted = {} PROVE ImporterDone(c)
    <3>1. links = {} /\ packages = {}
      BY <2>1, <2>2, WalkFacts
    <3>2. Chosen(c) = {}
      BY <2>2, SelectionAdmitted DEF Chosen
    <3>3. \A pair : Handed(pair) = {}
      BY <3>1 DEF Handed
    <3>4. \A Q : Q \subseteq Rows \X Scopes /\ Chosen(c) \subseteq Q /\ (\A pair \in Q : Handed(pair) \subseteq Q)
                   => HandedOn(c) \subseteq Q
      BY WalkFacts, HandedOnClosure
    <3>5. HandedOn(c) = {}
      BY <3>2, <3>4
    <3>. QED  BY <3>1, <3>5 DEF ImporterDone
  <2>. QED  BY <2>1, <2>2 DEF PathsInv
<1>. QED  BY <1>1, LockInvHolds, PathsInvHolds, PTL

-----------------------------------------------------------------------------
(* One manifest: the walk over setup.py, and the versions selected.        *)

\* What the names of the walk are bound to, as an interpreter has it.
NamesOf(lists, imports) ==
    {<<b[1], <<"list", b[2]>>>> : b \in lists} \cup {<<a[1], <<a[2], 0>>>> : a \in imports}

WalkNames == NamesOf(literals, aliases)

OneEach(names) == \A x, y \in names : x[1] = y[1] => x = y

\* The walk and an interpreter are in the same place.
InStep(state) ==
    state = [names |-> WalkNames, calls |-> [k \in 1..Len(setups) |-> <<"list", setups[k]>>], runs |-> TRUE]

ScriptInv ==
    /\ manifest \in Manifests
    /\ reading \in {"parse", "walk", "select", "publish", "done", "refused"}
    /\ reading = "parse" => statement = 1 /\ literals = {} /\ aliases = {} /\ setups = <<>>
    /\ reading = "walk" =>
         /\ statement \in 1..Len(manifest.script) + 1
         /\ literals \subseteq STRING \X (Nat \ {0})
         /\ OneEach(literals) /\ OneEach(aliases)
         /\ \A b \in literals, a \in aliases : b[1] # a[1]
         /\ setups \in Seq(Nat)
         /\ InStep(Executed(manifest.script)[statement - 1])
    /\ manifest.format = "setup.py" /\ reading \in {"select", "publish", "done"} =>
         /\ Interpreted(manifest.script).runs
         /\ Interpreted(manifest.script).calls = <<<<"list", setups[1]>>>>

\* No two lines of one key may apply together, unless in the very same cases.
NoOverlap == \A a, b \in declared : ~Overlaps(a, b)

SelectionInv ==
    /\ reading \in {"parse", "walk", "select", "publish", "refused"} => published = {}
    /\ reading = "publish" => failure \/ NoOverlap
    /\ reading = "done" => ManifestPinsAgree

\* f is what Executed's equation asks for, up to statement n.
Executes(f, script, n) ==
    f = [k \in 0..n |-> IF k = 0 THEN [names |-> {}, calls |-> <<>>, runs |-> TRUE]
                        ELSE Execute(f[k - 1], script[k])]

LEMMA ExecutesExists ==
    ASSUME NEW script
    PROVE  \A n \in Nat : \E f : Executes(f, script, n)
<1>. DEFINE start == [names |-> {}, calls |-> <<>>, runs |-> TRUE]
            S == {n \in Nat : \E f : Executes(f, script, n)}
<1>1. 0 \in S
  <2>. DEFINE f == [k \in 0..0 |-> start]
  <2>. HIDE DEF start
  <2>1. f = [k \in 0..0 |-> IF k = 0 THEN start ELSE Execute(f[k - 1], script[k])]
    OBVIOUS
  <2>2. Executes(f, script, 0)
    BY <2>1 DEF Executes, start
  <2>. QED  BY <2>2
<1>2. ASSUME NEW n \in Nat, n \in S PROVE n + 1 \in S
  <2>1. PICK f : Executes(f, script, n)
    BY <1>2
  <2>. DEFINE h == [k \in 0..n + 1 |-> IF k = n + 1 THEN Execute(f[n], script[n + 1]) ELSE f[k]]
  <2>2. f = [k \in 0..n |-> IF k = 0 THEN start ELSE Execute(f[k - 1], script[k])]
    BY <2>1 DEF Executes
  <2>. HIDE DEF start
  <2>3. ASSUME NEW k \in 0..n + 1 PROVE h[k] = IF k = 0 THEN start ELSE Execute(h[k - 1], script[k])
    <3>1. CASE k = n + 1
      <4>1. n \in 0..n + 1 /\ n # n + 1 /\ k # 0 /\ k - 1 = n
        BY <3>1
      <4>2. h[n] = f[n] /\ h[k] = Execute(f[n], script[n + 1])
        BY <3>1, <4>1
      <4>. QED  BY <3>1, <4>1, <4>2
    <3>2. CASE k # n + 1
      <4>1. k \in 0..n /\ h[k] = f[k]
        BY <3>2
      <4>2. CASE k = 0
        BY <2>2, <4>1, <4>2
      <4>3. CASE k # 0
        <5>1. k - 1 \in 0..n + 1 /\ k - 1 # n + 1
          BY <3>2, <4>1, <4>3
        <5>2. h[k - 1] = f[k - 1]
          BY <5>1
        <5>3. f[k] = Execute(f[k - 1], script[k])
          BY <2>2, <4>1, <4>3
        <5>. QED  BY <4>1, <4>3, <5>2, <5>3
      <4>. QED  BY <4>2, <4>3
    <3>. QED  BY <3>1, <3>2
  <2>4. h = [k \in 0..n + 1 |-> h[k]]
    OBVIOUS
  <2>. HIDE DEF h
  <2>5. h = [k \in 0..n + 1 |-> IF k = 0 THEN start ELSE Execute(h[k - 1], script[k])]
    BY <2>3, <2>4
  <2>6. Executes(h, script, n + 1)
    BY <2>5 DEF Executes, start
  <2>. QED  BY <2>6
<1>. HIDE DEF S
<1>3. Nat \subseteq S
  BY <1>1, <1>2, Induction
<1>. QED  BY <1>3 DEF S

LEMMA ExecutedUnfold ==
    ASSUME NEW script, Len(script) \in Nat
    PROVE  /\ Executed(script)[0] = [names |-> {}, calls |-> <<>>, runs |-> TRUE]
           /\ \A n \in 1..Len(script) : Executed(script)[n] = Execute(Executed(script)[n - 1], script[n])
<1>. DEFINE e == Executed(script)
<1>1. PICK f : Executes(f, script, Len(script))
  BY ExecutesExists
<1>2. f = [k \in 0..Len(script) |-> IF k = 0 THEN [names |-> {}, calls |-> <<>>, runs |-> TRUE]
                                    ELSE Execute(f[k - 1], script[k])]
  BY <1>1 DEF Executes
<1>3. e = [k \in 0..Len(script) |-> IF k = 0 THEN [names |-> {}, calls |-> <<>>, runs |-> TRUE]
                                    ELSE Execute(e[k - 1], script[k])]
  BY <1>2 DEF Executed
<1>. HIDE DEF e
<1>4. e[0] = [names |-> {}, calls |-> <<>>, runs |-> TRUE]
  BY <1>3
<1>5. ASSUME NEW n \in 1..Len(script) PROVE e[n] = Execute(e[n - 1], script[n])
  <2>1. n \in 0..Len(script) /\ n # 0
    OBVIOUS
  <2>2. e[n] = IF n = 0 THEN [names |-> {}, calls |-> <<>>, runs |-> TRUE] ELSE Execute(e[n - 1], script[n])
    BY <1>3, <2>1
  <2>. QED  BY <2>1, <2>2
<1>. QED  BY <1>4, <1>5 DEF e

LEMMA BoundIs ==
    ASSUME NEW names, OneEach(names), NEW x, NEW v, <<x, v>> \in names
    PROVE  Bound(names, x) = v
<1>. DEFINE b == CHOOSE y \in names : y[1] = x
<1>1. \E y \in names : y[1] = x
  BY Zenon
<1>2. b \in names /\ b[1] = x
  BY <1>1
<1>3. Bound(names, x) = b[2]
  BY <1>1 DEF Bound
<1>. HIDE DEF b
<1>4. b = <<x, v>>
  BY <1>2 DEF OneEach
<1>. QED  BY <1>3, <1>4

LEMMA InNames ==
    ASSUME NEW lists, NEW imports, NEW n
    PROVE  n \in NamesOf(lists, imports) <=>
             ((\E b \in lists : n = <<b[1], <<"list", b[2]>>>>) \/ (\E a \in imports : n = <<a[1], <<a[2], 0>>>>))
BY DEF NamesOf

LEMMA NamesImport ==
    ASSUME NEW lists, NEW imports, NEW x, NEW what,
           \A b \in lists : b[1] # x, \A a \in imports : a[1] # x
    PROVE  Rebound(NamesOf(lists, imports), x, <<what, 0>>) = NamesOf(lists, imports \cup {<<x, what>>})
<1>. DEFINE old == NamesOf(lists, imports)
            new == NamesOf(lists, imports \cup {<<x, what>>})
            re == Rebound(old, x, <<what, 0>>)
<1>1. ASSUME NEW n \in new PROVE n \in re
  <2>1. CASE \E b \in lists : n = <<b[1], <<"list", b[2]>>>>
    <3>1. n \in old /\ n[1] # x
      BY <2>1, InNames
    <3>. QED  BY <3>1 DEF Rebound
  <2>2. CASE \E a \in imports : n = <<a[1], <<a[2], 0>>>>
    <3>1. n \in old /\ n[1] # x
      BY <2>2, InNames
    <3>. QED  BY <3>1 DEF Rebound
  <2>3. CASE n = <<x, <<what, 0>>>>
    BY <2>3 DEF Rebound
  <2>4. \/ \E b \in lists : n = <<b[1], <<"list", b[2]>>>>
        \/ \E a \in imports \cup {<<x, what>>} : n = <<a[1], <<a[2], 0>>>>
    BY <1>1, InNames
  <2>. QED  BY <2>1, <2>2, <2>3, <2>4
<1>2. ASSUME NEW n \in re PROVE n \in new
  <2>1. CASE n = <<x, <<what, 0>>>>
    <3>. DEFINE a == <<x, what>>
    <3>1. a \in imports \cup {<<x, what>>} /\ n = <<a[1], <<a[2], 0>>>>
      BY <2>1
    <3>. HIDE DEF a
    <3>. QED  BY <3>1, InNames
  <2>2. CASE n \in old
    BY <2>2 DEF NamesOf
  <2>3. n \in old \/ n = <<x, <<what, 0>>>>
    BY <1>2 DEF Rebound
  <2>. QED  BY <2>1, <2>2, <2>3
<1>. HIDE DEF old, new, re
<1>3. re = new
  BY <1>1, <1>2
<1>. QED  BY <1>3 DEF old, new, re

LEMMA NamesAssign ==
    ASSUME NEW lists, NEW imports, NEW x, NEW v, \A a \in imports : a[1] # x
    PROVE  Rebound(NamesOf(lists, imports), x, <<"list", v>>) =
             NamesOf({b \in lists : b[1] # x} \cup {<<x, v>>}, imports)
<1>. DEFINE old == NamesOf(lists, imports)
            rest == {b \in lists : b[1] # x} \cup {<<x, v>>}
            new == NamesOf(rest, imports)
            re == Rebound(old, x, <<"list", v>>)
<1>1. ASSUME NEW n \in new PROVE n \in re
  <2>1. CASE \E b \in rest : n = <<b[1], <<"list", b[2]>>>>
    <3>1. PICK b \in rest : n = <<b[1], <<"list", b[2]>>>>
      BY <2>1
    <3>2. CASE b = <<x, v>>
      BY <3>1, <3>2 DEF Rebound
    <3>3. CASE b \in lists /\ b[1] # x
      <4>1. n \in old /\ n[1] # x
        BY <3>1, <3>3, InNames
      <4>. QED  BY <4>1 DEF Rebound
    <3>. QED  BY <3>1, <3>2, <3>3
  <2>2. CASE \E a \in imports : n = <<a[1], <<a[2], 0>>>>
    <3>1. n \in old /\ n[1] # x
      BY <2>2, InNames
    <3>. QED  BY <3>1 DEF Rebound
  <2>. HIDE DEF rest
  <2>3. (\E b \in rest : n = <<b[1], <<"list", b[2]>>>>) \/ (\E a \in imports : n = <<a[1], <<a[2], 0>>>>)
    BY <1>1, InNames
  <2>. QED  BY <2>1, <2>2, <2>3
<1>2. ASSUME NEW n \in re PROVE n \in new
  <2>1. CASE n = <<x, <<"list", v>>>>
    <3>. DEFINE b == <<x, v>>
    <3>1. b \in rest /\ n = <<b[1], <<"list", b[2]>>>>
      BY <2>1
    <3>. HIDE DEF b, rest
    <3>. QED  BY <3>1, InNames
  <2>2. CASE n \in old /\ n[1] # x
    <3>1. (\E b \in lists : n = <<b[1], <<"list", b[2]>>>>) \/ (\E a \in imports : n = <<a[1], <<a[2], 0>>>>)
      BY <2>2, InNames
    <3>2. (\E b \in rest : n = <<b[1], <<"list", b[2]>>>>) \/ (\E a \in imports : n = <<a[1], <<a[2], 0>>>>)
      BY <2>2, <3>1
    <3>. HIDE DEF rest
    <3>. QED  BY <3>2, InNames
  <2>3. (n \in old /\ n[1] # x) \/ n = <<x, <<"list", v>>>>
    BY <1>2 DEF Rebound
  <2>. QED  BY <2>1, <2>2, <2>3
<1>. HIDE DEF old, new, re
<1>3. re = new
  BY <1>1, <1>2
<1>. QED  BY <1>3 DEF old, new, re, rest

\* What each kind of statement does to an interpreter that runs.
LEMMA ExecuteImport ==
    ASSUME NEW names, NEW calls, NEW s, s.does = "import"
    PROVE  Execute([names |-> names, calls |-> calls, runs |-> TRUE], s) =
             [names |-> Rebound(names, s.as, <<s.what, 0>>), calls |-> calls, runs |-> TRUE]
<1>. DEFINE state == [names |-> names, calls |-> calls, runs |-> TRUE]
<1>1. state.names = names /\ state.calls = calls /\ state.runs = TRUE
  OBVIOUS
<1>2. Execute(state, s) = [state EXCEPT !.names = Rebound(state.names, s.as, <<s.what, 0>>)]
  BY <1>1 DEF Execute
<1>. QED  BY <1>2

LEMMA ExecuteAssign ==
    ASSUME NEW names, NEW calls, NEW s, s.does = "assign", Evaluated(names, s.value)[1] # "nothing"
    PROVE  Execute([names |-> names, calls |-> calls, runs |-> TRUE], s) =
             [names |-> Rebound(names, s.as, Evaluated(names, s.value)), calls |-> calls, runs |-> TRUE]
<1>. DEFINE state == [names |-> names, calls |-> calls, runs |-> TRUE]
<1>1. state.names = names /\ state.calls = calls /\ state.runs = TRUE
  OBVIOUS
<1>2. Execute(state, s) = [state EXCEPT !.names = Rebound(state.names, s.as, Evaluated(names, s.value))]
  <2>. HIDE DEF state
  <2>. QED  BY <1>1 DEF Execute
<1>. QED  BY <1>2

LEMMA ExecuteCall ==
    ASSUME NEW names, NEW calls, NEW s, s.does = "call", Evaluated(names, s.value)[1] # "nothing",
           Bound(names, s.as) = <<s.what, 0>>
    PROVE  Execute([names |-> names, calls |-> calls, runs |-> TRUE], s) =
             [names |-> names, calls |-> Append(calls, Evaluated(names, s.value)), runs |-> TRUE]
<1>. DEFINE state == [names |-> names, calls |-> calls, runs |-> TRUE]
<1>1. state.names = names /\ state.calls = calls /\ state.runs = TRUE
  OBVIOUS
<1>2. Execute(state, s) = [state EXCEPT !.runs = Bound(names, s.as) = <<s.what, 0>>,
                                        !.calls = Append(state.calls, Evaluated(names, s.value))]
  <2>. HIDE DEF state
  <2>. QED  BY <1>1, Zenon DEF Execute
<1>3. Execute(state, s) = [state EXCEPT !.runs = TRUE, !.calls = Append(state.calls, Evaluated(names, s.value))]
  BY <1>2
<1>. QED  BY <1>3

\* In the midst of a walk, and what the statement at hand is.
Walking ==
    /\ ScriptInv /\ reading = "walk" /\ statement \in 1..Len(manifest.script)
    /\ manifest.script[statement] \in Statement

LEMMA WalkNamesOnce ==
    ASSUME Walking
    PROVE  OneEach(WalkNames)
<1>1. \A x \in WalkNames :
        \/ \E b \in literals : x[1] = b[1] /\ x[2] = <<"list", b[2]>> /\ x = <<x[1], x[2]>>
        \/ \E a \in aliases : x[1] = a[1] /\ x[2] = <<a[2], 0>> /\ x = <<x[1], x[2]>>
  BY InNames DEF WalkNames
<1>2. OneEach(literals) /\ OneEach(aliases) /\ \A b \in literals, a \in aliases : b[1] # a[1]
  BY DEF Walking, ScriptInv
<1>3. ASSUME NEW x \in WalkNames, NEW y \in WalkNames, x[1] = y[1] PROVE x = y
  BY <1>1, <1>2, <1>3 DEF OneEach
<1>. QED  BY <1>3 DEF OneEach

LEMMA ValueIs ==
    ASSUME Walking, NEW v \in [name : STRING, list : Nat], ValueOf(v) # 0
    PROVE  /\ ValueOf(v) \in Nat
           /\ Evaluated(WalkNames, v) = <<"list", ValueOf(v)>>
<1>1. CASE v.list # 0
  BY <1>1 DEF ValueOf, Evaluated
<1>2. CASE v.list = 0
  <2>. DEFINE b == CHOOSE x \in literals : x[1] = v.name
  <2>1. Literal(v.name) /\ ValueOf(v) = b[2]
    BY <1>2 DEF ValueOf
  <2>2. b \in literals /\ b[1] = v.name
    BY <2>1 DEF Literal
  <2>. HIDE DEF b
  <2>3. b[2] \in Nat
    BY <2>2 DEF Walking, ScriptInv
  <2>4. <<v.name, <<"list", b[2]>>>> \in WalkNames
    BY <2>2 DEF WalkNames, NamesOf
  <2>5. Bound(WalkNames, v.name) = <<"list", b[2]>>
    BY <2>4, WalkNamesOnce, BoundIs
  <2>. QED  BY <1>2, <2>1, <2>3, <2>5 DEF Evaluated
<1>. QED  BY <1>1, <1>2

\* One statement on, the interpreter has executed it.
LEMMA NextStatement ==
    ASSUME ScriptInv, WalkOn, manifest' = manifest
    PROVE  /\ Walking /\ statement' = statement + 1 /\ statement' \in 1..Len(manifest.script) + 1
           /\ manifest.script \in Seq(Statement)
           /\ Executed(manifest.script)[statement' - 1] =
                Execute([names |-> WalkNames, calls |-> [k \in 1..Len(setups) |-> <<"list", setups[k]>>], runs |-> TRUE],
                        manifest.script[statement])
<1>1. manifest.script \in Seq(Statement)
  BY ManifestAssumption DEF ScriptInv
<1>2. reading = "walk" /\ statement \in 1..Len(manifest.script) /\ statement' = statement + 1
  BY <1>1 DEF ScriptInv, WalkOn
<1>3. Len(manifest.script) \in Nat /\ manifest.script[statement] \in Statement
  BY <1>1, <1>2
<1>4. Executed(manifest.script)[statement - 1] =
        [names |-> WalkNames, calls |-> [k \in 1..Len(setups) |-> <<"list", setups[k]>>], runs |-> TRUE]
  BY <1>2 DEF ScriptInv, InStep
<1>5. Executed(manifest.script)[statement] =
        Execute(Executed(manifest.script)[statement - 1], manifest.script[statement])
  BY <1>2, <1>3, ExecutedUnfold
<1>6. statement' - 1 = statement /\ statement' \in 1..Len(manifest.script) + 1
  BY <1>2, <1>3
<1>. QED  BY <1>1, <1>2, <1>3, <1>4, <1>5, <1>6 DEF Walking

LEMMA WalkImportInv ==
    ASSUME ScriptInv, WalkImport
    PROVE  ScriptInv'
<1>. DEFINE s == manifest.script[statement]
            calls == [k \in 1..Len(setups) |-> <<"list", setups[k]>>]
<1>1. /\ WalkOn /\ s.does = "import" /\ s.as \notin Imported /\ ~Literal(s.as)
      /\ aliases' = aliases \cup {<<s.as, s.what>>}
      /\ manifest' = manifest /\ reading' = reading /\ literals' = literals /\ setups' = setups
  BY DEF WalkImport
<1>2. Walking /\ statement' \in 1..Len(manifest.script) + 1
  BY <1>1, NextStatement
<1>3. Executed(manifest.script)[statement' - 1] = Execute([names |-> WalkNames, calls |-> calls, runs |-> TRUE], s)
  BY <1>1, NextStatement
<1>4. s \in Statement
  BY <1>2 DEF Walking
<1>5. \A a \in aliases : a[1] # s.as
  BY <1>1 DEF Imported
<1>6. \A b \in literals : b[1] # s.as
  BY <1>1 DEF Literal
<1>7. Rebound(WalkNames, s.as, <<s.what, 0>>) = WalkNames'
  BY <1>1, <1>5, <1>6, NamesImport DEF WalkNames
<1>. HIDE DEF s, calls
<1>8. Execute([names |-> WalkNames, calls |-> calls, runs |-> TRUE], s) =
        [names |-> WalkNames', calls |-> calls, runs |-> TRUE]
  BY <1>1, <1>7, ExecuteImport
<1>9. InStep(Executed(manifest.script)[statement - 1])'
  BY <1>1, <1>3, <1>8 DEF InStep, calls
<1>10. OneEach(aliases') /\ \A b \in literals', a \in aliases' : b[1] # a[1]
  <2>1. OneEach(aliases) /\ \A b \in literals, a \in aliases : b[1] # a[1]
    BY <1>2 DEF Walking, ScriptInv
  <2>2. OneEach(aliases')
    BY <1>1, <1>5, <2>1 DEF OneEach
  <2>. QED  BY <1>1, <1>6, <2>1, <2>2
<1>. QED  BY <1>1, <1>2, <1>9, <1>10 DEF ScriptInv, Walking, OneEach

LEMMA WalkAssignInv ==
    ASSUME ScriptInv, WalkAssign
    PROVE  ScriptInv'
<1>. DEFINE s == manifest.script[statement]
            v == ValueOf(s.value)
            calls == [k \in 1..Len(setups) |-> <<"list", setups[k]>>]
<1>1. /\ WalkOn /\ s.does = "assign" /\ s.as \notin Imported /\ v # 0
      /\ literals' = {b \in literals : b[1] # s.as} \cup {<<s.as, v>>}
      /\ manifest' = manifest /\ reading' = reading /\ aliases' = aliases /\ setups' = setups
  BY DEF WalkAssign
<1>2. Walking /\ statement' \in 1..Len(manifest.script) + 1
  BY <1>1, NextStatement
<1>3. Executed(manifest.script)[statement' - 1] = Execute([names |-> WalkNames, calls |-> calls, runs |-> TRUE], s)
  BY <1>1, NextStatement
<1>4. s \in Statement /\ s.value \in [name : STRING, list : Nat]
  BY <1>2 DEF Walking, Statement
<1>5. \A a \in aliases : a[1] # s.as
  BY <1>1 DEF Imported
<1>6. v \in Nat /\ Evaluated(WalkNames, s.value) = <<"list", v>>
  BY <1>1, <1>2, <1>4, ValueIs
<1>. HIDE DEF v
<1>7. Rebound(WalkNames, s.as, <<"list", v>>) = WalkNames'
  BY <1>1, <1>5, NamesAssign DEF WalkNames
<1>. HIDE DEF s, calls
<1>8. Execute([names |-> WalkNames, calls |-> calls, runs |-> TRUE], s) =
        [names |-> WalkNames', calls |-> calls, runs |-> TRUE]
  <2>1. s.does = "assign" /\ Evaluated(WalkNames, s.value)[1] # "nothing"
    BY <1>1, <1>6 DEF s
  <2>. QED  BY <1>6, <1>7, <2>1, ExecuteAssign
<1>9. InStep(Executed(manifest.script)[statement - 1])'
  BY <1>1, <1>3, <1>8 DEF InStep, calls
<1>10. /\ literals' \subseteq STRING \X (Nat \ {0}) /\ OneEach(literals')
       /\ \A b \in literals', a \in aliases' : b[1] # a[1]
  <2>1. /\ literals \subseteq STRING \X (Nat \ {0}) /\ OneEach(literals)
        /\ \A b \in literals, a \in aliases : b[1] # a[1]
    BY <1>2 DEF Walking, ScriptInv
  <2>2. <<s.as, v>> \in STRING \X (Nat \ {0})
    BY <1>1, <1>4, <1>6 DEF Statement
  <2>3. OneEach(literals')
    BY <1>1, <2>1 DEF OneEach
  <2>. QED  BY <1>1, <1>5, <2>1, <2>2, <2>3
<1>. QED  BY <1>1, <1>2, <1>9, <1>10 DEF ScriptInv, Walking, OneEach

LEMMA WalkCallInv ==
    ASSUME ScriptInv, WalkCall
    PROVE  ScriptInv'
<1>. DEFINE s == manifest.script[statement]
            v == ValueOf(s.value)
            calls == [k \in 1..Len(setups) |-> <<"list", setups[k]>>]
<1>1. /\ WalkOn /\ s.does = "call" /\ <<s.as, s.what>> \in aliases /\ v # 0
      /\ setups' = Append(setups, v)
      /\ manifest' = manifest /\ reading' = reading /\ aliases' = aliases /\ literals' = literals
  BY DEF WalkCall
<1>2. Walking /\ statement' \in 1..Len(manifest.script) + 1
  BY <1>1, NextStatement
<1>3. Executed(manifest.script)[statement' - 1] = Execute([names |-> WalkNames, calls |-> calls, runs |-> TRUE], s)
  BY <1>1, NextStatement
<1>4. s \in Statement /\ s.value \in [name : STRING, list : Nat]
  BY <1>2 DEF Walking, Statement
<1>5. v \in Nat /\ Evaluated(WalkNames, s.value) = <<"list", v>>
  BY <1>1, <1>2, <1>4, ValueIs
<1>. HIDE DEF v
<1>6. Bound(WalkNames, s.as) = <<s.what, 0>>
  <2>1. <<s.as, <<s.what, 0>>>> \in WalkNames
    BY <1>1 DEF WalkNames, NamesOf
  <2>. QED  BY <1>2, <2>1, WalkNamesOnce, BoundIs
<1>7. setups \in Seq(Nat)
  BY <1>2 DEF Walking, ScriptInv
<1>8. Append(calls, <<"list", v>>) = [k \in 1..Len(setups') |-> <<"list", setups'[k]>>] /\ setups' \in Seq(Nat)
  <2>. HIDE DEF s
  <2>1. setups' \in Seq(Nat) /\ Len(setups') = Len(setups) + 1 /\ setups'[Len(setups) + 1] = v
        /\ \A k \in 1..Len(setups) : setups'[k] = setups[k]
    BY <1>1, <1>5, <1>7
  <2>2. calls \in Seq({<<"list", k>> : k \in Nat}) /\ Len(calls) = Len(setups)
    BY <1>7
  <2>. DEFINE longer == [k \in 1..Len(setups') |-> <<"list", setups'[k]>>]
              more == Append(calls, <<"list", v>>)
  <2>3. longer \in Seq({<<"list", k>> : k \in Nat}) /\ Len(longer) = Len(setups) + 1
    BY <2>1
  <2>4. more \in Seq({<<"list", k>> : k \in Nat}) /\ Len(more) = Len(setups) + 1
    BY <1>5, <2>2
  <2>5. ASSUME NEW k \in 1..Len(setups) + 1 PROVE more[k] = longer[k]
    <3>1. CASE k = Len(setups) + 1
      BY <1>7, <2>1, <2>2, <3>1
    <3>2. CASE k \in 1..Len(setups)
      <4>1. more[k] = calls[k]
        BY <2>2, <3>2
      <4>3. calls[k] = <<"list", setups[k]>>
        BY <3>2
      <4>2. longer[k] = <<"list", setups'[k]>>
        BY <1>7, <2>1
      <4>. QED  BY <2>1, <3>2, <4>1, <4>2, <4>3
    <3>. QED  BY <1>7, <3>1, <3>2
  <2>. HIDE DEF longer, more
  <2>6. more = longer
    BY <2>3, <2>4, <2>5, SeqEqual
  <2>. QED  BY <2>1, <2>6 DEF longer, more
<1>. HIDE DEF s, calls
<1>9. Execute([names |-> WalkNames, calls |-> calls, runs |-> TRUE], s) =
        [names |-> WalkNames, calls |-> Append(calls, <<"list", v>>), runs |-> TRUE]
  <2>1. s.does = "call" /\ Evaluated(WalkNames, s.value)[1] # "nothing"
    BY <1>1, <1>5 DEF s
  <2>. QED  BY <1>5, <1>6, <2>1, ExecuteCall
<1>10. InStep(Executed(manifest.script)[statement - 1])'
  <2>1. WalkNames' = WalkNames
    BY <1>1 DEF WalkNames
  <2>. QED  BY <1>1, <1>3, <1>8, <1>9, <2>1 DEF InStep
<1>. QED  BY <1>1, <1>2, <1>8, <1>10 DEF ScriptInv, Walking, OneEach

LEMMA BeginScriptInv ==
    ASSUME ScriptInv, BeginScript
    PROVE  ScriptInv'
<1>1. /\ reading = "parse" /\ reading' = "walk" /\ manifest' = manifest /\ statement' = statement
      /\ literals' = literals /\ aliases' = aliases /\ setups' = setups
  BY DEF BeginScript, Readable
<1>2. statement = 1 /\ literals = {} /\ aliases = {} /\ setups = <<>> /\ manifest \in Manifests
  BY <1>1 DEF ScriptInv
<1>3. Len(manifest.script) \in Nat
  BY <1>2, ManifestAssumption
<1>4. Executed(manifest.script)[0] = [names |-> {}, calls |-> <<>>, runs |-> TRUE]
  BY <1>3, ExecutedUnfold
<1>5. WalkNames' = {}
  <2>1. WalkNames' = NamesOf({}, {})
    BY <1>1, <1>2 DEF WalkNames
  <2>. QED  BY <2>1 DEF NamesOf
<1>6. [k \in 1..Len(setups') |-> <<"list", setups'[k]>>] = <<>>
  BY <1>1, <1>2
<1>7. statement' - 1 = 0 /\ statement' \in 1..Len(manifest'.script) + 1
  BY <1>1, <1>2, <1>3
<1>8. InStep(Executed(manifest.script)[statement - 1])'
  BY <1>1, <1>4, <1>5, <1>6, <1>7 DEF InStep
<1>9. setups' \in Seq(Nat)
  BY <1>1, <1>2
<1>. QED  BY <1>1, <1>2, <1>7, <1>8, <1>9 DEF ScriptInv, OneEach

LEMMA EndScriptInv ==
    ASSUME ScriptInv, EndScript
    PROVE  ScriptInv'
<1>1. CASE Len(setups) = 1
  <2>1. /\ reading = "walk" /\ statement > Len(manifest.script) /\ reading' = "select"
        /\ manifest' = manifest /\ setups' = setups
    BY <1>1 DEF EndScript
  <2>2. /\ manifest \in Manifests /\ statement \in 1..Len(manifest.script) + 1 /\ setups \in Seq(Nat)
        /\ InStep(Executed(manifest.script)[statement - 1])
    BY <2>1 DEF ScriptInv
  <2>3. Len(manifest.script) \in Nat
    BY <2>2, ManifestAssumption
  <2>4. statement - 1 = Len(manifest.script)
    BY <2>1, <2>2, <2>3
  <2>5. Interpreted(manifest.script) =
          [names |-> WalkNames, calls |-> [k \in 1..Len(setups) |-> <<"list", setups[k]>>], runs |-> TRUE]
    BY <2>2, <2>4 DEF InStep, Interpreted
  <2>6. [k \in 1..Len(setups) |-> <<"list", setups[k]>>] = <<<<"list", setups[1]>>>>
    <3>1. \A x : <<x>> = [k \in 1..1 |-> x]
      OBVIOUS
    <3>2. \A k \in 1..1 : k = 1
      OBVIOUS
    <3>. QED  BY <1>1, <3>1, <3>2
  <2>7. Interpreted(manifest.script).runs /\ Interpreted(manifest.script).calls = <<<<"list", setups[1]>>>>
    BY <2>5, <2>6
  <2>. QED  BY <2>1, <2>2, <2>7 DEF ScriptInv
<1>2. CASE Len(setups) # 1
  BY <1>2 DEF ScriptInv, EndScript, DynamicMetadata
<1>. QED  BY <1>1, <1>2

LEMMA ScriptInvHolds == ManifestSpec => []ScriptInv
<1>1. (\E m \in Manifests : ManifestInit(m)) => ScriptInv
  BY DEF ManifestInit, ScriptInv
<1>2. ASSUME ScriptInv, [ManifestNext]_manifestVars PROVE ScriptInv'
  <2>. USE <1>2
  <2>1. ASSUME \/ RefuseManifest \/ RefuseStatement
               \/ ReadTables \/ SelectVersions \/ PublishDeclared
               \/ ReadPackage \/ ReadCargo \/ ReadInstalled
        PROVE  ScriptInv'
    <3>1. manifest' = manifest /\ setups' = setups
      BY <2>1 DEF RefuseManifest, RefuseStatement, DynamicMetadata, ReadTables, SelectVersions,
                  PublishDeclared, ReadPackage, ReadCargo, ReadInstalled
    <3>2. \/ reading' = "refused"
          \/ reading' \in {"select", "done"} /\ manifest.format # "setup.py"
          \/ reading \in {"select", "publish"} /\ reading' \in {"publish", "done"}
      BY <2>1 DEF RefuseManifest, RefuseStatement, DynamicMetadata, ReadTables, SelectVersions,
                  PublishDeclared, ReadPackage, ReadCargo, ReadInstalled, Readable
    <3>. QED  BY <3>1, <3>2 DEF ScriptInv
  <2>2. CASE UNCHANGED manifestVars
    <3>1. WalkNames' = WalkNames
      BY <2>2 DEF manifestVars, WalkNames
    <3>2. InStep(Executed(manifest.script)[statement - 1])' = InStep(Executed(manifest.script)[statement - 1])
      BY <2>2, <3>1 DEF manifestVars, InStep
    <3>. QED  BY <2>2, <3>2 DEF manifestVars, ScriptInv, OneEach
  <2>3. CASE BeginScript
    BY <2>3, BeginScriptInv
  <2>4. CASE EndScript
    BY <2>4, EndScriptInv
  <2>5. CASE WalkImport
    BY <2>5, WalkImportInv
  <2>6. CASE WalkAssign
    BY <2>6, WalkAssignInv
  <2>7. CASE WalkCall
    BY <2>7, WalkCallInv
  <2>. QED  BY <2>1, <2>2, <2>3, <2>4, <2>5, <2>6, <2>7 DEF ManifestNext
<1>. QED  BY <1>1, <1>2, PTL DEF ManifestSpec

\* StaticMeansExecuted of ManifestAdapters: an interpreter runs a setup.py that is taken over to its
\* end, and calls setup() once, with the very requirements the walk read.
THEOREM StaticIsExecuted == ManifestSpec => []StaticMeansExecuted
<1>1. ScriptInv => StaticMeansExecuted
  BY DEF ScriptInv, StaticMeansExecuted
<1>. QED  BY <1>1, ScriptInvHolds, PTL

LEMMA PublishDeclaredInv ==
    ASSUME SelectionInv, PublishDeclared
    PROVE  SelectionInv'
<1>1. /\ reading = "publish" /\ reading' = "done" /\ declared' = declared /\ manifest' = manifest
      /\ published' = {Occurrence(l, SelectedPin(l), ActivationOf(l)) : l \in declared}
  BY DEF PublishDeclared
<1>2. ASSUME NEW o \in published', o.version # 0
      PROVE  /\ \E d \in Together(o.line) : d.exact = o.version
             /\ \A d \in declared :
                  SameKey(d, o.line) /\ ~Exclusive(d.marker, o.line.marker) => o.version \in d.range
  <2>1. PICK l \in declared : o = Occurrence(l, SelectedPin(l), ActivationOf(l))
    BY <1>1, <1>2
  <2>2. o.line = l /\ o.version = SelectedPin(l)
    BY <2>1 DEF Occurrence
  <2>3. ~failure /\ SelectedPin(l) \in CompatiblePins(l)
    BY <1>2, <2>2 DEF SelectedPin
  <2>4. PICK d \in Together(l) : d.exact = SelectedPin(l) /\ \A e \in Together(l) : d.exact \in e.range
    BY <2>3 DEF CompatiblePins
  <2>5. ASSUME NEW e \in declared, SameKey(e, l), ~Exclusive(e.marker, l.marker) PROVE o.version \in e.range
    <3>1. ~Overlaps(e, l)
      BY <1>1, <2>3 DEF SelectionInv, NoOverlap
    <3>2. e \in Together(l)
      BY <2>5, <3>1 DEF Overlaps, Together
    <3>. QED  BY <2>2, <2>4, <3>2
  <2>. QED  BY <2>2, <2>4, <2>5
<1>3. ManifestPinsAgree'
  <2>1. \A line : Together(line)' = {d \in declared : SameKey(d, line) /\ d.marker = line.marker}
    BY <1>1 DEF Together
  <2>. QED  BY <1>1, <1>2, <2>1 DEF ManifestPinsAgree, Together
<1>. QED  BY <1>1, <1>3 DEF SelectionInv

LEMMA ReadPackageInv ==
    ASSUME ScriptInv, SelectionInv, ReadPackage
    PROVE  SelectionInv'
<1>1. /\ reading' = "done" /\ declared' = manifest.lines /\ manifest' = manifest
      /\ manifest.format = "package.json" /\ manifest \in Manifests
      /\ published' = {Occurrence(l, l.exact, "unknown") : l \in manifest.lines}
  BY DEF ReadPackage, Readable, ScriptInv
<1>2. ASSUME NEW o \in published', o.version # 0
      PROVE  /\ o.line \in manifest.lines /\ o.line.exact = o.version
             /\ \A d \in manifest.lines : SameKey(d, o.line) => o.version \in d.range
  <2>1. PICK l \in manifest.lines : o = Occurrence(l, l.exact, "unknown")
    BY <1>1, <1>2
  <2>2. o.line = l /\ o.version = l.exact
    BY <2>1 DEF Occurrence
  <2>3. l.exact \in l.range \cup {0} /\ \A b \in manifest.lines \ {l} : l.name # b.name \/ l.table # b.table
    BY <1>1, ManifestAssumption
  <2>4. \A d \in manifest.lines : SameKey(d, l) => d = l
    BY <2>3 DEF SameKey
  <2>. QED  BY <1>2, <2>2, <2>3, <2>4
<1>3. ManifestPinsAgree'
  BY <1>1, <1>2 DEF ManifestPinsAgree, Together, SameKey
<1>. QED  BY <1>1, <1>3 DEF SelectionInv

\* ManifestPinsAgree of ManifestAdapters: a selected version is pinned by a declaration that applies
\* in the same cases, and admitted by every one that may apply together with it.
THEOREM PinsAgree == ManifestSpec => []ManifestPinsAgree
<1>1. (\E m \in Manifests : ManifestInit(m)) => SelectionInv
  BY DEF ManifestInit, SelectionInv
<1>2. ASSUME ScriptInv, SelectionInv, [ManifestNext]_manifestVars PROVE SelectionInv'
  <2>. USE <1>2
  <2>1. CASE SelectVersions
    <3>1. reading = "select" /\ reading' = "publish" /\ published' = published /\ declared' = declared
      BY <2>1 DEF SelectVersions
    <3>2. failure' \/ NoOverlap'
      BY <2>1, <3>1 DEF SelectVersions, NoOverlap
    <3>. QED  BY <3>1, <3>2 DEF SelectionInv
  <2>2. ASSUME \/ RefuseManifest \/ ReadTables \/ BeginScript
               \/ WalkImport \/ WalkAssign \/ WalkCall \/ RefuseStatement \/ EndScript
        PROVE  SelectionInv'
    <3>1. /\ reading \in {"parse", "walk"} /\ reading' \in {"refused", "walk", "select"} \cup {reading}
          /\ published' = published
      BY <2>2 DEF RefuseManifest, ReadTables, BeginScript, WalkImport, WalkAssign, WalkCall, WalkOn,
                  RefuseStatement, EndScript, DynamicMetadata, Readable
    <3>. QED  BY <3>1 DEF SelectionInv
  <2>3. CASE ReadCargo
    <3>1. published' = {} /\ reading' = "done"
      BY <2>3 DEF ReadCargo, Readable, SelectionInv
    <3>. QED  BY <3>1 DEF SelectionInv, ManifestPinsAgree
  <2>4. CASE ReadInstalled
    <3>1. /\ manifest' = manifest /\ reading' = "done"
          /\ published' = {Occurrence(manifest.identity, manifest.identity.exact, "unknown")}
      BY <2>4 DEF ReadInstalled
    <3>2. \A o \in published' : o.line = manifest'.identity
      BY <3>1 DEF Occurrence
    <3>. QED  BY <3>1, <3>2 DEF SelectionInv, ManifestPinsAgree
  <2>5. CASE UNCHANGED manifestVars
    BY <2>5 DEF manifestVars, SelectionInv, NoOverlap, ManifestPinsAgree, Together
  <2>6. CASE PublishDeclared
    BY <2>6, PublishDeclaredInv
  <2>7. CASE ReadPackage
    BY <2>7, ReadPackageInv
  <2>. QED  BY <2>1, <2>2, <2>3, <2>4, <2>5, <2>6, <2>7 DEF ManifestNext
<1>3. ScriptInv /\ SelectionInv => ManifestPinsAgree
  BY DEF SelectionInv, ScriptInv, ManifestPinsAgree
<1>. QED  BY <1>1, <1>2, <1>3, ScriptInvHolds, PTL DEF ManifestSpec
=============================================================================
