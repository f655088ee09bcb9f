----------------------------- MODULE Reachability -----------------------------
(***************************************************************************)
(* What the walks of inventory/ come to: everything a set of places leads  *)
(* to, next being a function from places to the places one step on.        *)
(***************************************************************************)
EXTENDS Integers, FiniteSets

\* The places at most n steps away.
StepsAway(from, next) ==
    LET w[n \in Nat] ==
          IF n = 0 THEN from ELSE LET s == w[n - 1] IN s \cup UNION {next[x] : x \in s}
    IN w

\* As many steps as there are places are enough.
Reached(from, next) == StepsAway(from, next)[Cardinality(DOMAIN next)]
=============================================================================
