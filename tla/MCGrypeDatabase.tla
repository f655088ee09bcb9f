-------------------------- MODULE MCGrypeDatabase --------------------------
(***************************************************************************)
(* Small instances of GrypeDatabase for TLC. Refreshes and scans are       *)
(* interchangeable.                                                        *)
(***************************************************************************)
EXTENDS GrypeDatabase, TLC

Regime(atOnce, gens, clock_, late, readers) ==
    [atOnce |-> atOnce, gens |-> gens, clock |-> clock_, back |-> atOnce > 1, late |-> late,
     readers |-> readers]

\* Refreshes in every kind of trouble; and one after the other, with scans.
MCRegimes == {Regime(2, 3, 3, TRUE, FALSE), Regime(1, 4, 5, FALSE, TRUE)}

MCLateKills == {Regime(1, 4, 6, TRUE, TRUE)}

Symmetry == Permutations(Refreshers) \cup Permutations(Scans)
=============================================================================
