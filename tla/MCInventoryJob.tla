---------------------------- MODULE MCInventoryJob ----------------------------
(***************************************************************************)
(* A small instance of InventoryJob for TLC.                               *)
(***************************************************************************)
EXTENDS InventoryJob

\* One unit for the small artifacts, three for the large ones: as with the
\* limits of the code, not every job of legal artifacts fits the allowance.
MCCeiling ==
    [f \in Names |-> IF f \in {"inventory.json", "sbom.cdx.json", "grype.json", "recovery.json"}
                     THEN 3 ELSE 1]

\* An ordinary step, and one that takes more checks than the job has.
MCCharges == {1, 99}
=============================================================================
