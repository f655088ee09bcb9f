---------------------------- MODULE MCScanPools ----------------------------
(***************************************************************************)
(* The instances of ScanPlan and of ScannerPool side by side for TLC.      *)
(***************************************************************************)
EXTENDS ScanPools, MCScanPlan, MCScannerPool
=============================================================================
