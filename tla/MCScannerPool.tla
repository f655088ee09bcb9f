--------------------------- MODULE MCScannerPool ---------------------------
(***************************************************************************)
(* Small instances of ScannerPool for TLC.                                 *)
(***************************************************************************)
EXTENDS ScannerPool

\* In the configured order: the tool that opens its report last, the one that reads every
\* manifest of the tree, and the one that installs dependencies into it.
MCFour == << "gitleaks", "php-vuln", "kics", "grype" >>
=============================================================================
