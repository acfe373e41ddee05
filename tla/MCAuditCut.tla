----------------------------- MODULE MCAuditCut -----------------------------
(***************************************************************************)
(* Instances of AuditCut for TLC. The commands are model values.           *)
(***************************************************************************)
EXTENDS AuditCut, TLC

\* The commands are alike until they begin.
Alike == Permutations(Jobs)
=============================================================================
