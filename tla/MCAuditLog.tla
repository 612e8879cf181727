----------------------------- MODULE MCAuditLog -----------------------------
(***************************************************************************)
(* Instance of AuditLog for TLC: interchangeable processes.                *)
(***************************************************************************)
EXTENDS AuditLog, TLC

AnyProcess == Permutations(Processes)
=============================================================================
