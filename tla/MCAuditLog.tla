----------------------------- MODULE MCAuditLog -----------------------------
(* Small instances of AuditLog. *)
EXTENDS AuditLog
=============================================================================
