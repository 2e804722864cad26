---------------------------- MODULE MCAuditChain ----------------------------
(* Three transactions of two organizations: AuditChain for TLC. *)
EXTENDS AuditChain
=============================================================================
