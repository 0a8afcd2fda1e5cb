----------------------------- MODULE MCAuditLog -----------------------------
(***************************************************************************)
(* Three processes, named in the configuration, append to the log; one of  *)
(* them is a scan, which the filter keeps from the lock.                   *)
(***************************************************************************)
EXTENDS AuditLog
=============================================================================
