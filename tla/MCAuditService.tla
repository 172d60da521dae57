---------------------------- MODULE MCAuditService ----------------------------
(* Instances of AuditService for TLC. *)
EXTENDS AuditService

CONSTANTS e1, e2, e3, k1, k2

\* The file observer comes first, as in NewServiceFromConfig.
MCFileObservers == {1}
===============================================================================
