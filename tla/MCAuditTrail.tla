----------------------------- MODULE MCAuditTrail -----------------------------
(***************************************************************************)
(* AuditTrail on the small instances of MCShieldedPool.                    *)
(***************************************************************************)
EXTENDS AuditTrail, MCShieldedPool
=============================================================================
