----------------------------- MODULE MCAuditLog -----------------------------
(***************************************************************************)
(* AuditLog for TLC: three records make a checkpoint due and leave one     *)
(* that only a tick or Close signs.                                        *)
(***************************************************************************)
EXTENDS AuditLog

CONSTANTS r1, r2, r3

ThreeRecords == {r1, r2, r3}
=============================================================================
