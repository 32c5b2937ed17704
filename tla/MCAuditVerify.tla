--------------------------- MODULE MCAuditVerify ---------------------------
(***************************************************************************)
(* AuditVerify for TLC.  The streamed set and the history of the log play  *)
(* no part in Verify.                                                      *)
(***************************************************************************)
EXTENDS AuditVerify, TLC

RecordSymmetry == Permutations(RecordSet)
=============================================================================
