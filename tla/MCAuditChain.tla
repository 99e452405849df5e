---------------------------- MODULE MCAuditChain ----------------------------
(* Small instances of AuditChain for TLC.                                   *)
EXTENDS AuditChain, TLC

CONSTANTS w1, w2, w3, w4, w5
=============================================================================
