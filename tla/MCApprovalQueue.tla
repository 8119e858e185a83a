-------------------------- MODULE MCApprovalQueue --------------------------
(* ApprovalQueue on a small instance: two ids, two connections, records of  *)
(* a few bytes and a log that fills up.                                     *)
EXTENDS ApprovalQueue
=============================================================================
