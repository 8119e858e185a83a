-------------------------- MODULE MCDaemonOverlap --------------------------
(* Two daemons, one approval, one connection each.                          *)
EXTENDS DaemonOverlap
=============================================================================
