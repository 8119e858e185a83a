---------------------------- MODULE MCDrainQueue ----------------------------
(* Two rows, pulled together or one by one, and two drain processes.        *)
EXTENDS DrainQueue
=============================================================================
