--------------------------- MODULE MCVaultWatcher ---------------------------
(* VaultWatcher on a small instance: file 1 in the main vault's task         *)
(* directory, file 2 in a client's, file 3 in a directory of the main vault  *)
(* that is made and moved away.                                              *)
EXTENDS VaultWatcher

MCDirOf == [p \in Paths |-> p]
MCParent == [d \in {3} |-> 1]
=============================================================================
