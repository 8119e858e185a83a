----------------------------- MODULE MCTaskSync -----------------------------
(* Synced projects, in some order, and the inbox.                           *)
EXTENDS TaskSync

ProjectOrder == CHOOSE s \in [1..Cardinality(Synced) -> Synced] : ToSet(s) = Synced

\* <main vault>/10-tasks sorts before the project vaults.
MCFileOrder ==
  [i \in DOMAIN ProjectOrder |-> Canon(ProjectOrder[i])]
    \o <<Canon(Inbox)>> \o [i \in DOMAIN ProjectOrder |-> Projection(ProjectOrder[i])]
=============================================================================
