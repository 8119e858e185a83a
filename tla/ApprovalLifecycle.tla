------------------------- MODULE ApprovalLifecycle -------------------------
(***************************************************************************)
(* What the approval gate promises, whatever crashes and restarts do: a    *)
(* queued call runs only under a grant, each grant is good for one run, a  *)
(* refused or settled call never runs or changes again, and it is reported *)
(* as executed only if it ran.                                             *)
(***************************************************************************)
EXTENDS Integers

CONSTANT Ids

VARIABLES
  phase,   \* where each call is in its life
  grants,  \* approvals each call was given
  runs     \* times each call's tool ran

Phases == {"none", "pending", "authorised", "denied", "executed", "failed"}

LifecycleTypeOK ==
  /\ phase \in [Ids -> Phases]
  /\ grants \in [Ids -> Nat]
  /\ runs \in [Ids -> Nat]

LifecycleInit ==
  /\ phase = [id \in Ids |-> "none"]
  /\ grants = [id \in Ids |-> 0]
  /\ runs = [id \in Ids |-> 0]

Submit(id) ==
  /\ phase[id] = "none"
  /\ phase' = [phase EXCEPT ![id] = "pending"]
  /\ UNCHANGED <<grants, runs>>

\* A call that was authorised but not settled when the daemon stopped may be
\* granted once more.
Grant(id) ==
  /\ phase[id] \in {"pending", "authorised"}
  /\ phase' = [phase EXCEPT ![id] = "authorised"]
  /\ grants' = [grants EXCEPT ![id] = @ + 1]
  /\ UNCHANGED runs

Refuse(id) ==
  /\ phase[id] \in {"pending", "authorised"}
  /\ phase' = [phase EXCEPT ![id] = "denied"]
  /\ UNCHANGED <<grants, runs>>

Run(id) ==
  /\ phase[id] = "authorised"
  /\ runs[id] < grants[id]
  /\ runs' = [runs EXCEPT ![id] = @ + 1]
  /\ UNCHANGED <<phase, grants>>

Settle(id) ==
  /\ phase[id] = "authorised"
  /\ \E outcome \in {"executed", "failed"} :
       /\ outcome = "executed" => runs[id] > 0
       /\ phase' = [phase EXCEPT ![id] = outcome]
  /\ UNCHANGED <<grants, runs>>

LifecycleNext ==
  \E id \in Ids : Submit(id) \/ Grant(id) \/ Refuse(id) \/ Run(id) \/ Settle(id)

LifecycleSpec ==
  LifecycleInit /\ [][LifecycleNext]_<<phase, grants, runs>>
=============================================================================
