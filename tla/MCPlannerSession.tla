-------------------------- MODULE MCPlannerSession --------------------------
(* Two processes, two approvals, two providers.                           *)
EXTENDS PlannerSession
=============================================================================
