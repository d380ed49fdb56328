------------------------------ MODULE OpsGraphMC ------------------------------
(***************************************************************************)
(* Plans with and without a high-risk step.                                *)
(***************************************************************************)
EXTENDS OpsGraph

MCPlan == {{}, {"low", "high"}}
=============================================================================
